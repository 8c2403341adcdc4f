------------------------- MODULE MarketIndexerProofs -------------------------
(***************************************************************************)
(* The market index, for any number of auctions, tokens and ticks, any     *)
(* window size and any number of failures: the event log misses nothing,   *)
(* and where the checkpoint moves the tables are what one pass without     *)
(* failures would have written.                                            *)
(*                                                                         *)
(* The argument for the log: everything below the checkpoint is logged; a  *)
(* tick starts from a checkpoint it read, so everything below its window   *)
(* was logged then and, since the log only grows, still is; of its window  *)
(* it has logged whatever is no longer to do.  A late tick may therefore   *)
(* move the checkpoint back or forth, but never past an event that is not  *)
(* logged.                                                                 *)
(*                                                                         *)
(* For the tables: every column shows what its events had left at some     *)
(* time of its own, not before the events the tick under way has           *)
(* dispatched and not after its window, and at the end of a window there   *)
(* is one such time.                                                       *)
(***************************************************************************)
EXTENDS MarketIndexer, FiniteSetTheorems, TLAPS

-----------------------------------------------------------------------------
(* Finite sets have last elements.                                          *)

\* A finite set has an element that comes after all others.
LEMMA SomeLast ==
    ASSUME NEW S, IsFiniteSet(S), S # {}, NEW R,
           \A x, y, z \in S : <<x, y>> \in R /\ <<y, z>> \in R => <<x, z>> \in R,
           \A x \in S : <<x, x>> \notin R
    PROVE  \E x \in S : \A y \in S : <<x, y>> \notin R
<1> DEFINE Behind(x) == {y \in S : <<x, y>> \in R}
           T == {Behind(x) : x \in S}
<1>1. T \subseteq FiniteSubsetsOf(S) /\ T # {}
  <2>1. \A x \in S : Behind(x) \in SUBSET S
    OBVIOUS
  <2> HIDE DEF Behind
  <2>2. \A x \in S : IsFiniteSet(Behind(x))
    BY <2>1, FS_Subset
  <2> QED BY <2>1, <2>2 DEF FiniteSubsetsOf
<1>2. PICK A \in T : \A B \in T : <<B, A>> \notin StrictSubsetOrdering(S)
  <2> HIDE DEF T
  <2> QED BY <1>1, FS_StrictSubsetOrderingWellFounded, WFMin
<1>3. PICK x \in S : A = Behind(x)
  BY <1>2
<1>4. ASSUME NEW y \in S, <<x, y>> \in R
      PROVE  FALSE
  <2>1. Behind(y) \subseteq Behind(x) /\ y \in Behind(x) /\ y \notin Behind(y)
    BY <1>4
  <2>2. Behind(x) \in SUBSET S /\ Behind(y) \in SUBSET S /\ Behind(y) \in T
    OBVIOUS
  <2> HIDE DEF Behind, T
  <2>3. <<Behind(y), A>> \in StrictSubsetOrdering(S)
    BY <1>3, <2>1, <2>2 DEF StrictSubsetOrdering
  <2> QED BY <1>2, <2>2, <2>3
<1> QED BY <1>4

LEMMA ExtremesExist ==
    ASSUME NEW S \in SUBSET Int, IsFiniteSet(S), S # {}
    PROVE  /\ Max(S) \in S /\ \A y \in S : y <= Max(S)
           /\ Min(S) \in S /\ \A y \in S : Min(S) <= y
<1> DEFINE R == {p \in S \X S : p[1] < p[2]}
           Q == {p \in S \X S : p[2] < p[1]}
<1>1. \A x, y \in S : /\ <<x, y>> \in R <=> x < y
                      /\ <<x, y>> \in Q <=> y < x
  OBVIOUS
<1> HIDE DEF R, Q
<1>2. PICK x \in S : \A y \in S : <<x, y>> \notin R
  <2>1. /\ \A a, b, c \in S : <<a, b>> \in R /\ <<b, c>> \in R => <<a, c>> \in R
        /\ \A a \in S : <<a, a>> \notin R
    BY <1>1
  <2> QED BY <2>1, SomeLast
<1>3. PICK z \in S : \A y \in S : <<z, y>> \notin Q
  <2>1. /\ \A a, b, c \in S : <<a, b>> \in Q /\ <<b, c>> \in Q => <<a, c>> \in Q
        /\ \A a \in S : <<a, a>> \notin Q
    BY <1>1
  <2> QED BY <2>1, SomeLast
<1>4. ASSUME NEW y \in S
      PROVE  x >= y /\ z <= y
  <2>1. ~ (x < y) /\ ~ (y < z)
    BY <1>1, <1>2, <1>3
  <2>2. x \in Int /\ y \in Int /\ z \in Int
    OBVIOUS
  <2> QED BY <2>1, <2>2
<1>5. Max(S) \in S /\ \A y \in S : Max(S) >= y
  BY <1>4 DEF Max
<1>6. Min(S) \in S /\ \A y \in S : Min(S) <= y
  BY <1>4 DEF Min
<1>7. ASSUME NEW y \in S
      PROVE  y <= Max(S)
  <2>1. y \in Int /\ Max(S) \in Int
    BY <1>5
  <2> QED BY <1>5, <2>1
<1> QED BY <1>5, <1>6, <1>7

\* The greatest of a set is what its properties say.
LEMMA MaxIs ==
    ASSUME NEW S \in SUBSET Int, NEW b \in S, \A y \in S : y <= b
    PROVE  Max(S) = b
<1>1. \A y \in S : y \in Int
  OBVIOUS
<1>2. \E x \in S : \A y \in S : x >= y
  BY <1>1
<1>3. Max(S) \in S /\ \A y \in S : Max(S) >= y
  BY <1>2 DEF Max
<1>4. Max(S) \in Int /\ b \in Int /\ Max(S) >= b /\ Max(S) <= b
  BY <1>1, <1>3
<1> QED BY <1>4

-----------------------------------------------------------------------------
(* The log of the market.                                                  *)

Logged(b) == \E l \in log : l.block = b

\* What a tick computes with, without the bound of the instance on blocks.
TickShape == [step : {"idle", "starting", "reading", "logging", "handling"},
            from : Nat, to : Nat, todo : SUBSET Int]

\* The numbers the ticks compute with, and the window within the chain.
Numbers ==
    /\ chain \in Seq(Event \cup {Silence})
    /\ seed \in Nat \cup {-1} /\ checkpoint \in Nat \cup {-1}
    /\ checkpoint <= Len(chain) + 1
    /\ tick \in [Ticks -> TickShape]
    /\ \A p \in Ticks :
          /\ tick[p].step = "reading" =>
                checkpoint # -1 /\ tick[p].from <= Len(chain) + 1
          /\ tick[p].step \in {"logging", "handling"} =>
                checkpoint # -1 /\ tick[p].to <= Len(chain)

\* What a tick has left behind of its window.
WindowLogged ==
    \A p \in Ticks :
        /\ tick[p].step = "reading" =>
              \A b \in EventBlocks : seed <= b /\ b < tick[p].from => Logged(b)
        /\ tick[p].step \in {"logging", "handling"} =>
              \A b \in EventBlocks :
                  seed <= b /\ b <= tick[p].to /\ b \notin tick[p].todo => Logged(b)
        /\ tick[p].step = "handling" => Logged(FirstBlock(tick[p].todo))

LogCovers ==
    \A b \in EventBlocks : seed <= b /\ b < checkpoint => Logged(b)

LoggedOnce == \A k, l \in log : k.block = l.block => k = l

LogInv == Numbers /\ WindowLogged /\ LogCovers /\ LoggedOnce

-----------------------------------------------------------------------------
LEMMA LogInit == Init => LogInv
BY DEF Init, LogInv, Numbers, TickShape, WindowLogged, LogCovers, LoggedOnce, IdleTick,
       EventBlocks, Mined

\* Mining adds a block above every window and every checkpoint.
LEMMA MineStep ==
    ASSUME LogInv, NEW e \in Event \cup {Silence}, Mine(e)
    PROVE  LogInv'
<1>1. /\ chain' \in Seq(Event \cup {Silence})
      /\ Len(chain') = Len(chain) + 1 /\ Len(chain) \in Nat
      /\ \A b \in 1..Len(chain) : chain'[b] = chain[b]
  BY DEF LogInv, Numbers, TickShape, Mine
<1>2. \A b \in EventBlocks' : b \in EventBlocks \/ b = Len(chain) + 1
  BY <1>1 DEF EventBlocks, Mined
<1>3. UNCHANGED <<seed, checkpoint, log, tick>>
  BY DEF Mine, state
<1>4. Numbers'
  BY <1>1, <1>3 DEF LogInv, Numbers, TickShape
<1>5. LogCovers'
  BY <1>1, <1>2, <1>3 DEF LogInv, Numbers, TickShape, LogCovers, Logged
<1>6. WindowLogged'
  <2>1. \A b : Logged(b)' <=> Logged(b)
    BY <1>3 DEF Logged
  <2>2. SUFFICES ASSUME NEW p \in Ticks
                 PROVE  WindowLogged!(p)'
    BY DEF WindowLogged
  <2>3. WindowLogged!(p) /\ tick'[p] = tick[p]
    BY <1>3 DEF LogInv, WindowLogged
  <2>4. /\ tick[p].step = "reading" => tick[p].from <= Len(chain) + 1
        /\ tick[p].step \in {"logging", "handling"} => tick[p].to <= Len(chain)
        /\ tick[p].from \in Nat /\ tick[p].to \in Nat
    BY DEF LogInv, Numbers, TickShape
  <2>5. tick[p].step = "handling" => Logged(FirstBlock(tick[p].todo))'
    BY <2>1, <2>3 DEF FirstBlock
  <2> QED BY <1>1, <1>2, <1>3, <2>1, <2>3, <2>4, <2>5
<1>7. LoggedOnce'
  BY <1>3 DEF LogInv, LoggedOnce
<1> QED BY <1>4, <1>5, <1>6, <1>7 DEF LogInv

\* A step of one tick that leaves the chain, the log and the state row alone.
LEMMA QuietTick ==
    ASSUME LogInv, NEW p \in Ticks,
           UNCHANGED <<chain, seed, checkpoint, log>>,
           tick' = [tick EXCEPT ![p] = tick'[p]],
           tick'[p] \in TickShape,
           tick'[p].step \in {"idle", "starting"}
    PROVE  LogInv'
<1>1. Numbers'
  BY DEF LogInv, Numbers, TickShape
<1>2. WindowLogged'
  BY DEF LogInv, Numbers, TickShape, WindowLogged, Logged, EventBlocks, Mined, FirstBlock
<1>3. LogCovers' /\ LoggedOnce'
  BY DEF LogInv, LogCovers, LoggedOnce, Logged, EventBlocks, Mined
<1> QED BY <1>1, <1>2, <1>3 DEF LogInv

LEMMA ReadStateStep ==
    ASSUME LogInv, NEW p \in Ticks, ReadState(p)
    PROVE  LogInv'
<1>1. Len(chain) \in Nat
  BY DEF LogInv, Numbers, TickShape
<1>2. /\ UNCHANGED <<chain, log>>
      /\ tick' = [tick EXCEPT ![p].step = "reading", ![p].from = checkpoint']
  BY DEF ReadState
<1>3. \/ UNCHANGED <<seed, checkpoint>> /\ checkpoint \in Nat
      \/ /\ checkpoint = -1 /\ seed' = checkpoint'
         /\ checkpoint' \in {0, Len(chain)}
  BY DEF ReadState, state, LogInv, Numbers, TickShape
<1>4. Numbers'
  <2>1. checkpoint' \in Nat /\ checkpoint' <= Len(chain) + 1
    BY <1>1, <1>3 DEF LogInv, Numbers, TickShape
  <2>2. seed' \in Nat \cup {-1}
    BY <1>1, <1>3 DEF LogInv, Numbers, TickShape
  <2>3. tick[p].step = "starting"
    BY DEF ReadState
  <2>4. tick' \in [Ticks -> TickShape]
    BY <1>2, <2>1 DEF LogInv, Numbers, TickShape
  <2>5. ASSUME NEW q \in Ticks
        PROVE  /\ tick'[q].step = "reading" => tick'[q].from <= Len(chain) + 1
               /\ tick'[q].step \in {"logging", "handling"} =>
                     tick'[q].to <= Len(chain)
    <3>1. CASE q = p
      BY <1>2, <2>1, <3>1 DEF LogInv, Numbers, TickShape
    <3>2. CASE q # p
      <4>1. tick'[q] = tick[q]
        BY <1>2, <3>2 DEF LogInv, Numbers
      <4> QED BY <4>1 DEF LogInv, Numbers
    <3> QED BY <3>1, <3>2
  <2> QED BY <1>1, <1>2, <2>1, <2>2, <2>4, <2>5 DEF LogInv, Numbers
<1>5. EventBlocks' = EventBlocks /\ EventBlocks \subseteq Int
  BY <1>1, <1>2 DEF EventBlocks, Mined
<1>6. LogCovers' /\ LoggedOnce'
  BY <1>1, <1>2, <1>3, <1>5 DEF LogInv, LogCovers, LoggedOnce, Logged
<1>7. WindowLogged'
  <2>1. CASE UNCHANGED <<seed, checkpoint>>
    BY <1>2, <1>5, <2>1
       DEF LogInv, Numbers, TickShape, WindowLogged, LogCovers, Logged, FirstBlock
  <2>2. CASE checkpoint = -1 /\ seed' = checkpoint'
                             /\ checkpoint' \in {0, Len(chain)}
    BY <1>1, <1>2, <1>5, <2>2
       DEF LogInv, Numbers, TickShape, WindowLogged, LogCovers, Logged, FirstBlock
  <2> QED BY <1>3, <2>1, <2>2
<1> QED BY <1>4, <1>6, <1>7 DEF LogInv

LEMMA FetchLogsStep ==
    ASSUME LogInv, NEW p \in Ticks, FetchLogs(p)
    PROVE  LogInv'
<1> DEFINE to == WindowEnd(tick[p].from)
<1>1. Len(chain) \in Nat
  BY DEF LogInv, Numbers, TickShape
<1>2. UNCHANGED <<chain, seed, checkpoint, log>>
  BY DEF FetchLogs, state
<1>3. CASE tick[p].from > Len(chain)
  <2>1. tick' = [tick EXCEPT ![p] = IdleTick]
    BY <1>3 DEF FetchLogs
  <2> QED BY <1>2, <2>1, QuietTick DEF IdleTick, LogInv, Numbers, TickShape
<1>4. CASE ~(tick[p].from > Len(chain))
  <2>1. tick' = [tick EXCEPT ![p].step = "logging", ![p].to = to,
                   ![p].todo = EventBlocks \cap (tick[p].from..to)]
    BY <1>4 DEF FetchLogs
  <2>2. to \in Nat /\ to <= Len(chain)
    BY <1>1, <1>4, IndexerAssumption DEF WindowEnd, LogInv, Numbers, TickShape
  <2>3. tick[p].step = "reading" /\ tick[p].from \in Nat
    BY DEF FetchLogs, LogInv, Numbers, TickShape
  <2>4. EventBlocks' = EventBlocks /\ EventBlocks \subseteq Int
    BY <1>1, <1>2 DEF EventBlocks, Mined
  <2> HIDE DEF to
  <2>5. Numbers'
    BY <1>1, <1>2, <2>1, <2>2, <2>3, <2>4 DEF LogInv, Numbers, TickShape
  <2>6. LogCovers' /\ LoggedOnce'
    BY <1>2, <2>4 DEF LogInv, LogCovers, LoggedOnce, Logged
  <2>7. WindowLogged'
    BY <1>2, <2>1, <2>2, <2>3, <2>4
       DEF LogInv, Numbers, TickShape, WindowLogged, Logged, FirstBlock
  <2> QED BY <2>5, <2>6, <2>7 DEF LogInv
<1> QED BY <1>3, <1>4

LEMMA PersistLogStep ==
    ASSUME LogInv, NEW p \in Ticks, PersistLog(p)
    PROVE  LogInv'
<1>1. UNCHANGED <<chain, seed, checkpoint>> /\ EventBlocks' = EventBlocks
  BY DEF PersistLog, state, EventBlocks, Mined
<1>2. tick' = [tick EXCEPT ![p].step = "handling"] /\ tick[p].step = "logging"
  BY DEF PersistLog
<1>3. /\ log \subseteq log'
      /\ \E l \in log' : l.block = FirstBlock(tick[p].todo)
  <2>1. CASE \E l \in log : l.block = FirstBlock(tick[p].todo)
    BY <2>1 DEF PersistLog
  <2>2. CASE ~\E l \in log : l.block = FirstBlock(tick[p].todo)
    <3> DEFINE r == [block |-> FirstBlock(tick[p].todo),
                     named |-> Named(chain[FirstBlock(tick[p].todo)])]
    <3>1. log' = log \cup {r}
      BY <2>2 DEF PersistLog
    <3>2. r.block = FirstBlock(tick[p].todo)
      OBVIOUS
    <3> HIDE DEF r
    <3> QED BY <3>1, <3>2
  <2> QED BY <2>1, <2>2
<1>4. LoggedOnce'
  <2>1. CASE \E l \in log : l.block = FirstBlock(tick[p].todo)
    BY <2>1 DEF PersistLog, LogInv, LoggedOnce
  <2>2. CASE ~\E l \in log : l.block = FirstBlock(tick[p].todo)
    <3>1. PICK r : r.block = FirstBlock(tick[p].todo) /\ log' = log \cup {r}
      BY <2>2 DEF PersistLog
    <3> QED BY <2>2, <3>1 DEF LogInv, LoggedOnce
  <2> QED BY <2>1, <2>2
<1>5. \A c : Logged(c) => Logged(c)'
  BY <1>3 DEF Logged
<1>6. Numbers'
  BY <1>1, <1>2 DEF LogInv, Numbers, TickShape
<1>7. LogCovers'
  BY <1>1, <1>5 DEF LogInv, LogCovers
<1>8. WindowLogged'
  <2>1. SUFFICES ASSUME NEW q \in Ticks
                 PROVE  WindowLogged!(q)'
    BY DEF WindowLogged
  <2>2. WindowLogged!(q) /\ tick \in [Ticks -> TickShape]
    BY DEF LogInv, WindowLogged, Numbers, TickShape
  <2>3. CASE q = p
    <3>1. /\ tick'[p].step = "handling" /\ tick'[p].todo = tick[p].todo
          /\ tick'[p].to = tick[p].to
      BY <1>2, <2>2 DEF TickShape
    <3>2. Logged(FirstBlock(tick[p].todo))'
      BY <1>3, <3>1 DEF Logged, FirstBlock
    <3> QED BY <1>1, <1>2, <1>5, <2>2, <2>3, <3>1, <3>2
  <2>4. CASE q # p
    <3>1. tick'[q] = tick[q]
      BY <1>2, <2>2, <2>4 DEF TickShape
    <3>2. Logged(FirstBlock(tick[q].todo)) => Logged(FirstBlock(tick[q].todo))'
      BY <1>5, <3>1 DEF FirstBlock
    <3> QED BY <1>1, <1>5, <2>2, <3>1, <3>2
  <2> QED BY <2>3, <2>4
<1> QED BY <1>4, <1>6, <1>7, <1>8 DEF LogInv

LEMMA HandleEventStep ==
    ASSUME LogInv, NEW p \in Ticks, HandleEvent(p)
    PROVE  LogInv'
<1> DEFINE b == FirstBlock(tick[p].todo)
<1>1. UNCHANGED <<chain, seed, checkpoint, log>> /\ EventBlocks' = EventBlocks
  BY DEF HandleEvent, state, EventBlocks, Mined
<1>2. /\ tick[p].step = "handling"
      /\ tick' = [tick EXCEPT ![p].step = "logging", ![p].todo = @ \ {b}]
  BY DEF HandleEvent
<1>3. Logged(b)
  BY <1>2 DEF LogInv, WindowLogged
<1> HIDE DEF b
<1>4. Numbers'
  BY <1>1, <1>2 DEF LogInv, Numbers, TickShape
<1>5. LogCovers' /\ LoggedOnce'
  BY <1>1 DEF LogInv, LogCovers, LoggedOnce, Logged
<1>6. WindowLogged'
  BY <1>1, <1>2, <1>3 DEF LogInv, Numbers, TickShape, WindowLogged, Logged, FirstBlock
<1> QED BY <1>4, <1>5, <1>6 DEF LogInv

LEMMA AdvanceStep ==
    ASSUME LogInv, NEW p \in Ticks, Advance(p)
    PROVE  LogInv'
<1>1. UNCHANGED <<chain, seed, log>> /\ EventBlocks' = EventBlocks
  BY DEF Advance, EventBlocks, Mined
<1>2. /\ tick[p].step = "logging" /\ tick[p].todo = {}
      /\ checkpoint' = tick[p].to + 1
      /\ tick' = [tick EXCEPT ![p] = IdleTick]
  BY DEF Advance
<1>3. Len(chain) \in Nat /\ EventBlocks \subseteq Int
  BY DEF LogInv, Numbers, TickShape, EventBlocks, Mined
<1>4. Numbers'
  BY <1>1, <1>2, <1>3 DEF LogInv, Numbers, TickShape, IdleTick
<1>5. LogCovers'
  BY <1>1, <1>2, <1>3 DEF LogInv, Numbers, TickShape, WindowLogged, LogCovers, Logged
<1>6. WindowLogged' /\ LoggedOnce'
  BY <1>1, <1>2 DEF LogInv, Numbers, TickShape, WindowLogged, LoggedOnce, Logged, IdleTick,
                    FirstBlock
<1> QED BY <1>4, <1>5, <1>6 DEF LogInv

LEMMA LogStep == LogInv /\ [Next]_vars => LogInv'
<1> SUFFICES ASSUME LogInv, [Next]_vars
             PROVE  LogInv'
  OBVIOUS
<1>1. CASE UNCHANGED vars
  BY <1>1 DEF vars, state, LogInv, Numbers, TickShape, WindowLogged, LogCovers, LoggedOnce,
              Logged, EventBlocks, Mined, FirstBlock
<1>2. CASE \E e \in Event \cup {Silence} : Mine(e)
  BY <1>2, MineStep
<1>3. ASSUME NEW p \in Ticks, TickStep(p) \/ FailTick(p) \/ LockTimesOut(p)
      PROVE  LogInv'
  <2>1. CASE BeginTick(p) \/ FailTick(p)
    <3>1. UNCHANGED <<chain, seed, checkpoint, log>>
      BY <2>1 DEF BeginTick, FailTick, state
    <3>2. \/ tick' = [tick EXCEPT ![p] = IdleTick]
          \/ tick' = [tick EXCEPT ![p].step = "starting"]
      BY <2>1 DEF BeginTick, FailTick
    <3>3. tick \in [Ticks -> TickShape]
      BY DEF LogInv, Numbers
    <3>4. /\ tick' = [tick EXCEPT ![p] = tick'[p]]
          /\ tick'[p] \in TickShape /\ tick'[p].step \in {"idle", "starting"}
      <4>1. CASE tick' = [tick EXCEPT ![p] = IdleTick]
        BY <3>3, <4>1 DEF IdleTick, TickShape
      <4>2. CASE tick' = [tick EXCEPT ![p].step = "starting"]
        BY <3>3, <4>2 DEF TickShape
      <4> QED BY <3>2, <4>1, <4>2
    <3> QED BY <3>1, <3>4, QuietTick
  <2>2. CASE LockTimesOut(p)
    BY <2>2 DEF LockTimesOut, state, LogInv, Numbers, TickShape, WindowLogged, LogCovers,
                LoggedOnce, Logged, EventBlocks, Mined, FirstBlock
  <2> QED
    BY <1>3, <2>1, <2>2, ReadStateStep, FetchLogsStep, PersistLogStep,
       HandleEventStep, AdvanceStep DEF TickStep
<1> QED BY <1>1, <1>2, <1>3 DEF Next

\* The event log has every event from the seed up to the checkpoint, each
\* once, although ticks fail, replay and overlap.
THEOREM NoEventSkippedHolds == Spec => []NoEventSkipped
<1>1. LogInv => NoEventSkipped
  BY DEF LogInv, LogCovers, LoggedOnce, Logged, NoEventSkipped
<1> QED BY <1>1, LogInit, LogStep, PTL DEF Spec

-----------------------------------------------------------------------------
(* The tables of the market.  Every column shows what its events had left   *)
(* at some time that the tick under way has not passed: a replay moves a    *)
(* column back to a time it had left, but never before the events that are  *)
(* done with, and at the end of its window all of them are at that end.     *)

\* The chain: its blocks, and the order in which the contract emits events.
ChainTyped == chain \in Seq(Event \cup {Silence})

CreatedFirst ==
    \A b \in EventBlocks : chain[b].kind = "Created" =>
        \A c \in EventBlocks : chain[c].item = chain[b].item => b <= c

AfterSet ==
    \A b \in EventBlocks : chain[b].kind \in PriceKinds \ {"Set"} =>
        \E s \in EventBlocks :
            /\ s < b /\ chain[s].item = chain[b].item /\ chain[s].kind = "Set"
            /\ \A c \in EventBlocks : chain[c].item = chain[b].item /\ c < b => c <= s

LEMMA BlocksTyped ==
    ASSUME ChainTyped
    PROVE  /\ Len(chain) \in Nat /\ EventBlocks \subseteq 1..Len(chain)
           /\ \A b \in EventBlocks : b \in Nat /\ b <= Len(chain) /\ chain[b] \in Event
           /\ \A item, n : /\ Mentions(item, n) \subseteq EventBlocks
                           /\ IsFiniteSet(Mentions(item, n))
<1>1. Len(chain) \in Nat
  BY DEF ChainTyped
<1>2. EventBlocks \subseteq 1..Len(chain) /\ \A b \in EventBlocks : chain[b] \in Event
  BY DEF ChainTyped, EventBlocks, Mined
<1>3. \A item, n : Mentions(item, n) \subseteq EventBlocks
  BY DEF Mentions
<1>4. IsFiniteSet(1..Len(chain))
  BY <1>1, FS_Interval
<1>5. \A item, n : Mentions(item, n) \in SUBSET (1..Len(chain))
  BY <1>2, <1>3
<1>6. \A b \in EventBlocks : b \in Nat /\ b <= Len(chain)
  BY <1>1, <1>2
<1> QED BY <1>1, <1>2, <1>3, <1>4, <1>5, <1>6, FS_Subset

\* A block keeps its number and its event, and the new one is Permitted.
LEMMA ChainGrows ==
    ASSUME ChainTyped, NEW e \in Event \cup {Silence}, Mine(e)
    PROVE  /\ ChainTyped' /\ Len(chain') = Len(chain) + 1
           /\ \A b \in EventBlocks : b \in EventBlocks' /\ chain'[b] = chain[b]
           /\ \A b \in EventBlocks' : b \in EventBlocks \/
                 (b = Len(chain) + 1 /\ chain'[b] = e /\ e # Silence)
<1>1. /\ chain' \in Seq(Event \cup {Silence}) /\ chain' = Append(chain, e)
      /\ Len(chain') = Len(chain) + 1 /\ Len(chain) \in Nat
      /\ \A b \in 1..Len(chain) : chain'[b] = chain[b]
      /\ chain'[Len(chain) + 1] = e
  BY DEF ChainTyped, Mine
<1>2. 1..(Len(chain) + 1) = (1..Len(chain)) \cup {Len(chain) + 1}
  BY <1>1
<1> QED BY <1>1, <1>2 DEF ChainTyped, EventBlocks, Mined

LEMMA OrderKept ==
    ASSUME ChainTyped, CreatedFirst, AfterSet, NEW e \in Event \cup {Silence}, Mine(e)
    PROVE  CreatedFirst' /\ AfterSet'
<1> DEFINE top == Len(chain) + 1
           M == Mentions(e.item, Len(chain))
<1>1. /\ Len(chain) \in Nat /\ EventBlocks \subseteq 1..Len(chain)
      /\ \A b \in EventBlocks : b \in EventBlocks' /\ chain'[b] = chain[b]
      /\ \A b \in EventBlocks' : b \in EventBlocks \/
            (b = top /\ chain'[b] = e /\ e # Silence)
      /\ \A b \in EventBlocks : b \in Nat /\ b <= Len(chain) /\ b < top
  BY BlocksTyped, ChainGrows
<1>2. CASE top \notin EventBlocks'
  <2>1. EventBlocks' = EventBlocks
    BY <1>1, <1>2
  <2>2. CreatedFirst'
    BY <1>1, <2>1 DEF CreatedFirst
  <2>3. AfterSet'
    BY <1>1, <2>1 DEF AfterSet
  <2> QED BY <2>2, <2>3
<1>3. CASE top \in EventBlocks'
  <2>1. /\ top \notin EventBlocks /\ chain'[top] = e /\ e # Silence
        /\ EventBlocks' = EventBlocks \cup {top}
        /\ \A b \in EventBlocks : b < top
    <3>1. top \notin EventBlocks
      <4>1. top \in Nat /\ ~ (top <= Len(chain))
        BY <1>1
      <4> HIDE DEF top
      <4> QED BY <1>1, <4>1
    <3> HIDE DEF top
    <3> QED BY <1>1, <1>3, <3>1
  <2>2. M = {b \in EventBlocks : chain[b].item = e.item}
    <3>1. \A b \in EventBlocks : b <= Len(chain)
      BY <1>1
    <3> QED BY <3>1 DEF Mentions
  <2>3. Permitted(e)
    BY <2>1 DEF Mine
  <2>4. M # {} => Max(M) \in M /\ \A c \in M : c <= Max(M)
    <3>1. IsFiniteSet(M)
      BY BlocksTyped
    <3>2. \A b \in EventBlocks : b \in Int
      BY <1>1
    <3> HIDE DEF M
    <3>2a. M \in SUBSET Int
      BY <2>2, <3>2
    <3> QED BY <3>1, <3>2a, ExtremesExist
  <2>5. LastKind(e.item) = IF M = {} THEN "none" ELSE chain[Max(M)].kind
    BY DEF LastKind
  <2>6. \A b \in EventBlocks : chain[b].kind \in AuctionKinds \cup PriceKinds
    BY BlocksTyped DEF Event
  <2> HIDE DEF M
  <2>7. e.kind = "Created" => M = {}
    BY <2>3, <2>4, <2>5, <2>2, <2>6 DEF Permitted, AuctionKinds, PriceKinds
  <2>8. e.kind \in PriceKinds \ {"Set"} => M # {} /\ chain[Max(M)].kind = "Set"
    BY <2>3, <2>5 DEF Permitted, PriceKinds
  <2>9. CreatedFirst'
    <3> SUFFICES ASSUME NEW b \in EventBlocks', chain'[b].kind = "Created",
                        NEW c \in EventBlocks', chain'[c].item = chain'[b].item
                 PROVE  b <= c
      BY DEF CreatedFirst
    <3>1. top \in Nat /\ \A d \in EventBlocks : d \in Nat /\ d < top
      BY <1>1
    <3> HIDE DEF top
    <3>2. CASE b = top
      <4>1. c = top
        BY <1>1, <2>1, <2>2, <2>7, <3>2
      <4> QED BY <3>1, <3>2, <4>1
    <3>3. CASE b \in EventBlocks /\ c = top
      <4>1. b \in Nat /\ top \in Nat /\ b < top
        BY <3>1, <3>3
      <4> QED BY <3>3, <4>1
    <3>4. CASE b \in EventBlocks /\ c \in EventBlocks
      BY <1>1, <3>4 DEF CreatedFirst
    <3> QED BY <2>1, <3>2, <3>3, <3>4
  <2>10. AfterSet'
    <3> SUFFICES ASSUME NEW b \in EventBlocks', chain'[b].kind \in PriceKinds \ {"Set"}
                 PROVE  \E s \in EventBlocks' :
                          /\ s < b /\ chain'[s].item = chain'[b].item
                          /\ chain'[s].kind = "Set"
                          /\ \A c \in EventBlocks' :
                                chain'[c].item = chain'[b].item /\ c < b => c <= s
      BY DEF AfterSet
    <3>1. CASE b \in EventBlocks
      <4>1. PICK s \in EventBlocks :
                /\ s < b /\ chain[s].item = chain[b].item /\ chain[s].kind = "Set"
                /\ \A c \in EventBlocks : chain[c].item = chain[b].item /\ c < b => c <= s
        BY <1>1, <3>1 DEF AfterSet
      <4>2. \A c \in EventBlocks' : c < b => c \in EventBlocks
        BY <1>1, <2>1, <3>1
      <4> QED BY <1>1, <3>1, <4>1, <4>2
    <3>2. CASE b = top
      <4>1. Max(M) \in M /\ chain[Max(M)].kind = "Set" /\ \A c \in M : c <= Max(M)
        BY <2>1, <2>4, <2>8, <3>2
      <4>2. /\ Max(M) \in EventBlocks /\ chain[Max(M)].item = e.item
            /\ Max(M) \in EventBlocks' /\ Max(M) < b
        BY <1>1, <2>1, <2>2, <3>2, <4>1
      <4>3. \A c \in EventBlocks' : chain'[c].item = e.item /\ c < b => c \in M
        <5>1. ~ (top < top)
          BY <1>1
        <5> HIDE DEF top
        <5> QED BY <1>1, <2>1, <2>2, <3>2, <5>1
      <4> QED BY <1>1, <2>1, <3>2, <4>1, <4>2, <4>3
    <3> QED BY <2>1, <3>1, <3>2
  <2> QED BY <2>9, <2>10
<1> QED BY <1>2, <1>3
-----------------------------------------------------------------------------
Active(p) == tick[p].step \in {"logging", "handling"}

\* An event a tick is done with: its handler has run since its window began.
Dispatched(b) ==
    \/ b < checkpoint
    \/ \E p \in Ticks : Active(p) /\ b <= tick[p].to /\ b \notin tick[p].todo

\* The times a column may show.
Times ==
    {n \in 0..Len(chain) :
        /\ n <= WindowEnd(checkpoint)
        /\ \A p \in Ticks : Active(p) => n <= tick[p].to
        /\ \A b \in EventBlocks : Dispatched(b) => b <= n}

\* The last event of some kinds that an indexer begun at seed saw by then.
SeenOf(item, kinds, n) ==
    {b \in Mentions(item, n) : b >= seed /\ chain[b].kind \in kinds}
LastOf(item, kinds, n) ==
    IF SeenOf(item, kinds, n) = {} THEN 0 ELSE Max(SeenOf(item, kinds, n))
Recent(item, kinds, b) == \E n \in Times : b = LastOf(item, kinds, n)

AuctionStatus(kind) ==
    CASE kind = "Created" -> "open"
      [] kind = "BidPlaced" -> "bidding"
      [] kind = "Finalized" -> "finalized"
      [] kind = "AuctionCanceled" -> "canceled"
      [] kind = "AuctionInvalidated" -> "invalidated"

PriceStatus(kind) ==
    CASE kind = "Set" -> "active"
      [] kind = "Accepted" -> "accepted"
      [] kind = "Canceled" -> "canceled"
      [] kind = "Invalidated" -> "invalidated"

Decisive == AuctionKinds \ {"Updated"}

AuctionShows(a, r) ==
    /\ r.terms # 0
    /\ Recent(a, {"Created"}, r.terms)
    /\ Recent(a, {"Created", "Updated"}, r.reserve)
    /\ Recent(a, {"BidPlaced"}, r.bid)
    /\ Recent(a, {"Finalized"}, r.final)
    /\ \E s \in EventBlocks : /\ Recent(a, Decisive, s)
                              /\ r.status = AuctionStatus(chain[s].kind)

PriceShows(t, r) ==
    /\ r.offer # 0
    /\ Recent(t, {"Set"}, r.offer)
    /\ r.updated # 0
    /\ Recent(t, PriceKinds, r.updated)
    /\ \E s \in EventBlocks : /\ Recent(t, PriceKinds, s)
                              /\ r.status = PriceStatus(chain[s].kind)
    /\ \E s \in EventBlocks :
          /\ Recent(t, {"Set", "Accepted"}, s)
          /\ r.sale = IF chain[s].kind = "Accepted" THEN s ELSE 0

AuctionShown(a, r) ==
    IF r = NoRow THEN Recent(a, {"Created"}, 0) ELSE AuctionShows(a, r)
PriceShown(t, r) ==
    IF r = NoRow THEN Recent(t, {"Set"}, 0) ELSE PriceShows(t, r)

TablesShow ==
    /\ \A a \in Auctions : AuctionShown(a, auction[a])
    /\ \A t \in Tokens : PriceShown(t, price[t])

\* Without an overrun the lock keeps a second tick out, and what a tick has
\* not dispatched is the end of its window.
TickAlone ==
    \A p \in Ticks :
        /\ tick[p].step # "idle" => lock = {p}
        /\ tick[p].step = "reading" => tick[p].from = checkpoint
        /\ Active(p) =>
              /\ tick[p].from = checkpoint /\ tick[p].to <= WindowEnd(checkpoint)
              /\ tick[p].from <= tick[p].to
              /\ tick[p].todo \subseteq EventBlocks \cap (tick[p].from..tick[p].to)
              /\ \A b \in tick[p].todo, c \in EventBlocks :
                    b <= c /\ c <= tick[p].to => c \in tick[p].todo
        /\ tick[p].step = "handling" => tick[p].todo # {}

Exact ==
    /\ TickAlone /\ seed <= checkpoint
    /\ IF checkpoint = -1
       THEN /\ \A p \in Ticks : tick[p].step \in {"idle", "starting"}
            /\ \A a \in Auctions : auction[a] = NoRow
            /\ \A t \in Tokens : price[t] = NoRow
       ELSE TablesShow

AuctionRow == [status : {"open", "bidding", "finalized", "canceled", "invalidated"},
               terms : Nat, reserve : Nat, bid : Nat, final : Nat]
PriceRow == [status : {"active", "accepted", "canceled", "invalidated"},
             offer : Nat, sale : Nat, updated : Nat]

TablesTyped ==
    /\ auction \in [Auctions -> AuctionRow \cup {NoRow}]
    /\ price \in [Tokens -> PriceRow \cup {NoRow}]
    /\ spent \in [failures : Nat, overruns : Nat]

\* What a tick has to dispatch is there, lock or no lock.
TodoMined ==
    \A p \in Ticks : /\ tick[p].todo \subseteq EventBlocks
                     /\ tick[p].step = "handling" => tick[p].todo # {}

ExactInv ==
    /\ CreatedFirst /\ AfterSet /\ TablesTyped /\ TodoMined
    /\ spent.overruns = 0 => Exact
-----------------------------------------------------------------------------
LEMMA LastFacts ==
    ASSUME Numbers, NEW item, NEW kinds, NEW n
    PROVE  /\ SeenOf(item, kinds, n) \subseteq EventBlocks
           /\ SeenOf(item, kinds, n) = {} => LastOf(item, kinds, n) = 0
           /\ SeenOf(item, kinds, n) # {} =>
                 /\ LastOf(item, kinds, n) \in SeenOf(item, kinds, n)
                 /\ LastOf(item, kinds, n) # 0
                 /\ \A c \in SeenOf(item, kinds, n) : c <= LastOf(item, kinds, n)
           /\ \A b \in SeenOf(item, kinds, n) :
                 (\A c \in SeenOf(item, kinds, n) : c <= b) => LastOf(item, kinds, n) = b
<1> DEFINE S == SeenOf(item, kinds, n)
<1>1. /\ Len(chain) \in Nat /\ EventBlocks \subseteq 1..Len(chain)
      /\ Mentions(item, n) \subseteq EventBlocks /\ IsFiniteSet(Mentions(item, n))
  BY BlocksTyped DEF Numbers, ChainTyped
<1>2. S \subseteq Mentions(item, n)
  BY DEF SeenOf
<1>3. /\ LastOf(item, kinds, n) = IF S = {} THEN 0 ELSE Max(S)
  BY DEF LastOf
<1> HIDE DEF S
<1>4. IsFiniteSet(S) /\ S \subseteq EventBlocks
  BY <1>1, <1>2, FS_Subset
<1>5. \A b \in 1..Len(chain) : b \in Int /\ b # 0
  BY <1>1
<1>6. S \in SUBSET Int /\ 0 \notin S
  BY <1>1, <1>4, <1>5
<1>7. S # {} => Max(S) \in S /\ \A c \in S : c <= Max(S)
  BY <1>4, <1>6, ExtremesExist
<1>8. \A b \in S : (\A c \in S : c <= b) => Max(S) = b
  BY <1>6, MaxIs
<1> QED BY <1>3, <1>4, <1>6, <1>7, <1>8 DEF S

\* A time that is still open shows what it showed.
LEMMA RecentKept ==
    ASSUME Numbers, seed' = seed, Times \subseteq Times',
           \A b \in EventBlocks : b \in EventBlocks' /\ chain'[b] = chain[b],
           \A b \in EventBlocks' : b \in EventBlocks \/ b = Len(chain) + 1,
           NEW item, NEW kinds, NEW v, Recent(item, kinds, v)
    PROVE  Recent(item, kinds, v)'
<1>1. PICK n \in Times : v = LastOf(item, kinds, n)
  BY DEF Recent
<1>2. Len(chain) \in Nat /\ n \in Nat /\ n <= Len(chain) /\ n \in Times'
  BY <1>1 DEF Numbers, Times
<1>3. \A b \in EventBlocks' : b <= n => b \in EventBlocks
  BY <1>2
<1>4. Mentions(item, n)' = Mentions(item, n)
  BY <1>3 DEF Mentions
<1>5. Mentions(item, n) \subseteq EventBlocks
  BY DEF Mentions
<1>6. SeenOf(item, kinds, n)' = SeenOf(item, kinds, n)
  BY <1>4, <1>5 DEF SeenOf
<1>7. LastOf(item, kinds, n)' = LastOf(item, kinds, n)
  BY <1>6 DEF LastOf
<1> QED BY <1>1, <1>2, <1>7 DEF Recent

LEMMA TablesKept ==
    ASSUME \A item, kinds, v : Recent(item, kinds, v) => Recent(item, kinds, v)',
           \A b \in EventBlocks : b \in EventBlocks' /\ chain'[b] = chain[b],
           UNCHANGED tables, TablesShow
    PROVE  TablesShow'
<1>1. auction' = auction /\ price' = price
  BY DEF tables
<1>2. ASSUME NEW a \in Auctions
      PROVE  AuctionShown(a, auction[a])'
  <2>1. PICK r : r = auction[a]
    OBVIOUS
  <2>2. AuctionShown(a, r)
    BY <2>1 DEF TablesShow
  <2>3. AuctionShown(a, r)'
    BY <2>2 DEF AuctionShown, AuctionShows
  <2> QED BY <1>1, <2>1, <2>3
<1>3. ASSUME NEW t \in Tokens
      PROVE  PriceShown(t, price[t])'
  <2>1. PICK r : r = price[t]
    OBVIOUS
  <2>2. PriceShown(t, r)
    BY <2>1 DEF TablesShow
  <2>3. PriceShown(t, r)'
    BY <2>2 DEF PriceShown, PriceShows
  <2> QED BY <1>1, <2>1, <2>3
<1> QED BY <1>2, <1>3 DEF TablesShow

\* While one tick holds the lock the others are idle.
LEMMA OnlyTick ==
    ASSUME Numbers, TickAlone, NEW p \in Ticks, tick[p].step # "idle" \/ lock = {},
           tick' = [tick EXCEPT ![p] = tick'[p]]
    PROVE  /\ \A q \in Ticks : q # p => tick[q].step = "idle" /\ tick'[q] = tick[q]
           /\ \A q \in Ticks : q # p => ~ Active(q) /\ ~ Active(q)'
           /\ \A b : Dispatched(b) <=>
                 b < checkpoint \/ (Active(p) /\ b <= tick[p].to /\ b \notin tick[p].todo)
           /\ \A b : Dispatched(b)' <=>
                 b < checkpoint'
                 \/ (Active(p)' /\ b <= tick'[p].to /\ b \notin tick'[p].todo)
<1>1. ASSUME NEW q \in Ticks, q # p
      PROVE  tick[q].step = "idle" /\ tick'[q] = tick[q]
  <2>1. tick'[q] = tick[q]
    BY <1>1 DEF Numbers
  <2>2. tick[q].step # "idle" => lock = {q}
    BY DEF TickAlone
  <2>3. tick[p].step # "idle" => lock = {p}
    BY DEF TickAlone
  <2> QED BY <1>1, <2>1, <2>2, <2>3
<1>2. \A q \in Ticks : q # p => ~ Active(q) /\ ~ Active(q)'
  BY <1>1 DEF Active
<1> QED BY <1>1, <1>2 DEF Dispatched

\* The step of a tick that dispatches nothing.
LEMMA QuietTables ==
    ASSUME Numbers, TickAlone, NEW p \in Ticks, tick[p].step # "idle" \/ lock = {},
           tick' = [tick EXCEPT ![p] = tick'[p]],
           UNCHANGED <<chain, seed, checkpoint>>, UNCHANGED tables,
           Active(p)' =>
              /\ \A n \in Times : n <= tick'[p].to
              /\ \A b \in EventBlocks :
                    b <= tick'[p].to /\ b \notin tick'[p].todo => Dispatched(b),
           TablesShow
    PROVE  TablesShow'
<1>1. EventBlocks' = EventBlocks /\ WindowEnd(checkpoint)' = WindowEnd(checkpoint)
  BY DEF EventBlocks, Mined, WindowEnd
<1>2. Times \subseteq Times'
  <2> SUFFICES ASSUME NEW n \in Times
               PROVE  n \in Times'
    OBVIOUS
  <2>1. n \in 0..Len(chain') /\ n <= WindowEnd(checkpoint)'
    BY <1>1 DEF Times
  <2>2. \A q \in Ticks : Active(q)' => n <= tick'[q].to
    BY OnlyTick
  <2>3. \A b \in EventBlocks : Dispatched(b)' => b <= n
    BY OnlyTick DEF Times
  <2> QED BY <1>1, <2>1, <2>2, <2>3 DEF Times
<1>3. \A item, kinds, v : Recent(item, kinds, v) => Recent(item, kinds, v)'
  BY <1>1, <1>2, RecentKept
<1> QED BY <1>1, <1>3, TablesKept

LEMMA ExactMine ==
    ASSUME Numbers, Exact, NEW e \in Event \cup {Silence}, Mine(e)
    PROVE  Exact'
<1>1. /\ Len(chain') = Len(chain) + 1 /\ Len(chain) \in Nat
      /\ \A b \in EventBlocks : b \in EventBlocks' /\ chain'[b] = chain[b]
      /\ \A b \in EventBlocks' : b \in EventBlocks \/ b = Len(chain) + 1
  BY ChainGrows, BlocksTyped DEF Numbers, ChainTyped
<1>2. /\ UNCHANGED <<seed, checkpoint, auction, price, tick, lock>>
      /\ UNCHANGED tables
  BY DEF Mine, state, tables
<1>3. /\ checkpoint \in Int /\ checkpoint <= Len(chain) + 1
      /\ \A p \in Ticks : tick[p].to \in Nat /\ tick[p].from \in Nat
      /\ \A p \in Ticks : Active(p) => tick[p].to <= Len(chain)
  BY DEF Numbers, TickShape, Active
<1>4. /\ WindowEnd(checkpoint) \in Int /\ WindowEnd(checkpoint)' \in Int
      /\ WindowEnd(checkpoint) <= WindowEnd(checkpoint)'
  BY <1>1, <1>2, <1>3, IndexerAssumption DEF WindowEnd
<1>5. \A p : Active(p)' <=> Active(p)
  BY <1>2 DEF Active
<1>6. TickAlone'
  <2> SUFFICES ASSUME NEW p \in Ticks
               PROVE  TickAlone!(p)'
    BY DEF TickAlone
  <2>1. TickAlone!(p)
    BY DEF Exact, TickAlone
  <2>2. Active(p) => tick[p].to <= WindowEnd(checkpoint)'
    BY <1>3, <1>4, <2>1
  <2>3. ASSUME Active(p), NEW b \in tick[p].todo, NEW c \in EventBlocks',
               b <= c, c <= tick[p].to
        PROVE  c \in tick[p].todo
    <3>1. c # Len(chain) + 1
      BY <1>1, <1>3, <2>3
    <3> QED BY <1>1, <2>1, <2>3, <3>1
  <2> QED BY <1>1, <1>2, <1>5, <2>1, <2>2, <2>3
<1>7. CASE checkpoint = -1
  BY <1>2, <1>6, <1>7 DEF Exact
<1>8. CASE checkpoint # -1
  <2>1. ASSUME NEW n \in Times
        PROVE  n \in Times'
    <3>1. n \in 0..Len(chain') /\ n <= WindowEnd(checkpoint)'
      BY <1>1, <1>4 DEF Times
    <3>2. \A p \in Ticks : Active(p)' => n <= tick'[p].to
      BY <1>2, <1>5 DEF Times
    <3>3. ASSUME NEW b \in EventBlocks', Dispatched(b)'
          PROVE  b \in EventBlocks /\ Dispatched(b)
      <4>1. Dispatched(b)
        BY <1>2, <1>5, <3>3 DEF Dispatched
      <4>2. b # Len(chain) + 1
        BY <1>1, <1>3, <4>1 DEF Dispatched
      <4> QED BY <1>1, <4>1, <4>2
    <3> QED BY <3>1, <3>2, <3>3 DEF Times
  <2>2. \A item, kinds, v : Recent(item, kinds, v) => Recent(item, kinds, v)'
    BY <1>1, <1>2, <2>1, RecentKept
  <2>3. TablesShow'
    BY <1>1, <1>2, <1>8, <2>2, TablesKept DEF Exact
  <2> QED BY <1>2, <1>6, <1>8, <2>3 DEF Exact
<1> QED BY <1>7, <1>8

LEMMA ExactBegin ==
    ASSUME Numbers, Exact, NEW p \in Ticks, BeginTick(p)
    PROVE  Exact'
<1>1. /\ UNCHANGED <<chain, seed, checkpoint>> /\ UNCHANGED tables
      /\ UNCHANGED <<auction, price>> /\ EventBlocks' = EventBlocks
  BY DEF BeginTick, state, tables, EventBlocks, Mined
<1>2. lock = {} /\ lock' = {p} /\ tick' = [tick EXCEPT ![p].step = "starting"]
  BY DEF BeginTick
<1>3. tick'[p].step = "starting" /\ ~ Active(p)' /\ tick' = [tick EXCEPT ![p] = tick'[p]]
  BY <1>2 DEF Numbers, TickShape, Active
<1>4. \A q \in Ticks : q # p => tick[q].step = "idle" /\ tick'[q] = tick[q]
  BY <1>2, <1>3, OnlyTick DEF Exact
<1>5. TickAlone'
  BY <1>2, <1>3, <1>4 DEF TickAlone, Active
<1>6. TablesShow => TablesShow'
  BY <1>1, <1>2, <1>3, QuietTables DEF Exact
<1> QED BY <1>1, <1>3, <1>4, <1>5, <1>6 DEF Exact

LEMMA ExactPersist ==
    ASSUME Numbers, Exact, NEW p \in Ticks, PersistLog(p)
    PROVE  Exact'
<1>1. /\ UNCHANGED <<chain, seed, checkpoint, lock>> /\ UNCHANGED tables
      /\ UNCHANGED <<auction, price>> /\ EventBlocks' = EventBlocks
      /\ WindowEnd(checkpoint)' = WindowEnd(checkpoint)
  BY DEF PersistLog, state, tables, EventBlocks, Mined, WindowEnd
<1>2. /\ tick[p].step = "logging" /\ tick[p].todo # {} /\ Active(p)
      /\ tick' = [tick EXCEPT ![p].step = "handling"]
  BY DEF PersistLog, Active
<1>3. /\ tick'[p].step = "handling" /\ tick'[p].todo = tick[p].todo
      /\ tick'[p].to = tick[p].to /\ tick'[p].from = tick[p].from /\ Active(p)'
      /\ tick' = [tick EXCEPT ![p] = tick'[p]]
  BY <1>2 DEF Numbers, TickShape, Active
<1>4. \A q \in Ticks : q # p => tick[q].step = "idle" /\ tick'[q] = tick[q]
  BY <1>2, <1>3, OnlyTick DEF Exact
<1>5. TickAlone'
  <2> SUFFICES ASSUME NEW q \in Ticks
               PROVE  TickAlone!(q)'
    BY DEF TickAlone
  <2>1. TickAlone!(q) /\ TickAlone!(p)
    BY DEF Exact, TickAlone
  <2>2. CASE q = p
    BY <1>1, <1>2, <1>3, <2>1, <2>2
  <2>3. CASE q # p
    BY <1>4, <2>3 DEF Active
  <2> QED BY <2>2, <2>3
<1>6. TablesShow => TablesShow'
  <2>1. \A n \in Times : n <= tick'[p].to
    BY <1>2, <1>3 DEF Times
  <2>2. \A b \in EventBlocks :
            b <= tick'[p].to /\ b \notin tick'[p].todo => Dispatched(b)
    BY <1>2, <1>3 DEF Dispatched
  <2> QED BY <1>1, <1>2, <1>3, <2>1, <2>2, QuietTables DEF Exact
<1> QED BY <1>1, <1>2, <1>5, <1>6 DEF Exact

\* The indexer begins with nothing seen.
LEMMA ExactReadState ==
    ASSUME Numbers, Numbers', Exact, NEW p \in Ticks, ReadState(p)
    PROVE  Exact'
<1>1. /\ UNCHANGED <<chain, lock>> /\ UNCHANGED tables
      /\ UNCHANGED <<auction, price>> /\ EventBlocks' = EventBlocks
  BY DEF ReadState, tables, EventBlocks, Mined
<1>2. /\ tick[p].step = "starting"
      /\ tick' = [tick EXCEPT ![p].step = "reading", ![p].from = checkpoint']
  BY DEF ReadState
<1>3. /\ tick'[p].step = "reading" /\ tick'[p].from = checkpoint' /\ ~ Active(p)'
      /\ tick' = [tick EXCEPT ![p] = tick'[p]]
  BY <1>2 DEF Numbers, TickShape, Active
<1>4. \A q \in Ticks : q # p => tick[q].step = "idle" /\ tick'[q] = tick[q]
  BY <1>2, <1>3, OnlyTick DEF Exact
<1>5. TickAlone'
  BY <1>1, <1>2, <1>3, <1>4 DEF Exact, TickAlone, Active
<1>6. CASE checkpoint # -1
  <2>1. UNCHANGED <<seed, checkpoint>>
    BY <1>6 DEF ReadState, state
  <2>2. TablesShow'
    BY <1>1, <1>2, <1>3, <1>6, <2>1, QuietTables DEF Exact
  <2> QED BY <1>5, <1>6, <2>1, <2>2 DEF Exact
<1>7. CASE checkpoint = -1
  <2>1. checkpoint' \in {0, Len(chain)} /\ seed' = checkpoint' /\ Len(chain) \in Nat
    BY <1>7 DEF ReadState, Numbers
  <2>2. PICK n \in Nat : n <= Len(chain) /\ n <= checkpoint'
                          /\ \A b \in Nat \ {0} : b < checkpoint' <=> b <= n
    <3>1. \A k \in Nat : \E n \in Nat : /\ n <= k
                                     /\ \A b \in Nat \ {0} : b < k <=> b <= n
      <4> TAKE k \in Nat
      <4>1. CASE k = 0
        BY <4>1
      <4>2. CASE k # 0
        <5>1. /\ k - 1 \in Nat /\ k - 1 <= k
              /\ \A b \in Nat \ {0} : b < k <=> b <= k - 1
          BY <4>2
        <5> QED BY <5>1
      <4> QED BY <4>1, <4>2
    <3>2. PICK k \in Nat : k = checkpoint' /\ k <= Len(chain)
      BY <2>1
    <3>3. PICK n \in Nat : n <= k /\ \A b \in Nat \ {0} : b < k <=> b <= n
      BY <3>1
    <3>4. n <= Len(chain)
      BY <2>1, <3>2, <3>3
    <3> QED BY <3>2, <3>3, <3>4
  <2>3. EventBlocks \subseteq Nat \ {0}
    BY <2>1, BlocksTyped DEF Numbers, ChainTyped
  <2>4. \A q \in Ticks : ~ Active(q)'
    BY <1>3, <1>4 DEF Active
  <2>5. n \in Times'
    <3>1. n <= WindowEnd(checkpoint)'
      <4>1. /\ checkpoint' \in Nat /\ Len(chain') \in Nat
            /\ n <= checkpoint' /\ n <= Len(chain')
        BY <1>1, <2>1, <2>2
      <4>2. PICK k \in Nat : k = checkpoint'
        BY <4>1
      <4>3. n <= k + BlockWindow - 1
        <5>1. n \in Nat /\ n <= k
          BY <4>1, <4>2
        <5>2. BlockWindow \in Nat /\ BlockWindow >= 1
          BY IndexerAssumption DEF IndexerAssumption
        <5> QED BY <5>1, <5>2
      <4> QED BY <4>1, <4>2, <4>3 DEF WindowEnd
    <3>2. n \in 0..Len(chain')
      BY <1>1, <2>1, <2>2
    <3>3. \A b \in EventBlocks : Dispatched(b)' => b <= n
      BY <2>2, <2>3, <2>4 DEF Dispatched
    <3> QED BY <1>1, <2>4, <3>1, <3>2, <3>3 DEF Times
  <2>6. \A item, kinds : Recent(item, kinds, 0)'
    <3> TAKE item, kinds
    <3>1. \A b \in EventBlocks : b <= n => ~ (b >= checkpoint')
      <4> SUFFICES ASSUME NEW b \in EventBlocks, b <= n
                   PROVE  ~ (b >= checkpoint')
        OBVIOUS
      <4>1. b \in Nat /\ checkpoint' \in Nat /\ b < checkpoint'
        BY <2>1, <2>2, <2>3
      <4> QED BY <4>1
    <3>2. SeenOf(item, kinds, n)' = {}
      BY <1>1, <2>1, <3>1 DEF SeenOf, Mentions
    <3>3. LastOf(item, kinds, n)' = 0
      BY <3>2 DEF LastOf
    <3> QED BY <2>5, <3>3 DEF Recent
  <2>7. TablesShow'
    BY <1>1, <1>7, <2>6 DEF Exact, TablesShow, AuctionShown, PriceShown
  <2>8. checkpoint' # -1 /\ seed' <= checkpoint'
    BY <2>1
  <2> QED BY <1>5, <2>7, <2>8 DEF Exact
<1> QED BY <1>6, <1>7

LEMMA ExactFetch ==
    ASSUME Numbers, Exact, NEW p \in Ticks, FetchLogs(p)
    PROVE  Exact'
<1>1. /\ UNCHANGED <<chain, seed, checkpoint>> /\ UNCHANGED tables
      /\ UNCHANGED <<auction, price>> /\ EventBlocks' = EventBlocks
      /\ WindowEnd(checkpoint)' = WindowEnd(checkpoint)
  BY DEF FetchLogs, state, tables, EventBlocks, Mined, WindowEnd
<1>2. /\ tick[p].step = "reading" /\ tick[p].from = checkpoint /\ lock = {p}
      /\ checkpoint # -1 /\ checkpoint \in Nat /\ Len(chain) \in Nat
  BY DEF FetchLogs, Exact, TickAlone, Numbers
<1>3. CASE checkpoint > Len(chain)
  <2>1. tick' = [tick EXCEPT ![p] = IdleTick]
    BY <1>2, <1>3 DEF FetchLogs
  <2>2. tick'[p].step = "idle" /\ ~ Active(p)' /\ tick' = [tick EXCEPT ![p] = tick'[p]]
    BY <2>1 DEF Numbers, IdleTick, Active
  <2>3. \A q \in Ticks : q # p => tick[q].step = "idle" /\ tick'[q] = tick[q]
    BY <1>2, <2>2, OnlyTick DEF Exact
  <2>4. TickAlone'
    BY <2>2, <2>3 DEF TickAlone, Active
  <2>5. TablesShow'
    BY <1>1, <1>2, <2>2, QuietTables DEF Exact
  <2> QED BY <1>1, <1>2, <2>4, <2>5 DEF Exact
<1>4. CASE ~ (checkpoint > Len(chain))
  <2> DEFINE to == WindowEnd(checkpoint)
             todo == EventBlocks \cap (checkpoint..to)
  <2>1. tick' = [tick EXCEPT ![p].step = "logging", ![p].to = to, ![p].todo = todo]
        /\ lock' = lock
    BY <1>2, <1>4 DEF FetchLogs
  <2>2. to \in Nat /\ checkpoint <= to
    BY <1>2, <1>4, IndexerAssumption DEF WindowEnd
  <2>3. \A b \in EventBlocks : b \in Nat
    BY BlocksTyped DEF Numbers, ChainTyped
  <2>4. /\ todo \subseteq EventBlocks \cap (checkpoint..to)
        /\ \A b \in EventBlocks : b <= to /\ b \notin todo => b < checkpoint
        /\ \A b \in todo, c \in EventBlocks : b <= c /\ c <= to => c \in todo
    BY <1>2, <2>2, <2>3
  <2>5. \A n \in Times : n <= to
    BY DEF Times
  <2> HIDE DEF to, todo
  <2>6. /\ tick'[p].step = "logging" /\ tick'[p].to = to /\ tick'[p].todo = todo
        /\ tick'[p].from = checkpoint /\ Active(p)'
        /\ tick' = [tick EXCEPT ![p] = tick'[p]]
    BY <1>2, <2>1 DEF Numbers, TickShape, Active
  <2>7. \A q \in Ticks : q # p => tick[q].step = "idle" /\ tick'[q] = tick[q]
    BY <1>2, <2>6, OnlyTick DEF Exact
  <2>8. TickAlone'
    <3> SUFFICES ASSUME NEW q \in Ticks
                 PROVE  TickAlone!(q)'
      BY DEF TickAlone
    <3>1. CASE q = p
      <4>1. to <= WindowEnd(checkpoint)
        BY <2>2 DEF to
      <4> QED BY <1>1, <1>2, <2>1, <2>2, <2>4, <2>6, <3>1, <4>1
    <3>2. CASE q # p
      BY <2>7, <3>2 DEF Active
    <3> QED BY <3>1, <3>2
  <2>9. TablesShow'
    <3>1. \A b \in EventBlocks :
              b <= tick'[p].to /\ b \notin tick'[p].todo => Dispatched(b)
      BY <2>4, <2>6 DEF Dispatched
    <3> QED BY <1>1, <1>2, <2>5, <2>6, <3>1, QuietTables DEF Exact
  <2> QED BY <1>1, <1>2, <2>8, <2>9 DEF Exact
<1> QED BY <1>3, <1>4

LEMMA ExactFail ==
    ASSUME Numbers, Exact, NEW p \in Ticks, FailTick(p)
    PROVE  Exact'
<1>1. /\ UNCHANGED <<chain, seed, checkpoint>> /\ UNCHANGED tables
      /\ UNCHANGED <<auction, price>> /\ tick[p].step # "idle"
      /\ tick' = [tick EXCEPT ![p] = IdleTick]
  BY DEF FailTick, state, tables
<1>2. tick'[p].step = "idle" /\ ~ Active(p)' /\ tick' = [tick EXCEPT ![p] = tick'[p]]
  BY <1>1 DEF Numbers, IdleTick, Active
<1>3. \A q \in Ticks : q # p => tick[q].step = "idle" /\ tick'[q] = tick[q]
  BY <1>1, <1>2, OnlyTick DEF Exact
<1>4. TickAlone'
  BY <1>2, <1>3 DEF TickAlone, Active
<1>5. TablesShow => TablesShow'
  BY <1>1, <1>2, QuietTables DEF Exact
<1> QED BY <1>1, <1>2, <1>3, <1>4, <1>5 DEF Exact

\* At the end of a window every event of it has been dispatched.
LEMMA WindowDone ==
    ASSUME Numbers, Exact, NEW p \in Ticks, Advance(p)
    PROVE  /\ tick[p].to \in Nat /\ tick[p].to <= Len(chain) /\ checkpoint <= tick[p].to
           /\ checkpoint \in Nat /\ Len(chain) \in Nat
           /\ \A b \in EventBlocks : b \in Nat
           /\ \A b \in EventBlocks : b <= tick[p].to => Dispatched(b)
           /\ \A n \in Times : n <= tick[p].to
<1>1. tick[p].step = "logging" /\ tick[p].todo = {} /\ Active(p)
  BY DEF Advance, Active
<1> QED
  BY <1>1, BlocksTyped
     DEF Exact, TickAlone, Numbers, ChainTyped, TickShape, Times, Dispatched

LEMMA ExactAdvance ==
    ASSUME Numbers, Exact, NEW p \in Ticks, Advance(p)
    PROVE  Exact'
<1>1. /\ UNCHANGED <<chain, seed>> /\ UNCHANGED tables
      /\ UNCHANGED <<auction, price>> /\ EventBlocks' = EventBlocks
      /\ tick[p].step = "logging" /\ checkpoint' = tick[p].to + 1
      /\ tick' = [tick EXCEPT ![p] = IdleTick]
  BY DEF Advance, tables, EventBlocks, Mined
<1>2. tick'[p].step = "idle" /\ ~ Active(p)' /\ tick' = [tick EXCEPT ![p] = tick'[p]]
  BY <1>1 DEF Numbers, IdleTick, Active
<1>3. \A q \in Ticks : q # p => tick[q].step = "idle" /\ tick'[q] = tick[q]
  BY <1>1, <1>2, OnlyTick DEF Exact
<1>4. TickAlone'
  BY <1>2, <1>3 DEF TickAlone, Active
<1>5. /\ seed \in Int /\ seed' <= checkpoint' /\ checkpoint' # -1
      /\ checkpoint # -1
  BY <1>1, WindowDone DEF Exact, Numbers
<1>6. ASSUME NEW n \in Times
      PROVE  n \in Times'
  <2>1. n \in Nat /\ n <= Len(chain) /\ n <= tick[p].to /\ tick[p].to \in Nat
    BY <1>6, WindowDone DEF Times
  <2>2. n <= WindowEnd(checkpoint)'
    <3>1. PICK k \in Nat : k = checkpoint' /\ n <= k
      BY <1>1, <2>1
    <3>2. BlockWindow \in Nat /\ BlockWindow >= 1
      BY IndexerAssumption DEF IndexerAssumption
    <3>3. n <= k + BlockWindow - 1
      <4>1. n \in Nat /\ n <= k
        BY <2>1, <3>1
      <4> QED BY <3>2, <4>1
    <3>4. Len(chain') = Len(chain)
      BY <1>1
    <3> QED BY <2>1, <3>1, <3>3, <3>4 DEF WindowEnd
  <2>3. n \in 0..Len(chain')
    BY <1>1, <1>6 DEF Times
  <2>4. \A q \in Ticks : ~ Active(q)'
    BY <1>2, <1>3 DEF Active
  <2>5. ASSUME NEW b \in EventBlocks, Dispatched(b)'
        PROVE  b <= n
    <3>1. b < checkpoint'
      BY <2>4, <2>5 DEF Dispatched
    <3>2. b \in Nat /\ b <= tick[p].to
      BY <1>1, <2>1, <3>1, WindowDone
    <3> QED BY <3>2, <1>6, WindowDone DEF Times
  <2> QED BY <1>1, <2>2, <2>3, <2>4, <2>5 DEF Times
<1>7. \A item, kinds, v : Recent(item, kinds, v) => Recent(item, kinds, v)'
  BY <1>1, <1>6, RecentKept
<1>8. TablesShow'
  BY <1>1, <1>5, <1>7, TablesKept DEF Exact
<1> QED BY <1>4, <1>5, <1>8 DEF Exact

LEMMA ShowsTheEnd ==
    ASSUME Numbers, Exact, NEW p \in Ticks, Advance(p),
           NEW item, NEW kinds, NEW v, Recent(item, kinds, v)
    PROVE  v = LastOf(item, kinds, tick[p].to)
<1>1. PICK n \in Times : v = LastOf(item, kinds, n)
  BY DEF Recent
<1>2. n \in Nat /\ n <= tick[p].to /\ tick[p].to \in Nat
  BY <1>1, WindowDone DEF Times
<1>3. ASSUME NEW b \in EventBlocks
      PROVE  b <= n <=> b <= tick[p].to
  <2>1. b \in Nat
    BY <1>3, WindowDone
  <2>2. b <= tick[p].to => b <= n
    BY <1>3, WindowDone DEF Times
  <2> QED BY <1>2, <2>1, <2>2
<1>4. Mentions(item, n) = Mentions(item, tick[p].to)
  BY <1>3 DEF Mentions
<1> QED BY <1>1, <1>4 DEF LastOf, SeenOf

\* The columns of an auction and of a price, each of them the last event of
\* the kinds that write it.
LEMMA AuctionAtIs ==
    ASSUME Numbers, NEW a \in Auctions, NEW n, SeenOf(a, {"Created"}, n) # {}
    PROVE  AuctionAt(a, n) =
             [status |-> AuctionStatus(chain[LastOf(a, Decisive, n)].kind),
              terms |-> LastOf(a, {"Created"}, n),
              reserve |-> LastOf(a, {"Created", "Updated"}, n),
              bid |-> LastOf(a, {"BidPlaced"}, n),
              final |-> LastOf(a, {"Finalized"}, n)]
<1> DEFINE seen == {b \in Mentions(a, n) : b >= seed}
           Among(kinds) == {b \in seen : chain[b].kind \in kinds}
<1>1. \A kinds : Among(kinds) = SeenOf(a, kinds, n)
  BY DEF SeenOf
<1>2. SeenOf(a, Decisive, n) # {}
  BY DEF SeenOf, Decisive, AuctionKinds
<1>3. Max(Among(AuctionKinds \ {"Updated"})) = LastOf(a, Decisive, n)
  BY <1>1, <1>2 DEF LastOf, Decisive
<1>4. \A kinds : (IF Among(kinds) = {} THEN 0 ELSE Max(Among(kinds))) = LastOf(a, kinds, n)
  BY <1>1 DEF LastOf
<1>5. Among({"Created"}) # {}
  BY <1>1
<1> DEFINE LatestOf(kinds) == IF Among(kinds) = {} THEN 0 ELSE Max(Among(kinds))
           decisive == chain[Max(Among(AuctionKinds \ {"Updated"}))].kind
<1>6. AuctionAt(a, n) =
        IF Among({"Created"}) = {} THEN NoRow
        ELSE [status |-> AuctionStatus(decisive),
              terms |-> LatestOf({"Created"}),
              reserve |-> LatestOf({"Created", "Updated"}),
              bid |-> LatestOf({"BidPlaced"}),
              final |-> LatestOf({"Finalized"})]
  BY DEF AuctionAt, AuctionStatus
<1>7. decisive = chain[LastOf(a, Decisive, n)].kind
  BY <1>3
<1>8. \A kinds : LatestOf(kinds) = LastOf(a, kinds, n)
  BY <1>4
<1> HIDE DEF Among, seen, LatestOf, decisive
<1> QED BY <1>5, <1>6, <1>7, <1>8

LEMMA PriceAtIs ==
    ASSUME Numbers, AfterSet, NEW t \in Tokens, NEW n \in Nat, SeenOf(t, {"Set"}, n) # {}
    PROVE  PriceAt(t, n) =
             [status |-> PriceStatus(chain[LastOf(t, PriceKinds, n)].kind),
              offer |-> LastOf(t, {"Set"}, n),
              sale |-> IF chain[LastOf(t, {"Set", "Accepted"}, n)].kind = "Accepted"
                       THEN LastOf(t, {"Set", "Accepted"}, n) ELSE 0,
              updated |-> LastOf(t, PriceKinds, n)]
<1> DEFINE seen == {b \in Mentions(t, n) : b >= seed}
           offers == {b \in seen : chain[b].kind = "Set"}
           final == LastOf(t, PriceKinds, n)
           settled == LastOf(t, {"Set", "Accepted"}, n)
<1>1. \A b \in Mentions(t, n) : /\ b \in EventBlocks /\ b \in Nat /\ b <= n
                               /\ chain[b].item = t /\ chain[b].kind \in PriceKinds
  <2> SUFFICES ASSUME NEW b \in Mentions(t, n)
               PROVE  chain[b].kind \in PriceKinds
    BY BlocksTyped DEF Mentions, Numbers, ChainTyped
  <2>1. chain[b] \in Event /\ chain[b].item = t
    BY BlocksTyped DEF Mentions, Numbers, ChainTyped
  <2> QED BY <2>1, IndexerAssumption DEF Event, IndexerAssumption
<1>2. seen = SeenOf(t, PriceKinds, n) /\ offers = SeenOf(t, {"Set"}, n)
  BY <1>1 DEF SeenOf
<1>3. offers # {} /\ Max(offers) = LastOf(t, {"Set"}, n)
  BY <1>2 DEF LastOf
<1>4. SeenOf(t, PriceKinds, n) # {} /\ SeenOf(t, {"Set", "Accepted"}, n) # {}
  BY DEF SeenOf, PriceKinds
<1>5. Max(seen) = final
  BY <1>2, <1>4 DEF LastOf
<1>6. /\ final \in SeenOf(t, PriceKinds, n)
      /\ \A c \in SeenOf(t, PriceKinds, n) : c <= final
  BY <1>4, LastFacts
<1>7. /\ settled \in SeenOf(t, {"Set", "Accepted"}, n)
      /\ \A b \in SeenOf(t, {"Set", "Accepted"}, n) :
            (\A c \in SeenOf(t, {"Set", "Accepted"}, n) : c <= b) => settled = b
  BY <1>4, LastFacts
<1>8. chain[final].kind = "Accepted" => settled = final
  BY <1>2, <1>6, <1>7 DEF SeenOf, PriceKinds
<1>9. chain[final].kind # "Accepted" => chain[settled].kind # "Accepted"
  <2> SUFFICES ASSUME chain[final].kind # "Accepted", chain[settled].kind = "Accepted"
               PROVE  FALSE
    OBVIOUS
  <2>1. /\ final \in Mentions(t, n) /\ final >= seed
        /\ settled \in Mentions(t, n) /\ settled >= seed
        /\ settled \in SeenOf(t, PriceKinds, n)
    BY <1>6, <1>7 DEF SeenOf, PriceKinds
  <2>2. settled # final /\ settled <= final
    BY <1>6, <2>1
  <2> HIDE DEF final, settled
  <2>3. /\ final \in Nat /\ settled \in Nat /\ final \in EventBlocks /\ settled \in EventBlocks
        /\ final <= n /\ chain[final].item = t /\ chain[settled].item = t /\ seed \in Int
        /\ chain[final].kind \in PriceKinds
    BY <1>1, <2>1 DEF Numbers
  <2>4. settled < final
    BY <2>2, <2>3
  <2>5. CASE chain[final].kind = "Set"
    <3>1. final \in SeenOf(t, {"Set", "Accepted"}, n)
      BY <2>1, <2>5 DEF SeenOf
    <3>2. \A c \in SeenOf(t, {"Set", "Accepted"}, n) : c <= final
      BY <1>6 DEF SeenOf, PriceKinds
    <3> QED BY <1>7, <2>2, <3>1, <3>2
  <2>6. CASE chain[final].kind # "Set"
    <3>1. PICK s \in EventBlocks :
              /\ s < final /\ chain[s].item = t /\ chain[s].kind = "Set"
              /\ \A c \in EventBlocks : chain[c].item = t /\ c < final => c <= s
      BY <2>3, <2>6 DEF AfterSet
    <3>2. settled <= s
      BY <2>3, <2>4, <3>1
    <3>3. s \in Nat
      BY BlocksTyped DEF Numbers, ChainTyped
    <3>4. s >= seed
      BY <2>1, <2>3, <3>2, <3>3
    <3>5. s <= n
      BY <2>3, <3>1, <3>3
    <3>6. s \in SeenOf(t, {"Set", "Accepted"}, n)
      BY <3>1, <3>4, <3>5 DEF SeenOf, Mentions
    <3>7. \A c \in SeenOf(t, {"Set", "Accepted"}, n) : c <= s
      <4> SUFFICES ASSUME NEW c \in SeenOf(t, {"Set", "Accepted"}, n)
                   PROVE  c <= s
        OBVIOUS
      <4>1. c \in SeenOf(t, PriceKinds, n) /\ c \in Mentions(t, n)
            /\ chain[c].kind \in {"Set", "Accepted"}
        BY DEF SeenOf, PriceKinds
      <4>2. c <= final
        BY <1>6, <4>1
      <4>3. c # final /\ c \in Nat /\ c \in EventBlocks /\ chain[c].item = t
        BY <1>1, <2>6, <4>1
      <4>4. c < final
        BY <2>3, <4>2, <4>3
      <4> QED BY <3>1, <4>3, <4>4
    <3>8. settled = s
      BY <1>7, <3>6, <3>7
    <3> QED BY <3>1, <3>8
  <2> QED BY <2>5, <2>6
<1>10. PriceAt(t, n) =
         [status |-> PriceStatus(chain[Max(seen)].kind),
          offer |-> Max(offers),
          sale |-> IF chain[Max(seen)].kind = "Accepted" THEN Max(seen) ELSE 0,
          updated |-> Max(seen)]
  BY <1>3 DEF PriceAt, PriceStatus
<1>11. (IF chain[Max(seen)].kind = "Accepted" THEN Max(seen) ELSE 0)
         = (IF chain[settled].kind = "Accepted" THEN settled ELSE 0)
  BY <1>5, <1>8, <1>9
<1> HIDE DEF seen, offers, final, settled
<1>12. PriceAt(t, n) =
         [status |-> PriceStatus(chain[final].kind),
          offer |-> LastOf(t, {"Set"}, n),
          sale |-> IF chain[settled].kind = "Accepted" THEN settled ELSE 0,
          updated |-> final]
  BY <1>3, <1>5, <1>10, <1>11
<1> QED BY <1>12 DEF final, settled

\* What Advance leaves behind.
LEMMA AdvanceIsExact ==
    ASSUME Numbers, AfterSet, TablesTyped, Exact, NEW p \in Ticks, Advance(p)
    PROVE  /\ \A a \in Auctions : auction'[a] = AuctionAt(a, checkpoint' - 1)
           /\ \A t \in Tokens : price'[t] = PriceAt(t, checkpoint' - 1)
<1> DEFINE to == tick[p].to
<1>1. to \in Nat /\ checkpoint' = to + 1 /\ auction' = auction /\ price' = price
  BY WindowDone DEF Advance, tables
<1> HIDE DEF to
<1>2. checkpoint' - 1 = to
  BY <1>1
<1>3. TablesShow
  BY WindowDone DEF Exact
<1>4. \A item, kinds, v : Recent(item, kinds, v) => v = LastOf(item, kinds, to)
  BY ShowsTheEnd DEF to
<1>5. ASSUME NEW a \in Auctions
      PROVE  auction[a] = AuctionAt(a, to)
  <2>1. AuctionShown(a, auction[a])
    BY <1>3 DEF TablesShow
  <2>2. CASE auction[a] = NoRow
    <3>1. 0 = LastOf(a, {"Created"}, to)
      BY <1>4, <2>1, <2>2 DEF AuctionShown
    <3>2. SeenOf(a, {"Created"}, to) = {}
      BY <3>1, LastFacts
    <3> QED BY <2>2, <3>2 DEF AuctionAt, SeenOf
  <2>3. CASE auction[a] # NoRow
    <3>1. AuctionShows(a, auction[a]) /\ auction[a] \in AuctionRow
      BY <2>1, <2>3 DEF AuctionShown, TablesTyped
    <3>2. auction[a].terms = LastOf(a, {"Created"}, to) /\ auction[a].terms # 0
      BY <1>4, <3>1 DEF AuctionShows
    <3>3. SeenOf(a, {"Created"}, to) # {}
      BY <3>2, LastFacts
    <3>4. /\ auction[a].reserve = LastOf(a, {"Created", "Updated"}, to)
          /\ auction[a].bid = LastOf(a, {"BidPlaced"}, to)
          /\ auction[a].final = LastOf(a, {"Finalized"}, to)
      BY <1>4, <3>1 DEF AuctionShows
    <3>5. auction[a].status = AuctionStatus(chain[LastOf(a, Decisive, to)].kind)
      BY <1>4, <3>1 DEF AuctionShows
    <3>6. auction[a] = [status |-> auction[a].status, terms |-> auction[a].terms,
                        reserve |-> auction[a].reserve, bid |-> auction[a].bid,
                        final |-> auction[a].final]
      BY <3>1 DEF AuctionRow
    <3> QED BY <3>2, <3>3, <3>4, <3>5, <3>6, AuctionAtIs
  <2> QED BY <2>2, <2>3
<1>6. ASSUME NEW t \in Tokens
      PROVE  price[t] = PriceAt(t, to)
  <2>1. PriceShown(t, price[t])
    BY <1>3 DEF TablesShow
  <2>2. CASE price[t] = NoRow
    <3>1. 0 = LastOf(t, {"Set"}, to)
      BY <1>4, <2>1, <2>2 DEF PriceShown
    <3>2. SeenOf(t, {"Set"}, to) = {}
      BY <3>1, LastFacts
    <3>3. {b \in {b \in Mentions(t, to) : b >= seed} : chain[b].kind = "Set"} = {}
      BY <3>2 DEF SeenOf
    <3> QED BY <2>2, <3>3 DEF PriceAt
  <2>3. CASE price[t] # NoRow
    <3>1. PriceShows(t, price[t]) /\ price[t] \in PriceRow
      BY <2>1, <2>3 DEF PriceShown, TablesTyped
    <3>2. price[t].offer = LastOf(t, {"Set"}, to) /\ price[t].offer # 0
      BY <1>4, <3>1 DEF PriceShows
    <3>3. SeenOf(t, {"Set"}, to) # {}
      BY <3>2, LastFacts
    <3>4. price[t].updated = LastOf(t, PriceKinds, to)
      BY <1>4, <3>1 DEF PriceShows
    <3>5. price[t].status = PriceStatus(chain[LastOf(t, PriceKinds, to)].kind)
      BY <1>4, <3>1 DEF PriceShows
    <3>6. price[t].sale = IF chain[LastOf(t, {"Set", "Accepted"}, to)].kind = "Accepted"
                          THEN LastOf(t, {"Set", "Accepted"}, to) ELSE 0
      BY <1>4, <3>1 DEF PriceShows
    <3>7. price[t] = [status |-> price[t].status, offer |-> price[t].offer,
                      sale |-> price[t].sale, updated |-> price[t].updated]
      BY <3>1 DEF PriceRow
    <3> QED BY <1>1, <3>2, <3>3, <3>4, <3>5, <3>6, <3>7, PriceAtIs
  <2> QED BY <2>2, <2>3
<1> QED BY <1>1, <1>2, <1>5, <1>6

\* The handler of an event: columns it writes show it, the others what they
\* showed, if need be at the later time of the event.
LEMMA HandlerShows ==
    ASSUME Numbers, Exact, NEW p \in Ticks, HandleEvent(p),
           NEW b, b = FirstBlock(tick[p].todo)
    PROVE  /\ b \in EventBlocks /\ b \in Nat \ {0} /\ checkpoint # -1 /\ TickAlone'
           /\ \A item, kinds, v :
                 /\ ~ (chain[b].item = item /\ chain[b].kind \in kinds)
                 /\ Recent(item, kinds, v)
                 => Recent(item, kinds, v)'
           /\ \A kinds : chain[b].kind \in kinds => Recent(chain[b].item, kinds, b)'
           /\ \A item, kinds :
                 (\A c \in EventBlocks : chain[c].item = item /\ chain[c].kind \in kinds
                                         => ~ (c <= b))
                 => Recent(item, kinds, 0)'
<1>1. /\ UNCHANGED <<chain, seed, checkpoint, lock>> /\ EventBlocks' = EventBlocks
      /\ WindowEnd(checkpoint)' = WindowEnd(checkpoint) /\ tick[p].step = "handling"
      /\ Active(p)
      /\ tick' = [tick EXCEPT ![p].step = "logging", ![p].todo = @ \ {b}]
  BY DEF HandleEvent, state, EventBlocks, Mined, WindowEnd, Active
<1>2. /\ tick'[p].step = "logging" /\ tick'[p].todo = tick[p].todo \ {b}
      /\ tick'[p].to = tick[p].to /\ tick'[p].from = tick[p].from /\ Active(p)'
      /\ tick' = [tick EXCEPT ![p] = tick'[p]]
  BY <1>1 DEF Numbers, TickShape, Active
<1>3. /\ tick[p].todo # {} /\ tick[p].from = checkpoint
      /\ tick[p].to <= WindowEnd(checkpoint) /\ tick[p].from <= tick[p].to
      /\ tick[p].todo \subseteq EventBlocks \cap (tick[p].from..tick[p].to)
      /\ \A c \in tick[p].todo, d \in EventBlocks :
            c <= d /\ d <= tick[p].to => d \in tick[p].todo
      /\ seed <= checkpoint
  BY <1>1 DEF Exact, TickAlone
<1>4. /\ Len(chain) \in Nat /\ EventBlocks \subseteq 1..Len(chain)
      /\ \A c \in EventBlocks : c \in Nat \ {0} /\ c <= Len(chain)
  BY BlocksTyped DEF Numbers, ChainTyped
<1>5. /\ checkpoint \in Nat /\ checkpoint # -1 /\ tick[p].to \in Nat /\ seed \in Int
      /\ tick[p].to <= Len(chain)
  BY <1>1 DEF Numbers, TickShape, Active
<1>6. b \in tick[p].todo /\ \A c \in tick[p].todo : b <= c
  <2> DEFINE todo == tick[p].todo
  <2>1. IsFiniteSet(1..Len(chain)) /\ todo \subseteq 1..Len(chain) /\ todo # {}
    <3>1. IsFiniteSet(1..Len(chain))
      BY <1>4, FS_Interval
    <3>2. todo \subseteq EventBlocks /\ todo # {}
      BY <1>3
    <3> HIDE DEF todo
    <3> QED BY <1>4, <3>1, <3>2
  <2>2. todo \in SUBSET Int
    BY <1>4, <2>1
  <2>3. b = Min(todo)
    BY DEF FirstBlock
  <2> HIDE DEF todo
  <2>4. IsFiniteSet(todo)
    BY <2>1, FS_Subset
  <2>5. b \in todo /\ \A c \in todo : b <= c
    BY <2>1, <2>2, <2>3, <2>4, ExtremesExist
  <2> QED BY <2>5 DEF todo
<1>7. b \in EventBlocks /\ b \in Nat \ {0} /\ checkpoint <= b /\ b <= tick[p].to
  BY <1>3, <1>4, <1>5, <1>6
<1>8. \A q \in Ticks : q # p => /\ tick[q].step = "idle" /\ tick'[q] = tick[q]
                                /\ ~ Active(q) /\ ~ Active(q)'
  BY <1>1, <1>2, OnlyTick DEF Exact
<1>9. /\ \A c : Dispatched(c) <=>
             c < checkpoint \/ (c <= tick[p].to /\ c \notin tick[p].todo)
      /\ \A c : Dispatched(c)' <=>
             c < checkpoint \/ (c <= tick[p].to /\ c \notin tick[p].todo \ {b})
  BY <1>1, <1>2, OnlyTick DEF Exact
<1>10. TickAlone'
  <2> SUFFICES ASSUME NEW q \in Ticks
               PROVE  TickAlone!(q)'
    BY DEF TickAlone
  <2>1. TickAlone!(p)
    BY DEF Exact, TickAlone
  <2>2. CASE q = p
    <3>1. ASSUME NEW c \in tick[p].todo \ {b}, NEW d \in EventBlocks,
                 c <= d, d <= tick[p].to
          PROVE  d \in tick[p].todo \ {b}
      <4>1. c \in Nat /\ d \in Nat /\ b <= c /\ c # b /\ d \in tick[p].todo
        BY <1>3, <1>4, <1>6, <3>1
      <4>2. d # b
        BY <1>7, <3>1, <4>1
      <4> QED BY <4>1, <4>2
    <3> QED BY <1>1, <1>2, <1>3, <2>1, <2>2, <3>1
  <2>3. CASE q # p
    BY <1>8, <2>3 DEF Active
  <2> QED BY <2>2, <2>3
<1>11. ASSUME NEW c \in EventBlocks, Dispatched(c)'
       PROVE  c <= b /\ (c # b => Dispatched(c))
  <2>1. c \in Nat /\ b \in Nat
    BY <1>4, <1>7
  <2>2. CASE c < checkpoint
    BY <1>5, <1>7, <1>9, <2>1, <2>2
  <2>3. CASE ~ (c < checkpoint)
    <3>1. c <= tick[p].to /\ c \notin tick[p].todo \ {b}
      BY <1>9, <1>11, <2>3
    <3>2. c = b \/ c \notin tick[p].todo
      BY <3>1
    <3>3. c # b => ~ (b <= c)
      BY <1>3, <1>6, <3>1, <3>2
    <3> QED BY <1>9, <2>1, <3>1, <3>2, <3>3
  <2> QED BY <2>2, <2>3
<1>12. b \in Times'
  <2>1. b \in 0..Len(chain')
    BY <1>1, <1>4, <1>5, <1>7
  <2>2. b <= WindowEnd(checkpoint)'
    <3>1. WindowEnd(checkpoint) \in Int
      BY <1>4, <1>5, IndexerAssumption DEF WindowEnd
    <3> QED BY <1>1, <1>3, <1>5, <1>7, <3>1
  <2>3. \A q \in Ticks : Active(q)' => b <= tick'[q].to
    BY <1>2, <1>7, <1>8
  <2> QED BY <1>1, <1>11, <2>1, <2>2, <2>3 DEF Times
<1>13. \A item, kinds, n : SeenOf(item, kinds, n)' = SeenOf(item, kinds, n)
  BY <1>1 DEF SeenOf, Mentions
<1>14. \A item, kinds, n : LastOf(item, kinds, n)' = LastOf(item, kinds, n)
  BY <1>13 DEF LastOf
<1>15. ASSUME NEW item, NEW kinds, NEW v,
              ~ (chain[b].item = item /\ chain[b].kind \in kinds),
              Recent(item, kinds, v)
       PROVE  Recent(item, kinds, v)'
  <2>1. PICK n \in Times : v = LastOf(item, kinds, n)
    BY <1>15 DEF Recent
  <2>2. n \in Nat /\ n \in 0..Len(chain)
    BY <1>4, <2>1 DEF Times
  <2>3. CASE b <= n
    <3>1. n \in Times'
      <4>1. \A c \in EventBlocks : Dispatched(c)' => c <= n
        BY <1>11, <2>1, <2>3 DEF Times
      <4>2. \A q \in Ticks : Active(q)' => n <= tick'[q].to
        BY <1>1, <1>2, <1>8, <2>1 DEF Times
      <4> QED BY <1>1, <2>1, <4>1, <4>2 DEF Times
    <3> QED BY <1>14, <2>1, <3>1 DEF Recent
  <2>4. CASE ~ (b <= n)
    <3>1. ASSUME NEW c \in EventBlocks, c # b
          PROVE  c <= n <=> c <= b
      <4>1. c \in Nat /\ b \in Nat
        BY <1>4, <1>7
      <4>2. ASSUME c <= b, ~ (c <= n)
            PROVE  FALSE
        <5>1. c <= tick[p].to
          BY <1>5, <1>7, <4>1, <4>2
        <5>2. c \in tick[p].todo
          BY <1>9, <2>1, <4>2, <5>1 DEF Times
        <5>3. b <= c
          BY <1>6, <5>2
        <5> QED BY <3>1, <4>1, <4>2, <5>3
      <4> QED BY <2>2, <2>4, <4>1, <4>2
    <3>2. SeenOf(item, kinds, n) = SeenOf(item, kinds, b)
      BY <1>15, <2>4, <3>1 DEF SeenOf, Mentions
    <3>3. LastOf(item, kinds, n) = LastOf(item, kinds, b)
      BY <3>2 DEF LastOf
    <3> QED BY <1>12, <1>14, <2>1, <3>3 DEF Recent
  <2> QED BY <2>3, <2>4
<1>16. ASSUME NEW kinds, chain[b].kind \in kinds
       PROVE  Recent(chain[b].item, kinds, b)'
  <2>1. b \in SeenOf(chain[b].item, kinds, b)
    BY <1>3, <1>5, <1>7, <1>16 DEF SeenOf, Mentions
  <2>2. \A c \in SeenOf(chain[b].item, kinds, b) : c <= b
    BY DEF SeenOf, Mentions
  <2>3. LastOf(chain[b].item, kinds, b) = b
    BY <2>1, <2>2, LastFacts
  <2> QED BY <1>1, <1>12, <1>14, <2>3 DEF Recent
<1>17. ASSUME NEW item, NEW kinds,
              \A c \in EventBlocks : chain[c].item = item /\ chain[c].kind \in kinds
                                     => ~ (c <= b)
       PROVE  Recent(item, kinds, 0)'
  <2>1. SeenOf(item, kinds, b) = {}
    BY <1>17 DEF SeenOf, Mentions
  <2>2. LastOf(item, kinds, b) = 0
    BY <2>1, LastFacts
  <2> QED BY <1>12, <1>14, <2>2 DEF Recent
<1> QED BY <1>5, <1>7, <1>10, <1>15, <1>16, <1>17

\* What the handlers of an auction leave of a row, column by column.
AuctionWritten(r, kind, b, q) ==
    /\ q = NoRow <=> r = NoRow /\ kind # "Created"
    /\ q # NoRow =>
          /\ q.status = IF kind = "Updated" THEN r.status ELSE AuctionStatus(kind)
          /\ q.terms = IF kind = "Created" THEN b ELSE r.terms
          /\ q.reserve = IF kind \in {"Created", "Updated"} THEN b ELSE r.reserve
          /\ q.bid = IF kind = "BidPlaced" THEN b
                     ELSE IF r = NoRow THEN 0 ELSE r.bid
          /\ q.final = IF kind = "Finalized" THEN b
                       ELSE IF r = NoRow THEN 0 ELSE r.final

LEMMA AuctionFields ==
    ASSUME NEW r \in AuctionRow \cup {NoRow}, NEW kind \in AuctionKinds, NEW b \in Nat,
           NEW q, q = AuctionAfter(r, kind, b)
    PROVE  q \in AuctionRow \cup {NoRow} /\ AuctionWritten(r, kind, b, q)
<1>1. \A x \in AuctionRow : x # NoRow
  BY DEF AuctionRow, NoRow
<1>2. CASE r = NoRow /\ kind # "Created"
  BY <1>2 DEF AuctionAfter, AuctionWritten
<1>3. CASE kind = "Created"
  <2>1. q = [status |-> "open", terms |-> b, reserve |-> b,
             bid |-> IF r = NoRow THEN 0 ELSE r.bid,
             final |-> IF r = NoRow THEN 0 ELSE r.final]
    BY <1>3 DEF AuctionAfter
  <2>2. /\ (IF r = NoRow THEN 0 ELSE r.bid) \in Nat
        /\ (IF r = NoRow THEN 0 ELSE r.final) \in Nat
    BY DEF AuctionRow
  <2>3. q \in AuctionRow
    BY <2>1, <2>2 DEF AuctionRow
  <2> QED BY <1>1, <1>3, <2>1, <2>3 DEF AuctionStatus, AuctionWritten
<1>4. CASE r # NoRow /\ kind # "Created"
  <2>1. r \in AuctionRow
    BY <1>4
  <2>2. CASE kind = "BidPlaced"
    BY <1>1, <1>4, <2>1, <2>2 DEF AuctionAfter, AuctionStatus, AuctionRow, AuctionWritten
  <2>3. CASE kind = "Finalized"
    BY <1>1, <1>4, <2>1, <2>3 DEF AuctionAfter, AuctionStatus, AuctionRow, AuctionWritten
  <2>4. CASE kind = "AuctionCanceled"
    BY <1>1, <1>4, <2>1, <2>4 DEF AuctionAfter, AuctionStatus, AuctionRow, AuctionWritten
  <2>5. CASE kind = "AuctionInvalidated"
    BY <1>1, <1>4, <2>1, <2>5 DEF AuctionAfter, AuctionStatus, AuctionRow, AuctionWritten
  <2>6. CASE kind = "Updated"
    BY <1>1, <1>4, <2>1, <2>6 DEF AuctionAfter, AuctionStatus, AuctionRow, AuctionWritten
  <2> QED BY <1>4, <2>2, <2>3, <2>4, <2>5, <2>6 DEF AuctionKinds
<1> QED BY <1>2, <1>3, <1>4

PriceWritten(r, kind, b, q) ==
    /\ q = NoRow <=> r = NoRow /\ kind # "Set"
    /\ q # NoRow =>
          /\ q.status = PriceStatus(kind) /\ q.updated = b
          /\ q.offer = IF kind = "Set" THEN b ELSE r.offer
          /\ q.sale = IF kind = "Set" THEN 0
                      ELSE IF kind = "Accepted" THEN b ELSE r.sale

LEMMA PriceFields ==
    ASSUME NEW r \in PriceRow \cup {NoRow}, NEW kind \in PriceKinds, NEW b \in Nat,
           NEW q, q = PriceAfter(r, kind, b)
    PROVE  q \in PriceRow \cup {NoRow} /\ PriceWritten(r, kind, b, q)
<1>1. \A x \in PriceRow : x # NoRow
  BY DEF PriceRow, NoRow
<1>2. CASE kind = "Set"
  <2>1. q = [status |-> "active", offer |-> b, sale |-> 0, updated |-> b]
    BY <1>2 DEF PriceAfter
  <2>2. q \in PriceRow
    BY <2>1 DEF PriceRow
  <2> QED BY <1>1, <1>2, <2>1, <2>2 DEF PriceStatus, PriceWritten
<1>3. CASE r = NoRow /\ kind # "Set"
  BY <1>3 DEF PriceAfter, PriceKinds, PriceWritten
<1>4. CASE r # NoRow /\ kind # "Set"
  <2>1. r \in PriceRow
    BY <1>4
  <2>2. CASE kind = "Accepted"
    BY <1>1, <1>4, <2>1, <2>2 DEF PriceAfter, PriceStatus, PriceRow, PriceWritten
  <2>3. CASE kind = "Canceled"
    BY <1>1, <1>4, <2>1, <2>3 DEF PriceAfter, PriceStatus, PriceRow, PriceWritten
  <2>4. CASE kind = "Invalidated"
    BY <1>1, <1>4, <2>1, <2>4 DEF PriceAfter, PriceStatus, PriceRow, PriceWritten
  <2> QED BY <1>4, <2>2, <2>3, <2>4 DEF PriceKinds
<1> QED BY <1>2, <1>3, <1>4

\* What HandleEvent writes.
LEMMA HandlerWrites ==
    ASSUME Numbers, TablesTyped, NEW p \in Ticks, HandleEvent(p),
           NEW b, b = FirstBlock(tick[p].todo), b \in EventBlocks
    PROVE  /\ b \in Nat
           /\ \/ /\ chain[b].kind \in AuctionKinds /\ chain[b].item \in Auctions
                 /\ chain[b].item \notin Tokens /\ price' = price
                 /\ auction' = [auction EXCEPT ![chain[b].item] =
                        AuctionAfter(auction[chain[b].item], chain[b].kind, b)]
              \/ /\ chain[b].kind \in PriceKinds /\ chain[b].item \in Tokens
                 /\ chain[b].item \notin Auctions /\ auction' = auction
                 /\ price' = [price EXCEPT ![chain[b].item] =
                        PriceAfter(price[chain[b].item], chain[b].kind, b)]
           /\ TablesTyped'
<1>1. b \in Nat /\ chain[b] \in Event
  BY BlocksTyped DEF Numbers, ChainTyped
<1>2. AuctionKinds \cap PriceKinds = {}
  BY DEF AuctionKinds, PriceKinds
<1>3. Auctions \cap Tokens = {}
  BY IndexerAssumption DEF IndexerAssumption
<1>4. \/ chain[b].kind \in AuctionKinds /\ chain[b].item \in Auctions
      \/ chain[b].kind \in PriceKinds /\ chain[b].item \in Tokens
  BY <1>1 DEF Event
<1>5. spent' = spent
  BY DEF HandleEvent
<1>6. CASE chain[b].kind \in AuctionKinds
  <2>1. /\ chain[b].item \in Auctions /\ chain[b].item \notin Tokens /\ price' = price
        /\ auction' = [auction EXCEPT ![chain[b].item] =
               AuctionAfter(auction[chain[b].item], chain[b].kind, b)]
    BY <1>2, <1>3, <1>4, <1>6 DEF HandleEvent
  <2>2. AuctionAfter(auction[chain[b].item], chain[b].kind, b) \in AuctionRow \cup {NoRow}
    BY <1>1, <1>6, <2>1, AuctionFields DEF TablesTyped
  <2> QED BY <1>1, <1>5, <1>6, <2>1, <2>2 DEF TablesTyped
<1>7. CASE chain[b].kind \in PriceKinds
  <2>1. /\ chain[b].item \in Tokens /\ chain[b].item \notin Auctions /\ auction' = auction
        /\ price' = [price EXCEPT ![chain[b].item] =
               PriceAfter(price[chain[b].item], chain[b].kind, b)]
    BY <1>2, <1>3, <1>4, <1>7 DEF HandleEvent
  <2>2. PriceAfter(price[chain[b].item], chain[b].kind, b) \in PriceRow \cup {NoRow}
    BY <1>1, <1>7, <2>1, PriceFields DEF TablesTyped
  <2> QED BY <1>1, <1>5, <1>7, <2>1, <2>2 DEF TablesTyped
<1> QED BY <1>4, <1>6, <1>7

LEMMA ExactHandle ==
    ASSUME Numbers, CreatedFirst, TablesTyped, Exact, NEW p \in Ticks, HandleEvent(p)
    PROVE  Exact'
<1>1. PICK b : b = FirstBlock(tick[p].todo)
  OBVIOUS
<1>2. /\ b \in EventBlocks /\ b \in Nat /\ b # 0 /\ checkpoint # -1 /\ TickAlone'
      /\ \A item, kinds, v :
            /\ ~ (chain[b].item = item /\ chain[b].kind \in kinds)
            /\ Recent(item, kinds, v)
            => Recent(item, kinds, v)'
      /\ \A kinds : chain[b].kind \in kinds => Recent(chain[b].item, kinds, b)'
  BY <1>1, HandlerShows
<1>3. \A item, kinds :
         (\A c \in EventBlocks : chain[c].item = item /\ chain[c].kind \in kinds
                                 => ~ (c <= b))
         => Recent(item, kinds, 0)'
  BY <1>1, HandlerShows
<1>4. /\ UNCHANGED <<chain, seed, checkpoint>> /\ EventBlocks' = EventBlocks
      /\ TablesShow /\ seed <= checkpoint
  BY <1>2 DEF HandleEvent, state, EventBlocks, Mined, Exact
<1>5. \/ /\ chain[b].kind \in AuctionKinds /\ chain[b].item \in Auctions
         /\ chain[b].item \notin Tokens /\ price' = price
         /\ auction' = [auction EXCEPT ![chain[b].item] =
                AuctionAfter(auction[chain[b].item], chain[b].kind, b)]
      \/ /\ chain[b].kind \in PriceKinds /\ chain[b].item \in Tokens
         /\ chain[b].item \notin Auctions /\ auction' = auction
         /\ price' = [price EXCEPT ![chain[b].item] =
                PriceAfter(price[chain[b].item], chain[b].kind, b)]
  BY <1>1, <1>2, HandlerWrites
<1> DEFINE item == chain[b].item
           kind == chain[b].kind
<1>6. ASSUME NEW a \in Auctions, a # item
      PROVE  AuctionShown(a, auction[a])'
  <2>1. auction'[a] = auction[a]
    BY <1>5, <1>6 DEF TablesTyped
  <2>2. PICK r : r = auction[a]
    OBVIOUS
  <2>3. AuctionShown(a, r)
    BY <1>4, <2>2 DEF TablesShow
  <2>4. AuctionShown(a, r)'
    BY <1>2, <1>4, <1>6, <2>3 DEF AuctionShown, AuctionShows
  <2> QED BY <2>1, <2>2, <2>4
<1>7. ASSUME NEW t \in Tokens, t # item
      PROVE  PriceShown(t, price[t])'
  <2>1. price'[t] = price[t]
    BY <1>5, <1>7 DEF TablesTyped
  <2>2. PICK r : r = price[t]
    OBVIOUS
  <2>3. PriceShown(t, r)
    BY <1>4, <2>2 DEF TablesShow
  <2>4. PriceShown(t, r)'
    BY <1>2, <1>4, <1>7, <2>3 DEF PriceShown, PriceShows
  <2> QED BY <2>1, <2>2, <2>4
<1>8. ASSUME NEW i \in Auctions, i = item, NEW k \in AuctionKinds, k = kind
      PROVE  AuctionShown(i, auction[i])'
  <2>1. PICK r : r = auction[i] /\ r \in AuctionRow \cup {NoRow}
    BY <1>8 DEF TablesTyped
  <2>2. PICK q : q = auction'[i]
    OBVIOUS
  <2>3. q = AuctionAfter(r, k, b)
    <3>1. k \notin PriceKinds
      BY <1>8 DEF AuctionKinds, PriceKinds
    <3> QED BY <1>5, <1>8, <2>1, <2>2, <3>1 DEF TablesTyped
  <2>4. chain[b].item = i /\ chain[b].kind = k /\ k \in AuctionKinds
    BY <1>8
  <2>5. /\ \A kinds, v : k \notin kinds /\ Recent(i, kinds, v) => Recent(i, kinds, v)'
        /\ \A kinds : k \in kinds => Recent(i, kinds, b)'
    BY <1>2, <1>4, <2>4
  <2> HIDE DEF item, kind
  <2>6. /\ q = NoRow <=> r = NoRow /\ k # "Created"
        /\ q # NoRow =>
              /\ q.status = IF k = "Updated" THEN r.status ELSE AuctionStatus(k)
              /\ q.terms = IF k = "Created" THEN b ELSE r.terms
              /\ q.reserve = IF k \in {"Created", "Updated"} THEN b ELSE r.reserve
              /\ q.bid = IF k = "BidPlaced" THEN b
                         ELSE IF r = NoRow THEN 0 ELSE r.bid
              /\ q.final = IF k = "Finalized" THEN b
                           ELSE IF r = NoRow THEN 0 ELSE r.final
    <3>1. b \in Nat
      BY <1>2
    <3>2. k \in AuctionKinds
      BY <1>8
    <3>3. AuctionWritten(r, k, b, q)
      BY <2>1, <2>3, <3>1, <3>2, AuctionFields
    <3> QED BY <3>3 DEF AuctionWritten
  <2>7. AuctionShown(i, r)
    BY <1>4, <1>8, <2>1, <2>4 DEF TablesShow
  <2>8. AuctionShown(i, q)'
    <3>1. CASE q = NoRow
      <4>1. r = NoRow /\ k # "Created" /\ Recent(i, {"Created"}, 0)
        BY <2>6, <2>7, <3>1 DEF AuctionShown
      <4>2. Recent(i, {"Created"}, 0)'
        BY <2>5, <4>1
      <4> QED BY <3>1, <4>2 DEF AuctionShown
    <3>2. CASE q # NoRow /\ r = NoRow
      <4>1. k = "Created"
        BY <2>6, <3>2
      <4>2. \A c \in EventBlocks : chain[c].item = i => b <= c
        BY <1>2, <2>4, <4>1 DEF CreatedFirst
      <4>3. ASSUME NEW x \in {"BidPlaced", "Finalized"}
            PROVE  Recent(i, {x}, 0)'
        <5>1. ASSUME NEW c \in EventBlocks, chain[c].item = i, chain[c].kind = x
              PROVE  ~ (c <= b)
          <6>1. b <= c /\ c # b
            BY <2>4, <4>1, <4>2, <5>1
          <6>2. c \in Nat
            BY BlocksTyped DEF Numbers, ChainTyped
          <6> QED BY <1>2, <6>1, <6>2
        <5> QED BY <1>3, <5>1
      <4>4. q.status = AuctionStatus(k) /\ q.bid = 0 /\ q.final = 0 /\ q.terms = b /\ q.reserve = b
        BY <2>6, <3>2, <4>1
      <4>5. k \in Decisive
        BY <2>4, <4>1 DEF Decisive
      <4>6. /\ Recent(i, {"Created"}, b)' /\ Recent(i, {"Created", "Updated"}, b)'
            /\ Recent(i, Decisive, b)'
        BY <2>5, <4>1, <4>5
      <4>7. chain'[b].kind = k /\ b \in EventBlocks'
        BY <1>2, <1>4, <2>4
      <4>8. Recent(i, {"BidPlaced"}, 0)' /\ Recent(i, {"Finalized"}, 0)'
        BY <4>3
      <4> QED BY <1>2, <3>2, <4>4, <4>6, <4>7, <4>8 DEF AuctionShown, AuctionShows, Decisive
    <3>3. CASE q # NoRow /\ r # NoRow
      <4>1. AuctionShows(i, r)
        BY <2>7, <3>3 DEF AuctionShown
      <4>2. q.terms # 0 /\ Recent(i, {"Created"}, q.terms)'
        BY <1>2, <2>5, <2>6, <3>3, <4>1 DEF AuctionShows
      <4>3. Recent(i, {"Created", "Updated"}, q.reserve)'
        BY <2>5, <2>6, <3>3, <4>1 DEF AuctionShows
      <4>4. Recent(i, {"BidPlaced"}, q.bid)'
        BY <2>5, <2>6, <3>3, <4>1 DEF AuctionShows
      <4>5. Recent(i, {"Finalized"}, q.final)'
        BY <2>5, <2>6, <3>3, <4>1 DEF AuctionShows
      <4>6. \E s \in EventBlocks' : /\ Recent(i, Decisive, s)'
                                   /\ q.status = AuctionStatus(chain'[s].kind)
        <5>1. CASE k = "Updated"
          <6>1. PICK s \in EventBlocks : /\ Recent(i, Decisive, s)
                                         /\ r.status = AuctionStatus(chain[s].kind)
            BY <4>1 DEF AuctionShows
          <6>2. k \notin Decisive
            BY <5>1 DEF Decisive
          <6>3. Recent(i, Decisive, s)'
            BY <2>5, <6>1, <6>2
          <6>4. q.status = AuctionStatus(chain'[s].kind)
            BY <1>4, <2>6, <3>3, <5>1, <6>1
          <6> QED BY <1>4, <6>3, <6>4
        <5>2. CASE k # "Updated"
          <6>1. k \in Decisive
            BY <2>4, <5>2 DEF Decisive
          <6>2. Recent(i, Decisive, b)'
            BY <2>5, <6>1
          <6>3. q.status = AuctionStatus(chain'[b].kind)
            BY <1>4, <2>4, <2>6, <3>3, <5>2
          <6> QED BY <1>2, <1>4, <6>2, <6>3
        <5> QED BY <5>1, <5>2
      <4>7. AuctionShows(i, q)'
        BY <4>2, <4>3, <4>4, <4>5, <4>6 DEF AuctionShows, Decisive
      <4> QED BY <3>3, <4>7 DEF AuctionShown
    <3> QED BY <3>1, <3>2, <3>3
  <2> QED BY <2>2, <2>8
<1>9. ASSUME NEW i \in Tokens, i = item, NEW k \in PriceKinds, k = kind
      PROVE  PriceShown(i, price[i])'
  <2>1. PICK r : r = price[i] /\ r \in PriceRow \cup {NoRow}
    BY <1>9 DEF TablesTyped
  <2>2. PICK q : q = price'[i]
    OBVIOUS
  <2>3. q = PriceAfter(r, k, b)
    <3>1. k \notin AuctionKinds
      BY <1>9 DEF AuctionKinds, PriceKinds
    <3> QED BY <1>5, <1>9, <2>1, <2>2, <3>1 DEF TablesTyped
  <2>4. chain[b].item = i /\ chain[b].kind = k
    BY <1>9
  <2>5. /\ \A kinds, v : k \notin kinds /\ Recent(i, kinds, v) => Recent(i, kinds, v)'
        /\ \A kinds : k \in kinds => Recent(i, kinds, b)'
    BY <1>2, <1>4, <2>4
  <2> HIDE DEF item, kind
  <2>6. /\ q = NoRow <=> r = NoRow /\ k # "Set"
        /\ q # NoRow =>
              /\ q.status = PriceStatus(k) /\ q.updated = b
              /\ q.offer = IF k = "Set" THEN b ELSE r.offer
              /\ q.sale = IF k = "Set" THEN 0 ELSE IF k = "Accepted" THEN b ELSE r.sale
    <3>1. b \in Nat
      BY <1>2
    <3>2. k \in PriceKinds
      BY <1>9
    <3>3. PriceWritten(r, k, b, q)
      BY <2>1, <2>3, <3>1, <3>2, PriceFields
    <3> QED BY <3>3 DEF PriceWritten
  <2>7. PriceShown(i, r)
    BY <1>4, <2>1 DEF TablesShow
  <2>8. PriceShown(i, q)'
    <3>1. CASE q = NoRow
      <4>1. r = NoRow /\ k # "Set" /\ Recent(i, {"Set"}, 0)
        BY <2>6, <2>7, <3>1 DEF PriceShown
      <4>2. Recent(i, {"Set"}, 0)'
        BY <2>5, <4>1
      <4> QED BY <3>1, <4>2 DEF PriceShown
    <3>2. CASE q # NoRow
      <4>1. r # NoRow => PriceShows(i, r)
        BY <2>7 DEF PriceShown
      <4>2. q.offer # 0 /\ Recent(i, {"Set"}, q.offer)'
        BY <1>2, <2>5, <2>6, <3>2, <4>1 DEF PriceShows
      <4>3. Recent(i, PriceKinds, b)' /\ q.updated = b
        BY <2>5, <2>6, <3>2
      <4>4. \E s \in EventBlocks' : /\ Recent(i, PriceKinds, s)'
                                   /\ q.status = PriceStatus(chain'[s].kind)
        BY <1>2, <1>4, <2>4, <2>6, <3>2, <4>3
      <4>5. \E s \in EventBlocks' :
                /\ Recent(i, {"Set", "Accepted"}, s)'
                /\ q.sale = IF chain'[s].kind = "Accepted" THEN s ELSE 0
        <5>1. CASE k \in {"Set", "Accepted"}
          <6>1. Recent(i, {"Set", "Accepted"}, b)'
            BY <2>5, <5>1
          <6>2. q.sale = IF chain'[b].kind = "Accepted" THEN b ELSE 0
            BY <1>4, <2>4, <2>6, <3>2, <5>1
          <6> QED BY <1>2, <1>4, <6>1, <6>2
        <5>2. CASE k \notin {"Set", "Accepted"}
          <6>1. r # NoRow /\ q.sale = r.sale
            BY <2>6, <3>2, <5>2
          <6>2. PICK s \in EventBlocks :
                    /\ Recent(i, {"Set", "Accepted"}, s)
                    /\ r.sale = IF chain[s].kind = "Accepted" THEN s ELSE 0
            BY <4>1, <6>1 DEF PriceShows
          <6>3. Recent(i, {"Set", "Accepted"}, s)'
            BY <2>5, <5>2, <6>2
          <6> QED BY <1>4, <6>1, <6>2, <6>3
        <5> QED BY <5>1, <5>2
      <4>6. PriceShows(i, q)'
        BY <1>2, <4>2, <4>3, <4>4, <4>5 DEF PriceShows, PriceKinds
      <4> QED BY <3>2, <4>6 DEF PriceShown
    <3> QED BY <3>1, <3>2
  <2> QED BY <2>2, <2>8
<1>10. ASSUME NEW a \in Auctions
       PROVE  AuctionShown(a, auction[a])'
  BY <1>5, <1>6, <1>8
<1>11. ASSUME NEW t \in Tokens
       PROVE  PriceShown(t, price[t])'
  BY <1>5, <1>7, <1>9
<1>12. TablesShow'
  BY <1>10, <1>11 DEF TablesShow
<1> QED BY <1>2, <1>4, <1>12 DEF Exact

-----------------------------------------------------------------------------
LEMMA OrderStays ==
    ASSUME chain' = chain, CreatedFirst, AfterSet
    PROVE  CreatedFirst' /\ AfterSet'
<1>1. EventBlocks' = EventBlocks
  BY DEF EventBlocks, Mined
<1> QED BY <1>1 DEF CreatedFirst, AfterSet

LEMMA HandlerHasEvent ==
    ASSUME Numbers, TodoMined, NEW p \in Ticks, HandleEvent(p)
    PROVE  FirstBlock(tick[p].todo) \in EventBlocks
<1> DEFINE todo == tick[p].todo
<1>1. todo # {} /\ todo \subseteq EventBlocks
  BY DEF HandleEvent, TodoMined
<1>2. /\ EventBlocks \subseteq 1..Len(chain) /\ IsFiniteSet(1..Len(chain))
      /\ \A b \in EventBlocks : b \in Nat
  <2>1. ChainTyped /\ Len(chain) \in Nat
    BY DEF Numbers, ChainTyped
  <2> QED BY <2>1, BlocksTyped, FS_Interval
<1> HIDE DEF todo
<1>3. \A b \in EventBlocks : b \in Int
  BY <1>2
<1>4. todo \in SUBSET Int /\ todo \subseteq 1..Len(chain)
  BY <1>1, <1>2, <1>3
<1>5. IsFiniteSet(todo)
  BY <1>2, <1>4, FS_Subset
<1>6. Min(todo) \in todo
  BY <1>1, <1>4, <1>5, ExtremesExist
<1> QED BY <1>1, <1>6 DEF FirstBlock, todo

LEMMA TodoStep ==
    ASSUME Numbers, TodoMined, NEW p \in Ticks,
           TickStep(p) \/ FailTick(p) \/ LockTimesOut(p)
    PROVE  TodoMined'
<1>1. chain' = chain /\ EventBlocks' = EventBlocks
  BY DEF TickStep, BeginTick, ReadState, FetchLogs, PersistLog, HandleEvent,
         Advance, FailTick, LockTimesOut, EventBlocks, Mined
<1>2. \/ tick' = tick
      \/ /\ tick' = [tick EXCEPT ![p] = tick'[p]]
         /\ \/ /\ tick'[p].todo = tick[p].todo
               /\ tick'[p].step = "handling" => tick[p].todo # {}
            \/ tick'[p].todo \subseteq EventBlocks /\ tick'[p].step # "handling"
  <2>1. CASE BeginTick(p)
    BY <2>1 DEF BeginTick, Numbers, TickShape
  <2>2. CASE ReadState(p)
    <3>1. tick' = [tick EXCEPT ![p].step = "reading", ![p].from = checkpoint']
      BY <2>2 DEF ReadState
    <3> QED BY <3>1 DEF Numbers, TickShape
  <2>3. CASE FetchLogs(p)
    <3>1. CASE tick[p].from > Len(chain)
      <4>1. tick' = [tick EXCEPT ![p] = IdleTick]
        BY <2>3, <3>1 DEF FetchLogs
      <4> QED BY <4>1 DEF Numbers, IdleTick
    <3>2. CASE ~ (tick[p].from > Len(chain))
      <4> DEFINE to == WindowEnd(tick[p].from)
                 todo == EventBlocks \cap (tick[p].from..to)
      <4>1. /\ todo \subseteq EventBlocks
            /\ tick' = [tick EXCEPT ![p].step = "logging", ![p].to = to, ![p].todo = todo]
        BY <2>3, <3>2 DEF FetchLogs
      <4> HIDE DEF to, todo
      <4> QED BY <4>1 DEF Numbers, TickShape
    <3> QED BY <3>1, <3>2
  <2>4. CASE PersistLog(p)
    BY <2>4 DEF PersistLog, Numbers, TickShape
  <2>5. CASE HandleEvent(p)
    <3>1. PICK b : tick' = [tick EXCEPT ![p].step = "logging", ![p].todo = @ \ {b}]
      BY <2>5 DEF HandleEvent
    <3> QED BY <3>1 DEF Numbers, TickShape, TodoMined
  <2>6. CASE Advance(p)
    BY <2>6 DEF Advance, Numbers, IdleTick
  <2>7. CASE FailTick(p)
    BY <2>7 DEF FailTick, Numbers, IdleTick
  <2>8. CASE LockTimesOut(p)
    BY <2>8 DEF LockTimesOut
  <2> QED BY <2>1, <2>2, <2>3, <2>4, <2>5, <2>6, <2>7, <2>8 DEF TickStep
<1>3. \A q \in Ticks : q # p => tick'[q] = tick[q]
  BY <1>2 DEF Numbers
<1> QED BY <1>1, <1>2, <1>3 DEF TodoMined

LEMMA ExactStep ==
    ASSUME LogInv, LogInv', ExactInv, [Next]_vars
    PROVE  ExactInv'
<1>1. Numbers /\ Numbers' /\ CreatedFirst /\ AfterSet /\ TablesTyped /\ TodoMined
  BY DEF LogInv, ExactInv
<1>2. CASE UNCHANGED vars
  <2>1. /\ UNCHANGED <<chain, seed, checkpoint, auction, price, tick, lock, spent>>
        /\ EventBlocks' = EventBlocks /\ UNCHANGED tables
    BY <1>2 DEF vars, EventBlocks, Mined, tables
  <2>2. CreatedFirst' /\ AfterSet' /\ TablesTyped' /\ TodoMined'
    BY <1>1, <2>1, OrderStays DEF TablesTyped, TodoMined
  <2>3. Times' = Times
    BY <2>1 DEF Times, WindowEnd, Active, Dispatched
  <2>4. \A item, kinds, v : Recent(item, kinds, v) => Recent(item, kinds, v)'
    BY <1>1, <2>1, <2>3, RecentKept
  <2>5. TablesShow => TablesShow'
    BY <2>1, <2>4, TablesKept
  <2>6. TickAlone => TickAlone'
    BY <2>1 DEF TickAlone, Active, WindowEnd
  <2>7. Exact => Exact'
    BY <2>1, <2>5, <2>6 DEF Exact
  <2> QED BY <2>1, <2>2, <2>7 DEF ExactInv
<1>3. ASSUME NEW e \in Event \cup {Silence}, Mine(e)
      PROVE  ExactInv'
  <2>1. UNCHANGED <<auction, price, spent>>
    BY <1>3 DEF Mine, tables
  <2>2. CreatedFirst' /\ AfterSet'
    BY <1>1, <1>3, OrderKept DEF Numbers, ChainTyped
  <2>3. TablesTyped' /\ TodoMined'
    <3>1. \A b \in EventBlocks : b \in EventBlocks'
      BY <1>1, <1>3, ChainGrows DEF Numbers, ChainTyped
    <3>2. tick' = tick
      BY <1>3 DEF Mine
    <3> QED BY <1>1, <2>1, <3>1, <3>2 DEF TablesTyped, TodoMined
  <2>4. Exact => Exact'
    BY <1>1, <1>3, ExactMine
  <2> QED BY <2>1, <2>2, <2>3, <2>4 DEF ExactInv
<1>4. ASSUME NEW p \in Ticks, TickStep(p) \/ FailTick(p) \/ LockTimesOut(p)
      PROVE  ExactInv'
  <2>1. CreatedFirst' /\ AfterSet' /\ TodoMined'
    <3>1. chain' = chain
      BY <1>4 DEF TickStep, BeginTick, ReadState, FetchLogs, PersistLog, HandleEvent,
                  Advance, FailTick, LockTimesOut
    <3> QED BY <1>1, <1>4, <3>1, OrderStays, TodoStep
  <2>2. CASE LockTimesOut(p)
    <3>1. UNCHANGED <<auction, price>> /\ spent' = [spent EXCEPT !.overruns = @ + 1]
      BY <2>2 DEF LockTimesOut, tables
    <3>2. spent' \in [failures : Nat, overruns : Nat] /\ spent'.overruns # 0
      BY <1>1, <3>1 DEF TablesTyped
    <3>3. TablesTyped'
      BY <1>1, <3>1, <3>2 DEF TablesTyped
    <3> QED BY <2>1, <3>2, <3>3 DEF ExactInv
  <2>3. CASE HandleEvent(p)
    <3>1. spent' = spent
      BY <2>3 DEF HandleEvent
    <3>2. Exact => Exact'
      BY <1>1, <2>3, ExactHandle
    <3>3. TablesTyped'
      BY <1>1, <2>3, HandlerHasEvent, HandlerWrites
    <3> QED BY <2>1, <3>1, <3>2, <3>3 DEF ExactInv
  <2>4. CASE FailTick(p)
    <3>1. UNCHANGED <<auction, price>> /\ spent' = [spent EXCEPT !.failures = @ + 1]
      BY <2>4 DEF FailTick, tables
    <3>2. /\ spent' \in [failures : Nat, overruns : Nat]
          /\ spent'.overruns = spent.overruns
      BY <1>1, <3>1 DEF TablesTyped
    <3>3. TablesTyped'
      BY <1>1, <3>1, <3>2 DEF TablesTyped
    <3>4. Exact => Exact'
      BY <1>1, <2>4, ExactFail
    <3> QED BY <2>1, <3>2, <3>3, <3>4 DEF ExactInv
  <2>5. CASE BeginTick(p) \/ ReadState(p) \/ FetchLogs(p) \/ PersistLog(p) \/ Advance(p)
    <3>1. UNCHANGED <<auction, price, spent>>
      BY <2>5 DEF BeginTick, ReadState, FetchLogs, PersistLog, Advance, tables
    <3>2. TablesTyped'
      BY <1>1, <3>1 DEF TablesTyped
    <3>3. Exact => Exact'
      BY <1>1, <2>5, ExactBegin, ExactReadState, ExactFetch, ExactPersist, ExactAdvance
    <3> QED BY <2>1, <3>1, <3>2, <3>3 DEF ExactInv
  <2> QED BY <1>4, <2>2, <2>3, <2>4, <2>5 DEF TickStep
<1> QED BY <1>2, <1>3, <1>4 DEF Next

LEMMA ExactInit == Init => ExactInv
<1> SUFFICES ASSUME Init
             PROVE  ExactInv
  OBVIOUS
<1>1. EventBlocks = {}
  BY DEF Init, EventBlocks, Mined
<1>2. CreatedFirst /\ AfterSet
  BY <1>1 DEF CreatedFirst, AfterSet
<1>3. TablesTyped /\ TodoMined
  BY DEF Init, TablesTyped, TodoMined, IdleTick
<1>4. Exact
  BY DEF Init, Exact, TickAlone, Active, IdleTick
<1> QED BY <1>2, <1>3, <1>4 DEF ExactInv

\* CheckpointIsExact: a checkpoint moves past a window only when both tables
\* are what one pass without failures over the chain would have left, for
\* any number of failed ticks and of replays before it.
THEOREM CheckpointIsExactHolds == Spec => CheckpointIsExact
<1>1. ASSUME LogInv, ExactInv, [Next]_vars,
             checkpoint' # checkpoint, checkpoint # -1, spent.overruns = 0
      PROVE  /\ \A a \in Auctions : auction'[a] = AuctionAt(a, checkpoint' - 1)
             /\ \A t \in Tokens : price'[t] = PriceAt(t, checkpoint' - 1)
  <2>1. Next
    BY <1>1 DEF vars
  <2>2. PICK p \in Ticks : Advance(p)
    BY <1>1, <2>1 DEF Next, Mine, TickStep, BeginTick, ReadState, FetchLogs, PersistLog,
                      HandleEvent, FailTick, LockTimesOut, state
  <2> QED BY <1>1, <2>2, AdvanceIsExact DEF LogInv, ExactInv
<1>2. LogInv /\ ExactInv /\ [Next]_vars =>
         [checkpoint' # checkpoint /\ checkpoint # -1 /\ spent.overruns = 0 =>
             /\ \A a \in Auctions : auction'[a] = AuctionAt(a, checkpoint' - 1)
             /\ \A t \in Tokens : price'[t] = PriceAt(t, checkpoint' - 1)]_vars
  BY <1>1
<1> QED BY <1>2, LogInit, LogStep, ExactInit, ExactStep, PTL
        DEF Spec, CheckpointIsExact
=============================================================================
