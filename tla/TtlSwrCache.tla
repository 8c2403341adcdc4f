---------------------------- MODULE TtlSwrCache ----------------------------
(***************************************************************************)
(* createTtlSwrCache (src/src/lib/ttl-swr-cache.ts): the per-process cache *)
(* of one key in front of the live snapshot and the home page.  A fetch    *)
(* reads its source somewhere between its start and its end; a caller that *)
(* finds a usable entry is answered at once, the others wait for a fetch.  *)
(*                                                                         *)
(* The value fetched is the version of the source that it shows.  Promise  *)
(* reactions run before any other event, so a fetch that ends answers all  *)
(* its waiters in the same step.                                           *)
(***************************************************************************)
EXTENDS Naturals, FiniteSets

CONSTANTS
    Callers,        \* calls of the cached function that may be open at once
    Fetches,        \* names for calls of the fetcher
    MaxVersion,     \* bound: changes of the source
    MaxRejections   \* bound: fetches that fail

ASSUME CacheAssumption ==
    MaxVersion \in Nat /\ MaxRejections \in Nat /\ Fetches # {}

VARIABLES
    source,         \* what a fetch would read now
    entry,          \* cache.get(key)
    fetch,          \* the fetches under way
    inflight,       \* inflight.get(key): {} or the fetch that others join
    answer,         \* whom the last step answered, and the latest answer
    rejections      \* fetches that have failed

cacheVars == <<source, entry, fetch, inflight, answer, rejections>>

-----------------------------------------------------------------------------
\* fresh, stale and expired are ages below ttlMs, below ttlMs + staleTtlMs
\* and above; an absent entry is as good as an expired one.
Entry == [age : {"absent", "fresh", "stale", "expired"}, data : Nat,
          refreshing : BOOLEAN]

\* background: a stale hit waits for the failure of this fetch.
Fetch == [step : {"idle", "reading", "read"}, data : Nat,
          waiters : SUBSET Callers, background : BOOLEAN]
IdleFetch == [step |-> "idle", data |-> 0, waiters |-> {}, background |-> FALSE]

Running == {f \in Fetches : fetch[f].step # "idle"}
Waiting == UNION {fetch[f].waiters : f \in Fetches}

CacheTypeOK ==
    /\ source \in Nat /\ rejections \in Nat
    /\ entry \in Entry
    /\ fetch \in [Fetches -> Fetch]
    /\ inflight \subseteq Fetches
    /\ answer \in [to : SUBSET Callers, data : Nat]

CacheInit ==
    /\ source = 0 /\ rejections = 0
    /\ entry = [age |-> "absent", data |-> 0, refreshing |-> FALSE]
    /\ fetch = [f \in Fetches |-> IdleFetch]
    /\ inflight = {}
    /\ answer = [to |-> {}, data |-> 0]

-----------------------------------------------------------------------------
Silent == answer' = [answer EXCEPT !.to = {}]
Answered(callers, data) == answer' = [to |-> callers, data |-> data]

\* Mutant: a fetch that is already under way is not joined.
doFetchAlone(waiters, background) ==
    \E f \in Fetches \ Running :
        /\ fetch' = [fetch EXCEPT ![f] = [step |-> "reading", data |-> 0,
                        waiters |-> waiters, background |-> background]]
        /\ inflight' = {f}

\* A caller joins the fetch in flight or starts one.
doFetch(waiters, background) ==
    IF inflight = {}
    THEN \E f \in Fetches \ Running :
            /\ fetch' = [fetch EXCEPT ![f] = [step |-> "reading", data |-> 0,
                            waiters |-> waiters, background |-> background]]
            /\ inflight' = {f}
    ELSE /\ fetch' = [f \in Fetches |->
                IF f \in inflight
                THEN [fetch[f] EXCEPT !.waiters = @ \cup waiters,
                                      !.background = @ \/ background]
                ELSE fetch[f]]
         /\ UNCHANGED inflight

\* Nothing to do but to answer: the entry is fresh or being refreshed.
Hit(c) ==
    /\ entry.age = "fresh" \/ (entry.age = "stale" /\ entry.refreshing)
    /\ Answered({c}, entry.data)
    /\ UNCHANGED <<entry, fetch, inflight>>

\* The old value is answered while a refresh starts in the background.
StaleHit(c) ==
    /\ entry.age = "stale" /\ ~entry.refreshing
    /\ Answered({c}, entry.data)
    /\ entry' = [entry EXCEPT !.refreshing = TRUE]
    /\ doFetch({}, TRUE)

Miss(c) ==
    /\ entry.age \in {"absent", "expired"}
    /\ Silent
    /\ doFetch({c}, FALSE)
    /\ UNCHANGED entry

\* A call of the cached function.
Get(c) ==
    /\ c \notin Waiting
    /\ Hit(c) \/ StaleHit(c) \/ Miss(c)
    /\ UNCHANGED <<source, rejections>>

-----------------------------------------------------------------------------
(* The fetcher and the clock.                                              *)

ReadSource(f) ==
    /\ fetch[f].step = "reading"
    /\ fetch' = [fetch EXCEPT ![f].step = "read", ![f].data = source]
    /\ Silent
    /\ UNCHANGED <<source, entry, inflight, rejections>>

Resolve(f) ==
    /\ fetch[f].step = "read"
    /\ entry' = [age |-> "fresh", data |-> fetch[f].data, refreshing |-> FALSE]
    /\ IF fetch[f].waiters = {} THEN Silent
       ELSE Answered(fetch[f].waiters, fetch[f].data)
    /\ fetch' = [fetch EXCEPT ![f] = IdleFetch]
    /\ inflight' = {}
    /\ UNCHANGED <<source, rejections>>

\* Its waiters get the error; the entry may be refreshed again.
Reject(f) ==
    /\ fetch[f].step # "idle" /\ rejections < MaxRejections
    /\ rejections' = rejections + 1
    /\ fetch' = [fetch EXCEPT ![f] = IdleFetch]
    /\ inflight' = {}
    /\ entry' = [entry EXCEPT !.refreshing = @ /\ ~fetch[f].background]
    /\ Silent
    /\ UNCHANGED source

\* ttlMs, then staleTtlMs, run out.
Age ==
    /\ entry.age \in {"fresh", "stale"}
    /\ entry' = [entry EXCEPT !.age = IF @ = "fresh" THEN "stale" ELSE "expired"]
    /\ Silent
    /\ UNCHANGED <<source, fetch, inflight, rejections>>

Change ==
    /\ source < MaxVersion
    /\ source' = source + 1
    /\ Silent
    /\ UNCHANGED <<entry, fetch, inflight, rejections>>

-----------------------------------------------------------------------------
FetchStep(f) == ReadSource(f) \/ Resolve(f)

CacheNext ==
    \/ \E c \in Callers : Get(c)
    \/ \E f \in Fetches : FetchStep(f) \/ Reject(f)
    \/ Age \/ Change

CacheSpec == CacheInit /\ [][CacheNext]_cacheVars

-----------------------------------------------------------------------------
\* One key has at most one fetch under way, and it is the one in the map.
SingleFlight == Running = inflight /\ \A f, g \in inflight : f = g

\* Answers never go back in time, whichever caller they are for: what was
\* once shown is not unshown by a slower fetch or an older entry.
AnswersInOrder == [][answer'.data >= answer.data]_cacheVars

\* An entry is marked as being refreshed only while a fetch will unmark it:
\* a failed refresh leaves it free to be refreshed by the next hit.
RefreshPending ==
    entry.refreshing => \E f \in inflight : fetch[f].background
=============================================================================
