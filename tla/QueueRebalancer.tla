--------------------------- MODULE QueueRebalancer ---------------------------
(***************************************************************************)
(* ArchiveQueue composed with rebalanceAutomaticBackupQueue, the step of   *)
(* the ingress cycle that parks, trims and refills the automatic part of   *)
(* the queue.  It decides on lists of active jobs that it fetched earlier, *)
(* while workers claim, users ask and other rows settle underneath.        *)
(*                                                                         *)
(* The artworks whose roots are over budget or need a failed repair are    *)
(* chosen freely: the sizes of roots are not part of this module.  Jobs of *)
(* other kinds are a constant part of the budget.                          *)
(***************************************************************************)
EXTENDS ArchiveQueue

CONSTANTS
    Rebalancers,        \* ingress cycles that may run at once
    QueueBudget,        \* maxPendingJobs of the pace, less the other kinds
    DiscoveryPerPage,   \* policy.discoveryPerPage
    RepairLane          \* failed-root repairs that stay ready (8..32)

ASSUME RebalancerAssumption ==
    /\ Rebalancers \subseteq Clients
    /\ IsFiniteSet(Keys)
    /\ QueueBudget \in Nat /\ DiscoveryPerPage \in Nat
    /\ RepairLane \in Nat \ {0}

VARIABLE plan           \* where each rebalance is and what it decided on

rvars == <<vars, plan>>

-----------------------------------------------------------------------------
RebalanceSteps == {"idle", "parking", "reparking", "repairing", "refetching",
                   "trimming", "refilling"}

\* seen is the last fetchActiveJobs, until it has been used; busy is
\* activeDedupeKeys; quiet is a history bit: no other process wrote a row
\* since the last fetch.
Plan == [step : RebalanceSteps, seen : [Keys -> Found], busy : SUBSET Keys,
         slots : Nat, quiet : BOOLEAN]

Snapshot(t) == [k \in Keys |-> AsFound(t[k])]

IdlePlan == [step |-> "idle", seen |-> [k \in Keys |-> AsFound(NoRow)],
             busy |-> {}, slots |-> 0, quiet |-> FALSE]

RTypeOK == TypeOK /\ plan \in [Rebalancers -> Plan]

RInit == Init /\ plan = [r \in Rebalancers |-> IdlePlan]

\* The lists analyseRebalance draws from a snapshot of the table.
Automatic(t) == {k \in Keys : /\ t[k].status \in ActiveStatuses
                              /\ t[k].priority <= BACKUP_PRIORITY}
AutomaticPending(t) == {k \in Automatic(t) : t[k].status = "PENDING"}
AutomaticRunning(t) == {k \in Automatic(t) : t[k].status = "RUNNING"}
AutomaticReady(t) == {k \in Automatic(t) : isReadyPendingJob(t[k])}
ProtectedReady(t) ==
    {k \in Keys : /\ t[k].priority > BACKUP_PRIORITY
                  /\ t[k].status = "RUNNING" \/ isReadyPendingJob(t[k])}
ReadyPending(t) == {k \in Keys : isReadyPendingJob(t[k])}
ActiveKeys(t) == {k \in Keys : t[k].status \in ActiveStatuses}

\* r goes on to p; what it writes is the write of another process for the rest.
Goes(r, p) ==
    plan' = [s \in Rebalancers |->
                IF s = r THEN p ELSE [plan[s] EXCEPT !.quiet = @ /\ row' = row]]
GoesTo(r, step) == Goes(r, [plan[r] EXCEPT !.step = step])

NonNegative(n) == IF n > 0 THEN n ELSE 0

\* automaticPendingTarget: ready automatic jobs that fit beside the rest.
PendingTarget(t) ==
    NonNegative(QueueBudget - Cardinality(ProtectedReady(t))
                            - Cardinality(AutomaticRunning(t)))

\* Mutant: running automatic jobs are not counted.
SlotsForgettingRunning(t) ==
    NonNegative(QueueBudget - Cardinality(ProtectedReady(t))
        - Cardinality(AutomaticReady(t)))

\* refillSlots: what is left of the budget, once the queue is low enough.
RefillSlots(t) ==
    LET kept == IF Cardinality(AutomaticReady(t)) <= PendingTarget(t)
                THEN Cardinality(AutomaticReady(t)) ELSE PendingTarget(t)
    IN  IF Cardinality(ReadyPending(t))
              <= NonNegative(QueueBudget - DiscoveryPerPage)
        THEN NonNegative(QueueBudget - Cardinality(ProtectedReady(t))
                         - Cardinality(AutomaticRunning(t)) - kept)
        ELSE 0

-----------------------------------------------------------------------------
\* fetchActiveJobs: at the start, and again after each effective parking.
FetchActiveJobs(r) ==
    /\ call[r] = {}
    /\ UNCHANGED vars
    /\ \E from \in {"idle", "reparking", "refetching"} :
          /\ plan[r].step = from
          /\ Goes(r, [IdlePlan EXCEPT !.seen = Snapshot(row), !.quiet = TRUE,
                         !.step = CASE from = "idle" -> "parking"
                                    [] from = "reparking" -> "repairing"
                                    [] from = "refetching" -> "trimming"])

\* updateMany by id where PENDING: priorities are not looked at again.
Park(r, parked) ==
    row' = [k \in Keys |->
              IF k \in parked /\ Matches(row[k], plan[r].seen[k].id, "PENDING")
              THEN [row[k] EXCEPT !.ready = FALSE] ELSE row[k]]

\* parkBlockedAutomaticBackupJobs, then a new fetch if it chose any.
ParkBlockedJobs(r, blocked) ==
    /\ plan[r].step = "parking"
    /\ blocked \subseteq AutomaticPending(plan[r].seen)
    /\ Park(r, blocked)
    /\ GoesTo(r, IF blocked = {} THEN "repairing" ELSE "reparking")
    /\ UNCHANGED <<pc, stuck, exec, call, revoked, misjudged, spent>>

\* parkOverflowFailedRepairJobs: all but the first RepairLane of them.
ParkRepairJobs(r, overflow) ==
    /\ plan[r].step = "repairing"
    /\ overflow \subseteq AutomaticReady(plan[r].seen)
    /\ overflow # {} => Cardinality(overflow) + RepairLane
                          <= Cardinality(AutomaticReady(plan[r].seen))
    /\ Park(r, overflow)
    /\ GoesTo(r, IF overflow = {} THEN "trimming" ELSE "refetching")
    /\ UNCHANGED <<pc, stuck, exec, call, revoked, misjudged, spent>>

\* The overflow of the last fetch is deleted by id, whatever became of it.
TrimOverflow(r, overflow) ==
    LET seen == plan[r].seen
        gone == {k \in overflow : row[k].id = seen[k].id}
    IN  /\ plan[r].step = "trimming"
        /\ overflow \subseteq AutomaticReady(seen)
        /\ Cardinality(overflow) =
              NonNegative(Cardinality(AutomaticReady(seen)) - PendingTarget(seen))
        /\ row' = [k \in Keys |-> IF k \in gone THEN Deleted(row[k]) ELSE row[k]]
        /\ revoked' = revoked \cup UNION {Holders(k) : k \in gone}
        /\ misjudged' = misjudged \ gone
        /\ Goes(r, [IdlePlan EXCEPT !.step = "refilling", !.quiet = plan[r].quiet,
                       !.slots = RefillSlots(seen), !.busy = ActiveKeys(seen)])
        /\ UNCHANGED <<pc, stuck, exec, call, spent>>

\* refillAutomaticBackups: queueArtworkBackup for an artwork that was not
\* active at the fetch.
RefillLookup(r, k) ==
    /\ plan[r].step = "refilling" /\ plan[r].slots > 0 /\ k \notin plan[r].busy
    /\ FindExisting(r, k, BACKUP_PRIORITY, FALSE)
    /\ Goes(r, [plan[r] EXCEPT !.busy = @ \cup {k}, !.slots = @ - 1])

\* The write of queueJob throws: the row appeared or vanished meanwhile.
Throws(q) ==
    \/ q.found.status = "ABSENT" /\ row[q.key].status # "ABSENT"
    \/ q.found.status \in SettledStatuses /\ ~StillThere(q)

RefillWrite(r, q) ==
    /\ plan[r].step = "refilling"
    /\ WriteRequest(r, q)
    /\ Goes(r, IF Throws(q) THEN IdlePlan ELSE plan[r])

\* The slots are used up or no candidate artwork is left.
FinishRebalance(r) ==
    /\ plan[r].step = "refilling" /\ call[r] = {}
    /\ UNCHANGED vars
    /\ Goes(r, IdlePlan)

-----------------------------------------------------------------------------
Rebalance(r) ==
    \/ FetchActiveJobs(r)
    \/ \E S \in SUBSET Keys :
          ParkBlockedJobs(r, S) \/ ParkRepairJobs(r, S) \/ TrimOverflow(r, S)
    \/ \E k \in Keys : RefillLookup(r, k)
    \/ \E q \in call[r] : RefillWrite(r, q)
    \/ FinishRebalance(r)

\* A step of the rest of the system; the calls of a rebalance are its own.
QueueStep ==
    /\ Next
    /\ \A r \in Rebalancers : call'[r] = call[r]
    /\ plan' = [r \in Rebalancers |->
                  [plan[r] EXCEPT !.quiet = @ /\ row' = row]]

RNext == QueueStep \/ \E r \in Rebalancers : Rebalance(r)

RSpec == RInit /\ [][RNext]_rvars

-----------------------------------------------------------------------------
(* Safety.                                                                 *)

\* A rebalance that nobody interfered with leaves ready automatic jobs only
\* up to the budget that public and running jobs leave free, after the trim
\* and after each refill.
BudgetKept ==
    \A r \in Rebalancers :
        plan[r].step = "refilling" /\ plan[r].quiet =>
            Cardinality(AutomaticReady(row)) <= PendingTarget(row)
=============================================================================
