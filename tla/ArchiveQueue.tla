---------------------------- MODULE ArchiveQueue ----------------------------
(***************************************************************************)
(* The durable job queue of the archive (src/src/server/archive/jobs):     *)
(* the QueueJob rows of BACKUP_ARTWORK jobs, the workers that process them *)
(* (processQueuedJobs, run by every worker process, by the admin endpoint  *)
(* and by the scripts), and the callers of queueArtworkBackup.             *)
(*                                                                         *)
(* Every action is one statement against Postgres together with the local  *)
(* work up to the next one, so every interleaving of workers and callers   *)
(* between two statements is a behaviour.  What a worker or a caller read  *)
(* earlier is kept in stuck, exec and call, and may be out of date.        *)
(***************************************************************************)
EXTENDS QueueRows, FiniteSets

CONSTANTS
    Keys,           \* artwork ids: dedupeKey is unique per job kind
    Workers,        \* processes and requests that run processQueuedJobs
    Clients,        \* concurrent callers of queueArtworkBackup
    BatchLimit,     \* the limit passed to processQueuedJobs
    MaxStalls,      \* bound: live executions that outlast STALE_RUNNING_JOB_MS
    MaxCrashes,     \* bound: worker processes killed
    MaxRequests     \* bound: calls of queueArtworkBackup

ASSUME BoundsAssumption ==
    /\ BatchLimit \in Nat \ {0}
    /\ MaxStalls \in Nat /\ MaxCrashes \in Nat /\ MaxRequests \in Nat

VARIABLES
    row,        \* the QueueJob table, by dedupe key
    pc,         \* where each worker is in processQueuedJobs
    stuck,      \* stale rows each worker read and has not yet recovered
    exec,       \* the batch of each worker, by dedupe key
    call,       \* queueJob calls between their lookup and their write
    revoked,    \* history: executions whose row was taken from them
    misjudged,  \* history: rows written on an outdated attempts count
    spent       \* events counted against the bounds

vars == <<row, pc, stuck, exec, call, revoked, misjudged, spent>>

-----------------------------------------------------------------------------
\* Outside recoverStaleRunningJobs a worker is between passes when its batch
\* is empty and in Promise.all over the batch otherwise.
PassStates == {"up", "recovering", "down"}

\* A job of a batch: chosen, claimed by markJobRunning, or handed to runJob
\* with the copy of the row that was read back after the claim.
Phases == {"none", "selected", "claimed", "running"}
Execution == [phase : Phases, id : Nat, before : Nat, attempts : Nat,
              bypass : BOOLEAN]
NoExecution == [phase |-> "none", id |-> 0, before |-> 0, attempts |-> 0,
                bypass |-> FALSE]

StuckCopy == [key : Keys, id : Nat, attempts : Nat]

\* What queueJob uses of the row its findUnique returned.
Found == [id : Nat, status : Statuses, priority : Priorities, ready : BOOLEAN]
AsFound(r) == [id |-> r.id, status |-> r.status, priority |-> r.priority,
               ready |-> r.ready]

\* A queueArtworkBackup call after its lookup; availableNow says whether it
\* passes availableAt: new Date().
Request == [key : Keys, priority : Priorities, availableNow : BOOLEAN,
            found : Found]

\* w believes that it holds the row of k; it does as long as no other write
\* took the row away.
Holding(w, k) == exec[w][k].phase \in {"claimed", "running"}
Holders(k) == {<<w, k>> : w \in {u \in Workers : Holding(u, k)}}
Owns(w, k) == Holding(w, k) /\ <<w, k>> \notin revoked

\* The row of k is taken from whoever is executing it.
RevokeAll(k) == revoked' = revoked \cup Holders(k)

TypeOK ==
    /\ row \in [Keys -> Row]
    /\ pc \in [Workers -> PassStates]
    /\ stuck \in [Workers -> SUBSET StuckCopy]
    /\ exec \in [Workers -> [Keys -> Execution]]
    /\ call \in [Clients -> SUBSET Request]
    /\ revoked \subseteq Workers \X Keys
    /\ misjudged \subseteq Keys
    /\ spent \in [stalls : Nat, crashes : Nat, requests : Nat]

Init ==
    /\ row = [k \in Keys |-> NoRow]
    /\ pc = [w \in Workers |-> "up"]
    /\ stuck = [w \in Workers |-> {}]
    /\ exec = [w \in Workers |-> [k \in Keys |-> NoExecution]]
    /\ call = [c \in Clients |-> {}]
    /\ revoked = {}
    /\ misjudged = {}
    /\ spent = [stalls |-> 0, crashes |-> 0, requests |-> 0]

-----------------------------------------------------------------------------
(* Time.                                                                   *)

\* availableAt of a delayed row passes.
BecomeAvailable(k) ==
    /\ row[k].status = "PENDING" /\ ~row[k].ready
    /\ row' = [row EXCEPT ![k].ready = TRUE]
    /\ UNCHANGED <<pc, stuck, exec, call, revoked, misjudged, spent>>

\* The row of k has been RUNNING for STALE_RUNNING_JOB_MS.  For an execution
\* that still owns it this is a stall (a long download or pin).
GoStale(k) ==
    /\ row[k].status = "RUNNING" /\ ~row[k].stale
    /\ row' = [row EXCEPT ![k].stale = TRUE]
    /\ IF \A w \in Workers : ~Owns(w, k)
       THEN UNCHANGED spent
       ELSE /\ spent.stalls < MaxStalls
            /\ spent' = [spent EXCEPT !.stalls = @ + 1]
    /\ UNCHANGED <<pc, stuck, exec, call, revoked, misjudged>>

-----------------------------------------------------------------------------
(* A pass of processQueuedJobs.                                            *)

\* The previous pass is over when every job of its batch has been concluded.
Busy(w) == \E k \in Keys : exec[w][k].phase # "none"

\* Mutant: the pass starts without looking for stale rows.
BeginPassWithoutRecovery(w) ==
    /\ pc[w] = "up" /\ ~Busy(w)
    /\ pc' = [pc EXCEPT ![w] = "recovering"]
    /\ UNCHANGED <<row, stuck, exec, call, revoked, misjudged, spent>>

\* recoverStaleRunningJobs reads the stale rows.
BeginPass(w) ==
    /\ pc[w] = "up" /\ ~Busy(w)
    /\ pc' = [pc EXCEPT ![w] = "recovering"]
    /\ stuck' = [stuck EXCEPT ![w] =
           {[key |-> k, id |-> row[k].id, attempts |-> row[k].attempts] :
               k \in {j \in Keys : row[j].status = "RUNNING" /\ row[j].stale}}]
    /\ UNCHANGED <<row, exec, call, revoked, misjudged, spent>>

\* applyRunningJobRecovery for one of them: conditional on RUNNING only,
\* not on the row still being the stale one.
ApplyRecovery(w, c) ==
    /\ pc[w] = "recovering" /\ c \in stuck[w]
    /\ stuck' = [stuck EXCEPT ![w] = @ \ {c}]
    /\ IF Matches(row[c.key], c.id, "RUNNING")
       THEN /\ row' = [row EXCEPT ![c.key] = Recovered(@, c.attempts)]
            /\ RevokeAll(c.key)
            /\ misjudged' = IF c.attempts = row[c.key].attempts
                            THEN misjudged ELSE misjudged \cup {c.key}
       ELSE UNCHANGED <<row, revoked, misjudged>>
    /\ UNCHANGED <<pc, exec, call, spent>>

\* selectProcessableJobs ranks by priority and walks until the batch is
\* full.  Public jobs carry no artwork snapshot, so only automatic jobs can
\* be skipped (over budget, repair lane full, root already in the batch).
SelectJobs(w) ==
    LET candidates == {k \in Keys : isReadyPendingJob(row[k])}
        public == {k \in candidates : shouldBypassSmartBudget(row[k].priority)}
    IN  /\ pc[w] = "recovering" /\ stuck[w] = {}
        /\ pc' = [pc EXCEPT ![w] = "up"]
        /\ \E selected \in SUBSET candidates :
              /\ Cardinality(selected) <= BatchLimit
              /\ \/ public \subseteq selected
                 \/ /\ selected \subseteq public
                    /\ Cardinality(selected) = BatchLimit
              /\ exec' = [exec EXCEPT ![w] = [k \in Keys |->
                    IF k \in selected
                    THEN [NoExecution EXCEPT !.phase = "selected",
                              !.id = row[k].id, !.before = row[k].attempts]
                    ELSE NoExecution]]
        /\ UNCHANGED <<row, stuck, call, revoked, misjudged, spent>>

\* Mutant: the claim does not require the row to be PENDING.
ClaimUnconditionally(w, k) ==
    /\ exec[w][k].phase = "selected"
    /\ row' = [row EXCEPT ![k] = Claimed(@)]
    /\ exec' = [exec EXCEPT ![w][k].phase = "claimed"]
    /\ UNCHANGED <<pc, stuck, call, revoked, misjudged, spent>>

\* markJobRunning, first statement: claim the row if it is still PENDING.
MarkJobRunning(w, k) ==
    /\ exec[w][k].phase = "selected"
    /\ IF Matches(row[k], exec[w][k].id, "PENDING")
       THEN /\ row' = [row EXCEPT ![k] = Claimed(@)]
            /\ exec' = [exec EXCEPT ![w][k].phase = "claimed"]
       ELSE /\ exec' = [exec EXCEPT ![w][k] = NoExecution]
            /\ UNCHANGED row
    /\ UNCHANGED <<pc, stuck, call, revoked, misjudged, spent>>

\* markJobRunning, second statement: read the claimed row back.
ReadRunningJob(w, k) ==
    /\ exec[w][k].phase = "claimed"
    /\ IF row[k].id = exec[w][k].id /\ row[k].status # "ABSENT"
       THEN /\ exec' = [exec EXCEPT ![w][k] =
                  [@ EXCEPT !.phase = "running", !.attempts = row[k].attempts,
                            !.bypass = shouldBypassSmartBudget(row[k].priority)]]
            /\ UNCHANGED revoked
       ELSE /\ exec' = [exec EXCEPT ![w][k] = NoExecution]
            /\ revoked' = revoked \ {<<w, k>>}
    /\ UNCHANGED <<row, pc, stuck, call, misjudged, spent>>

\* runJob starts when every claim of the batch has been answered.
Processing(w, k) ==
    /\ exec[w][k].phase = "running"
    /\ \A j \in Keys : exec[w][j].phase \notin {"selected", "claimed"}

\* The end of runJob: outcome is written if the row is RUNNING, whoever
\* claimed it; judged says whether outcome was decided on the row's attempts.
Finalize(w, k, outcome, judged) ==
    /\ Processing(w, k)
    /\ exec' = [exec EXCEPT ![w][k] = NoExecution]
    /\ IF Matches(row[k], exec[w][k].id, "RUNNING")
       THEN /\ row' = [row EXCEPT ![k] = outcome]
            /\ revoked' = (revoked \cup Holders(k)) \ {<<w, k>>}
            /\ misjudged' = IF judged THEN misjudged ELSE misjudged \cup {k}
       ELSE /\ revoked' = revoked \ {<<w, k>>}
            /\ UNCHANGED <<row, misjudged>>
    /\ UNCHANGED <<pc, stuck, call, spent>>

FinalizeJobSuccess(w, k) == Finalize(w, k, Completed(row[k]), TRUE)

\* Only the smart budget and the retry cooldown defer, and neither applies
\* to an execution that was claimed at public priority.
FinalizeJobDeferred(w, k) ==
    /\ ~exec[w][k].bypass
    /\ Finalize(w, k, Deferred(row[k], exec[w][k].before),
                exec[w][k].before + 1 = row[k].attempts)

FinalizeJobFailure(w, k) ==
    Finalize(w, k, Retried(row[k], exec[w][k].attempts),
             exec[w][k].attempts = row[k].attempts)

\* While it runs, backupArtwork deletes the PENDING jobs of artworks that it
\* finds satisfied or gone (syncArtworksForRoot, removeMissingArtworkJobs).
DropPendingJobs(w, k, dropped) ==
    /\ Processing(w, k)
    /\ dropped # {} /\ \A j \in dropped : row[j].status = "PENDING"
    /\ row' = [j \in Keys |-> IF j \in dropped THEN Deleted(row[j]) ELSE row[j]]
    /\ misjudged' = misjudged \ dropped
    /\ UNCHANGED <<pc, stuck, exec, call, revoked, spent>>

\* The process dies: its batch is forgotten, its claimed rows stay RUNNING.
Crash(w) ==
    /\ pc[w] # "down" /\ spent.crashes < MaxCrashes
    /\ spent' = [spent EXCEPT !.crashes = @ + 1]
    /\ pc' = [pc EXCEPT ![w] = "down"]
    /\ stuck' = [stuck EXCEPT ![w] = {}]
    /\ exec' = [exec EXCEPT ![w] = [k \in Keys |-> NoExecution]]
    /\ revoked' = revoked \ ({w} \X Keys)
    /\ UNCHANGED <<row, call, misjudged>>

Restart(w) ==
    /\ pc[w] = "down"
    /\ pc' = [pc EXCEPT ![w] = "up"]
    /\ UNCHANGED <<row, stuck, exec, call, revoked, misjudged, spent>>

-----------------------------------------------------------------------------
(* queueJob, called through queueArtworkBackup.                            *)

\* The lookup by (kind, dedupeKey).  Only requeueDeferredArtworksForTier
\* passes an availableAt, at the automatic priority.
FindExisting(c, k, priority, availableNow) ==
    /\ availableNow => priority = BACKUP_PRIORITY
    /\ call[c] = {} /\ spent.requests < MaxRequests
    /\ spent' = [spent EXCEPT !.requests = @ + 1]
    /\ call' = [call EXCEPT ![c] =
           {[key |-> k, priority |-> priority, availableNow |-> availableNow,
             found |-> AsFound(row[k])]}]
    /\ UNCHANGED <<row, pc, stuck, exec, revoked, misjudged>>

Larger(a, b) == IF a >= b THEN a ELSE b

\* Mutant: the new priority replaces a higher one.
UpdatedActiveLowering(r, q) ==
    IF q.priority # q.found.priority
    THEN [r EXCEPT !.priority = q.priority, !.ready = TRUE]
    ELSE r

\* The row updateActiveExistingJob writes over r, decided on q.found.
UpdatedActive(r, q) ==
    LET pending == q.found.status = "PENDING"
        priorityIncreased == q.priority > q.found.priority
        pulledForward == pending /\ q.availableNow /\ ~q.found.ready
    IN  IF priorityIncreased \/ pulledForward
        THEN [r EXCEPT !.priority = Larger(q.found.priority, q.priority),
                       !.ready = @ \/ pulledForward
                                   \/ (priorityIncreased /\ pending)]
        ELSE r

\* create; a row that appeared since the lookup makes it fail on the unique
\* (kind, dedupeKey), and queueJob throws.
CreateNewQueueJob(q) ==
    /\ q.found.status = "ABSENT"
    /\ IF row[q.key].status = "ABSENT"
       THEN row' = [row EXCEPT ![q.key] = Created(@, q.priority)]
       ELSE UNCHANGED row
    /\ UNCHANGED <<revoked, misjudged>>

\* update by id, throwing if the row is gone.  Its status is not re-checked.
StillThere(q) == row[q.key].id = q.found.id /\ row[q.key].status # "ABSENT"

UpdateActiveExistingJob(q) ==
    /\ q.found.status \in ActiveStatuses
    /\ IF StillThere(q)
       THEN row' = [row EXCEPT ![q.key] = UpdatedActive(@, q)]
       ELSE UNCHANGED row
    /\ UNCHANGED <<revoked, misjudged>>

RequeueInactiveExistingJob(q) ==
    /\ q.found.status \in SettledStatuses
    /\ IF StillThere(q)
       THEN /\ row' = [row EXCEPT ![q.key] = Requeued(@, q.priority)]
            /\ RevokeAll(q.key)
            /\ misjudged' = misjudged \ {q.key}
       ELSE UNCHANGED <<row, revoked, misjudged>>

\* The write that ends the call, whichever branch the lookup chose.
WriteRequest(c, q) ==
    /\ q \in call[c]
    /\ call' = [call EXCEPT ![c] = @ \ {q}]
    /\ \/ CreateNewQueueJob(q)
       \/ UpdateActiveExistingJob(q)
       \/ RequeueInactiveExistingJob(q)
    /\ UNCHANGED <<pc, stuck, exec, spent>>

-----------------------------------------------------------------------------
Conclude(w, k) ==
    \/ FinalizeJobSuccess(w, k)
    \/ FinalizeJobDeferred(w, k)
    \/ FinalizeJobFailure(w, k)

\* The steps a running worker takes of its own accord.
WorkerStep(w) ==
    \/ BeginPass(w)
    \/ \E c \in stuck[w] : ApplyRecovery(w, c)
    \/ SelectJobs(w)
    \/ \E k \in Keys : MarkJobRunning(w, k) \/ ReadRunningJob(w, k)
                          \/ Conclude(w, k)

Next ==
    \/ \E k \in Keys : BecomeAvailable(k) \/ GoStale(k)
    \/ \E w \in Workers : WorkerStep(w) \/ Crash(w) \/ Restart(w)
    \/ \E w \in Workers, k \in Keys, dropped \in SUBSET Keys :
          DropPendingJobs(w, k, dropped)
    \/ \E c \in Clients, k \in Keys, p \in Priorities, now \in BOOLEAN :
          FindExisting(c, k, p, now)
    \/ \E c \in Clients : \E q \in call[c] : WriteRequest(c, q)

Spec == Init /\ [][Next]_vars

\* Time passes, a worker that is up carries on (scripts/worker.ts loops for
\* ever) and a caller reaches its write.  Nothing obliges a killed worker to
\* be started again, a user to ask, or an execution to stall.
Fairness ==
    /\ \A k \in Keys : WF_vars(BecomeAvailable(k))
    /\ WF_vars(\E k \in Keys : GoStale(k) /\ UNCHANGED spent)
    /\ \A w \in Workers : WF_vars(WorkerStep(w))
    /\ \A c \in Clients : WF_vars(\E q \in call[c] : WriteRequest(c, q))

FairSpec == Spec /\ Fairness

-----------------------------------------------------------------------------
(* Safety.                                                                 *)

\* An execution that nobody revoked still holds the very row it claimed,
\* RUNNING and with the attempts it read back after the claim, through every
\* interleaving with recoveries, requests, deletions and other workers.
ClaimHolds ==
    \A w \in Workers, k \in Keys :
        Owns(w, k) =>
            /\ Matches(row[k], exec[w][k].id, "RUNNING")
            /\ exec[w][k].phase = "running" =>
                  exec[w][k].attempts = row[k].attempts

\* The claim of markJobRunning is exclusive: an artwork has at most one
\* execution beyond those whose row was taken from them by a stale recovery,
\* by another execution's outcome or by a request that requeued a live row.
OneOwner ==
    \A k \in Keys : \A v, w \in Workers : Owns(v, k) /\ Owns(w, k) => v = w

\* Only an execution under way can have been revoked; a claim starts clean.
RevokedHold == \A w \in Workers, k \in Keys : <<w, k>> \in revoked => Holding(w, k)

ExclusiveClaim == ClaimHolds /\ OneOwner /\ RevokedHold

\* maxAttempts is respected by every row whose outcomes were all decided on
\* its own attempts: such a row is never claimed more than MaxAttempts times,
\* waits only while it has an attempt left, and fails only with none left.
WithinBudget(r) ==
    /\ r.attempts <= MaxAttempts
    /\ r.status = "PENDING" => r.attempts < MaxAttempts
    /\ r.status = "FAILED" => r.attempts = MaxAttempts

RetryBudget == \A k \in Keys \ misjudged : WithinBudget(row[k])

\* A settled row is reopened only from the start (a request, attempts 0): no
\* late outcome, recovery or claim of an older pass moves it.
SettledRowsStay ==
    [][\A k \in Keys :
          row[k].status \in SettledStatuses =>
              \/ /\ row'[k].status = row[k].status
                 /\ row'[k].attempts = row[k].attempts
              \/ row'[k].status = "PENDING" /\ row'[k].attempts = 0]_vars

\* A request whose lookup is still true when it writes leaves an active job
\* at least as urgent as it asked and as the job already was.
FreshRequestsHonoured ==
    [][\A c \in Clients : \A q \in call[c] :
          q \notin call'[c] /\ q.found = AsFound(row[q.key]) =>
              /\ row'[q.key].status \in ActiveStatuses
              /\ row'[q.key].priority >= q.priority
              /\ row[q.key].status \in ActiveStatuses =>
                    row'[q.key].priority >= row[q.key].priority]_vars

\* What policy.ts promises of queueArtworkBackup, "callers can't
\* double-queue": two workers never execute one artwork at once.
NoDoubleExecution ==
    \A k \in Keys : \A v, w \in Workers : Holding(v, k) /\ Holding(w, k) => v = w

-----------------------------------------------------------------------------
(* Liveness.                                                               *)

\* A RUNNING row is concluded or, if its worker died, recovered: no row
\* stays RUNNING for ever ([]<>~P is P ~> ~P).
RunningSettles == \A k \in Keys : []<>(row[k].status # "RUNNING")

PublicActive(k) == /\ row[k].status \in ActiveStatuses
                   /\ shouldBypassSmartBudget(row[k].priority)

\* A public job is concluded, deleted as satisfied or overwritten by a less
\* urgent request, whatever the other jobs and the failing workers do.
PublicJobSettles == \A k \in Keys : []<>~PublicActive(k)
=============================================================================
