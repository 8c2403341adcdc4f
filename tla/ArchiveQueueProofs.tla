------------------------- MODULE ArchiveQueueProofs -------------------------
(***************************************************************************)
(* Theorems about ArchiveQueue, for every set of artworks, workers and     *)
(* clients and every value of the other constants, and, at the end, about  *)
(* its composition with any number of rebalancers.                         *)
(***************************************************************************)
EXTENDS ArchiveQueueLifecycle, QueueRebalancer, FiniteSetTheorems, TLAPS

-----------------------------------------------------------------------------
(* The statements of QueueRows map rows to rows.                           *)

LEMMA RowWritesAreRows ==
    ASSUME NEW r \in Row, NEW p \in Priorities, NEW n \in Nat
    PROVE  /\ Created(r, p) \in Row
           /\ Requeued(r, p) \in Row
           /\ Claimed(r) \in Row
           /\ Recovered(r, n) \in Row
           /\ Completed(r) \in Row
           /\ Deferred(r, n) \in Row
           /\ Retried(r, n) \in Row
           /\ Deleted(r) \in Row
<1> USE DEF Row, Statuses, ActiveStatuses, SettledStatuses, NoRow
<1>1. BACKUP_PRIORITY \in Priorities
  BY DEF Priorities
<1>2. Created(r, p) \in Row /\ Deleted(r) \in Row
  <2>1. r.id \in Nat /\ r.id + 1 \in Nat
    OBVIOUS
  <2>2. Created(r, p) \in Row
    BY <1>1, <2>1 DEF Created
  <2>3. Deleted(r) \in Row
    BY <1>1, <2>1 DEF Deleted
  <2> QED BY <2>2, <2>3
<1>3. Requeued(r, p) \in Row /\ Claimed(r) \in Row /\ Completed(r) \in Row
  <2>1. Requeued(r, p) \in Row
    BY DEF Requeued
  <2>2. Claimed(r) \in Row
    <3>1. r.attempts + 1 \in Nat
      OBVIOUS
    <3> QED BY <3>1 DEF Claimed
  <2>3. Completed(r) \in Row
    BY DEF Completed
  <2> QED BY <2>1, <2>2, <2>3
<1>4. Recovered(r, n) \in Row /\ Retried(r, n) \in Row
  BY DEF Recovered, Retried
<1>5. (IF n > 0 THEN n - 1 ELSE 0) \in Nat
  OBVIOUS
<1>6. Deferred(r, n) \in Row
  BY <1>5 DEF Deferred
<1> QED BY <1>2, <1>3, <1>4, <1>6

LEMMA UpdatedActiveIsRow ==
    ASSUME NEW r \in Row, NEW q \in Request
    PROVE  UpdatedActive(r, q) \in Row
<1>1. Larger(q.found.priority, q.priority) \in Priorities
  BY DEF Larger, Request, Found
<1> QED BY <1>1 DEF UpdatedActive, Row

LEMMA NoRowIsRow == NoRow \in Row
BY DEF NoRow, Row, Statuses, Priorities

LEMMA NoExecutionIsExecution == NoExecution \in Execution
BY DEF NoExecution, Execution, Phases

LEMMA ExecutionPhases ==
    ASSUME NEW e \in Execution, NEW n \in Nat, NEW b \in BOOLEAN
    PROVE  /\ [e EXCEPT !.phase = "claimed"] \in Execution
           /\ [e EXCEPT !.phase = "running", !.attempts = n, !.bypass = b]
                 \in Execution
BY DEF Execution, Phases

\* Replacing one job of one batch.
LEMMA BatchUpdate ==
    ASSUME NEW f \in [Workers -> [Keys -> Execution]],
           NEW w \in Workers, NEW k \in Keys, NEW e \in Execution
    PROVE  [f EXCEPT ![w][k] = e] \in [Workers -> [Keys -> Execution]]
OBVIOUS

LEMMA AsFoundIsFound == \A r \in Row : AsFound(r) \in Found
BY DEF AsFound, Found, Row

-----------------------------------------------------------------------------
(* Type correctness.                                                       *)

LEMMA FinalizeTyped ==
    ASSUME TypeOK, NEW w \in Workers, NEW k \in Keys,
           NEW outcome \in Row, NEW judged, Finalize(w, k, outcome, judged)
    PROVE  TypeOK'
<1>1. exec' \in [Workers -> [Keys -> Execution]]
  BY NoExecutionIsExecution DEF TypeOK, Finalize
<1>2. row' \in [Keys -> Row]
  BY DEF TypeOK, Finalize
<1>3. revoked' \subseteq Workers \X Keys /\ misjudged' \subseteq Keys
  BY DEF TypeOK, Finalize, Holders
<1> QED BY <1>1, <1>2, <1>3 DEF TypeOK, Finalize

LEMMA TypeStep == TypeOK /\ [Next]_vars => TypeOK'
<1> SUFFICES ASSUME TypeOK, [Next]_vars PROVE TypeOK'
  OBVIOUS
<1>1. ASSUME NEW k \in Keys, BecomeAvailable(k) PROVE TypeOK'
  BY <1>1 DEF BecomeAvailable, TypeOK, Row
<1>2. ASSUME NEW k \in Keys, GoStale(k) PROVE TypeOK'
  <2>1. row' \in [Keys -> Row]
    BY <1>2 DEF GoStale, TypeOK, Row
  <2>2. spent' \in [stalls : Nat, crashes : Nat, requests : Nat]
    BY <1>2 DEF GoStale, TypeOK
  <2> QED BY <1>2, <2>1, <2>2 DEF GoStale, TypeOK
<1>3. ASSUME NEW w \in Workers, BeginPass(w) PROVE TypeOK'
  <2>1. \A k \in Keys : [key |-> k, id |-> row[k].id,
                         attempts |-> row[k].attempts] \in StuckCopy
    BY DEF TypeOK, Row, StuckCopy
  <2> QED BY <1>3, <2>1 DEF BeginPass, TypeOK, PassStates
<1>4. ASSUME NEW w \in Workers, NEW c \in stuck[w], ApplyRecovery(w, c)
      PROVE TypeOK'
  <2>1. c \in StuckCopy /\ c.key \in Keys /\ c.attempts \in Nat
    BY DEF TypeOK, StuckCopy
  <2>2. Recovered(row[c.key], c.attempts) \in Row
    BY <2>1, RowWritesAreRows DEF TypeOK, Priorities
  <2>3. row' \in [Keys -> Row]
    BY <1>4, <2>1, <2>2 DEF ApplyRecovery, TypeOK
  <2>4. revoked' \subseteq Workers \X Keys /\ misjudged' \subseteq Keys
    BY <1>4, <2>1 DEF ApplyRecovery, TypeOK, RevokeAll, Holders
  <2>5. stuck' \in [Workers -> SUBSET StuckCopy]
    BY <1>4 DEF ApplyRecovery, TypeOK
  <2> QED BY <1>4, <2>3, <2>4, <2>5 DEF ApplyRecovery, TypeOK
<1>5. ASSUME NEW w \in Workers, SelectJobs(w) PROVE TypeOK'
  <2>1. \A k \in Keys : [NoExecution EXCEPT !.phase = "selected",
            !.id = row[k].id, !.before = row[k].attempts] \in Execution
    BY DEF TypeOK, Row, NoExecution, Execution, Phases
  <2>2. PICK selected \in SUBSET Keys :
           exec' = [exec EXCEPT ![w] = [k \in Keys |->
                IF k \in selected
                THEN [NoExecution EXCEPT !.phase = "selected",
                          !.id = row[k].id, !.before = row[k].attempts]
                ELSE NoExecution]]
    BY <1>5 DEF SelectJobs
  <2>3. exec' \in [Workers -> [Keys -> Execution]]
    BY <2>1, <2>2, NoExecutionIsExecution DEF TypeOK
  <2> QED BY <1>5, <2>3 DEF SelectJobs, TypeOK, PassStates
<1>6. ASSUME NEW w \in Workers, NEW k \in Keys, MarkJobRunning(w, k)
      PROVE TypeOK'
  <2>1. Claimed(row[k]) \in Row
    BY RowWritesAreRows DEF TypeOK, Priorities
  <2>2. row' \in [Keys -> Row]
    BY <1>6, <2>1 DEF MarkJobRunning, TypeOK
  <2>3. exec' \in [Workers -> [Keys -> Execution]]
    <3>1. exec[w][k] \in Execution
      BY DEF TypeOK
    <3>2. [exec[w][k] EXCEPT !.phase = "claimed"] \in Execution
      BY <3>1, ExecutionPhases
    <3>3. PICK e \in Execution : exec' = [exec EXCEPT ![w][k] = e]
      BY <1>6, <3>1, <3>2, NoExecutionIsExecution DEF MarkJobRunning, TypeOK
    <3> QED BY <3>3, BatchUpdate DEF TypeOK
  <2> QED BY <1>6, <2>2, <2>3 DEF MarkJobRunning, TypeOK
<1>7. ASSUME NEW w \in Workers, NEW k \in Keys, ReadRunningJob(w, k)
      PROVE TypeOK'
  <2>1. exec' \in [Workers -> [Keys -> Execution]]
    <3> DEFINE bypass == shouldBypassSmartBudget(row[k].priority)
    <3>1. /\ exec[w][k] \in Execution
          /\ row[k].attempts \in Nat
          /\ bypass \in BOOLEAN
      BY DEF TypeOK, Row, shouldBypassSmartBudget
    <3>2. [exec[w][k] EXCEPT !.phase = "running", !.attempts = row[k].attempts,
              !.bypass = bypass] \in Execution
      BY <3>1, ExecutionPhases
    <3>3. \/ exec' = [exec EXCEPT ![w][k] = NoExecution]
          \/ exec' = [exec EXCEPT ![w][k] =
                         [exec[w][k] EXCEPT !.phase = "running",
                            !.attempts = row[k].attempts, !.bypass = bypass]]
      BY <1>7, <3>1 DEF ReadRunningJob, TypeOK
    <3> QED BY <3>2, <3>3, NoExecutionIsExecution, BatchUpdate DEF TypeOK
  <2>2. revoked' \subseteq Workers \X Keys
    BY <1>7 DEF ReadRunningJob, TypeOK
  <2> QED BY <1>7, <2>1, <2>2 DEF ReadRunningJob, TypeOK
<1>8. ASSUME NEW w \in Workers, NEW k \in Keys, Conclude(w, k) PROVE TypeOK'
  <2>1. /\ Completed(row[k]) \in Row
        /\ Deferred(row[k], exec[w][k].before) \in Row
        /\ Retried(row[k], exec[w][k].attempts) \in Row
    <3>1. /\ row[k] \in Row
          /\ exec[w][k].before \in Nat /\ exec[w][k].attempts \in Nat
      BY DEF TypeOK, Execution
    <3> QED BY <3>1, RowWritesAreRows DEF Priorities
  <2> QED BY <1>8, <2>1, FinalizeTyped
          DEF Conclude, FinalizeJobSuccess, FinalizeJobDeferred, FinalizeJobFailure
<1>9. ASSUME NEW w \in Workers, NEW k \in Keys, NEW dropped \in SUBSET Keys,
             DropPendingJobs(w, k, dropped)
      PROVE TypeOK'
  <2>1. \A j \in Keys : Deleted(row[j]) \in Row
    BY RowWritesAreRows DEF TypeOK, Priorities
  <2> QED BY <1>9, <2>1 DEF DropPendingJobs, TypeOK
<1>10. ASSUME NEW w \in Workers, Crash(w) PROVE TypeOK'
  BY <1>10, NoExecutionIsExecution DEF Crash, TypeOK, PassStates
<1>11. ASSUME NEW w \in Workers, Restart(w) PROVE TypeOK'
  BY <1>11 DEF Restart, TypeOK, PassStates
<1>12. ASSUME NEW c \in Clients, NEW k \in Keys, NEW p \in Priorities,
              NEW now \in BOOLEAN, FindExisting(c, k, p, now)
       PROVE TypeOK'
  <2>1. [key |-> k, priority |-> p, availableNow |-> now,
         found |-> AsFound(row[k])] \in Request
    BY AsFoundIsFound DEF TypeOK, Request
  <2> QED BY <1>12, <2>1 DEF FindExisting, TypeOK
<1>13. ASSUME NEW c \in Clients, NEW q \in call[c], WriteRequest(c, q)
       PROVE TypeOK'
  <2>1. q \in Request /\ q.key \in Keys /\ q.priority \in Priorities
    BY DEF TypeOK, Request
  <2>2. /\ Created(row[q.key], q.priority) \in Row
        /\ Requeued(row[q.key], q.priority) \in Row
        /\ UpdatedActive(row[q.key], q) \in Row
    BY <2>1, RowWritesAreRows, UpdatedActiveIsRow DEF TypeOK
  <2>3. row' \in [Keys -> Row]
    BY <1>13, <2>1, <2>2
       DEF WriteRequest, CreateNewQueueJob, UpdateActiveExistingJob,
           RequeueInactiveExistingJob, TypeOK
  <2>4. revoked' \subseteq Workers \X Keys /\ misjudged' \subseteq Keys
    BY <1>13, <2>1
       DEF WriteRequest, CreateNewQueueJob, UpdateActiveExistingJob,
           RequeueInactiveExistingJob, TypeOK, RevokeAll, Holders
  <2>5. call' \in [Clients -> SUBSET Request]
    BY <1>13 DEF WriteRequest, TypeOK
  <2> QED BY <1>13, <2>3, <2>4, <2>5 DEF WriteRequest, TypeOK
<1>14. CASE UNCHANGED vars
  BY <1>14 DEF vars, TypeOK
<1> QED
  BY <1>1, <1>2, <1>3, <1>4, <1>5, <1>6, <1>7, <1>8, <1>9, <1>10, <1>11,
     <1>12, <1>13, <1>14 DEF Next, WorkerStep

\* The table, the passes, the batches, the calls in flight and the histories
\* keep their types.
THEOREM TypeCorrect == Spec => []TypeOK
<1>1. Init => TypeOK
  BY NoRowIsRow, NoExecutionIsExecution DEF Init, TypeOK, PassStates
<1> QED BY <1>1, TypeStep, PTL DEF Spec

-----------------------------------------------------------------------------
(* The retry budget.  RetryBudget is inductive over typed states: every    *)
(* write either starts a row over, leaves its attempts and status alone,   *)
(* or is decided on the attempts the row has (else the row is misjudged).  *)

LEMMA RowWritesKeepBudget ==
    ASSUME NEW r \in Row, NEW p \in Priorities, NEW n \in Nat
    PROVE  /\ WithinBudget(Created(r, p))
           /\ WithinBudget(Requeued(r, p))
           /\ WithinBudget(Deleted(r))
           /\ r.status = "PENDING" /\ WithinBudget(r) => WithinBudget(Claimed(r))
           /\ WithinBudget(r) => WithinBudget(Completed(r))
           /\ WithinBudget(r) /\ n = r.attempts =>
                 WithinBudget(Recovered(r, n)) /\ WithinBudget(Retried(r, n))
           /\ WithinBudget(r) /\ n + 1 = r.attempts =>
                 WithinBudget(Deferred(r, n))
<1> USE MaxAttemptsAssumption DEF WithinBudget, Row
<1>1. WithinBudget(Created(r, p)) /\ WithinBudget(Requeued(r, p))
        /\ WithinBudget(Deleted(r))
  BY DEF Created, Requeued, Deleted, NoRow
<1>2. r.status = "PENDING" /\ WithinBudget(r) => WithinBudget(Claimed(r))
  BY DEF Claimed
<1>3. WithinBudget(r) => WithinBudget(Completed(r))
  BY DEF Completed
<1>4. WithinBudget(r) /\ n = r.attempts =>
        WithinBudget(Recovered(r, n)) /\ WithinBudget(Retried(r, n))
  BY DEF Recovered, Retried, exhausted
<1>5. WithinBudget(r) /\ n + 1 = r.attempts => WithinBudget(Deferred(r, n))
  BY DEF Deferred
<1> QED BY <1>1, <1>2, <1>3, <1>4, <1>5

LEMMA UpdatedActiveKeeps ==
    ASSUME NEW r \in Row, NEW q \in Request
    PROVE  /\ UpdatedActive(r, q).id = r.id
           /\ UpdatedActive(r, q).status = r.status
           /\ UpdatedActive(r, q).attempts = r.attempts
BY DEF UpdatedActive, Row

\* The steps that end an execution.
LEMMA FinalizeKeepsBudget ==
    ASSUME TypeOK, RetryBudget, NEW w \in Workers, NEW k \in Keys,
           NEW outcome, NEW judged, Finalize(w, k, outcome, judged),
           row[k].status = "RUNNING" /\ WithinBudget(row[k]) /\ judged =>
              WithinBudget(outcome)
    PROVE  RetryBudget'
<1>1. CASE Matches(row[k], exec[w][k].id, "RUNNING")
  <2>1. row' = [row EXCEPT ![k] = outcome] /\ row[k].status = "RUNNING"
    BY <1>1 DEF Finalize, Matches
  <2>2. misjudged' = IF judged THEN misjudged ELSE misjudged \cup {k}
    BY <1>1 DEF Finalize
  <2> QED BY <2>1, <2>2 DEF RetryBudget, TypeOK
<1>2. CASE ~Matches(row[k], exec[w][k].id, "RUNNING")
  BY <1>2 DEF Finalize, RetryBudget
<1> QED BY <1>1, <1>2

LEMMA BudgetStep == TypeOK /\ RetryBudget /\ [Next]_vars => RetryBudget'
<1> SUFFICES ASSUME TypeOK, RetryBudget, [Next]_vars PROVE RetryBudget'
  OBVIOUS
<1>1. ASSUME NEW k \in Keys, BecomeAvailable(k) \/ GoStale(k)
      PROVE RetryBudget'
  <2>1. UNCHANGED misjudged
    BY <1>1 DEF BecomeAvailable, GoStale
  <2>2. \A j \in Keys : /\ row'[j].status = row[j].status
                         /\ row'[j].attempts = row[j].attempts
    BY <1>1 DEF BecomeAvailable, GoStale, TypeOK, Row
  <2> QED BY <2>1, <2>2 DEF RetryBudget, WithinBudget
<1>2. ASSUME NEW w \in Workers, NEW c \in stuck[w], ApplyRecovery(w, c)
      PROVE RetryBudget'
  <2>1. c.key \in Keys /\ c.attempts \in Nat /\ row[c.key] \in Row
    BY DEF TypeOK, StuckCopy
  <2>2. CASE Matches(row[c.key], c.id, "RUNNING")
    <3>1. row' = [row EXCEPT ![c.key] = Recovered(row[c.key], c.attempts)]
      BY <1>2, <2>2 DEF ApplyRecovery
    <3>2. misjudged' = IF c.attempts = row[c.key].attempts
                       THEN misjudged ELSE misjudged \cup {c.key}
      BY <1>2, <2>2 DEF ApplyRecovery
    <3>3. WithinBudget(row[c.key]) /\ c.attempts = row[c.key].attempts =>
            WithinBudget(Recovered(row[c.key], c.attempts))
      BY <2>1, RowWritesKeepBudget DEF Priorities
    <3> QED BY <2>1, <3>1, <3>2, <3>3 DEF RetryBudget, TypeOK
  <2>3. CASE ~Matches(row[c.key], c.id, "RUNNING")
    BY <1>2, <2>3 DEF ApplyRecovery, RetryBudget
  <2> QED BY <2>2, <2>3
<1>3. ASSUME NEW w \in Workers, NEW k \in Keys, MarkJobRunning(w, k)
      PROVE RetryBudget'
  <2>1. row[k] \in Row /\ UNCHANGED misjudged
    BY <1>3 DEF TypeOK, MarkJobRunning
  <2>2. row[k].status = "PENDING" /\ WithinBudget(row[k]) =>
          WithinBudget(Claimed(row[k]))
    BY <2>1, RowWritesKeepBudget DEF Priorities
  <2> QED BY <1>3, <2>1, <2>2 DEF MarkJobRunning, Matches, RetryBudget, TypeOK
<1>4. ASSUME NEW w \in Workers, NEW k \in Keys, Conclude(w, k)
      PROVE RetryBudget'
  <2>1. /\ row[k] \in Row
        /\ exec[w][k].before \in Nat /\ exec[w][k].attempts \in Nat
    BY DEF TypeOK, Execution
  <2>2. /\ WithinBudget(row[k]) => WithinBudget(Completed(row[k]))
        /\ WithinBudget(row[k]) /\ exec[w][k].before + 1 = row[k].attempts =>
              WithinBudget(Deferred(row[k], exec[w][k].before))
        /\ WithinBudget(row[k]) /\ exec[w][k].attempts = row[k].attempts =>
              WithinBudget(Retried(row[k], exec[w][k].attempts))
    BY <2>1, RowWritesKeepBudget DEF Priorities
  <2> QED BY <1>4, <2>2, FinalizeKeepsBudget
          DEF Conclude, FinalizeJobSuccess, FinalizeJobDeferred, FinalizeJobFailure
<1>5. ASSUME NEW w \in Workers, NEW k \in Keys, NEW dropped \in SUBSET Keys,
             DropPendingJobs(w, k, dropped)
      PROVE RetryBudget'
  <2>1. \A j \in Keys : WithinBudget(Deleted(row[j]))
    BY RowWritesKeepBudget DEF TypeOK, Priorities
  <2> QED BY <1>5, <2>1 DEF DropPendingJobs, RetryBudget
<1>6. ASSUME NEW c \in Clients, NEW q \in call[c], WriteRequest(c, q)
      PROVE RetryBudget'
  <2>1. /\ q \in Request /\ q.key \in Keys /\ q.priority \in Priorities
        /\ row[q.key] \in Row
    BY DEF TypeOK, Request
  <2>2. CASE CreateNewQueueJob(q)
    <3>1. WithinBudget(Created(row[q.key], q.priority))
      BY <2>1, RowWritesKeepBudget
    <3> QED BY <2>1, <2>2, <3>1 DEF CreateNewQueueJob, RetryBudget, TypeOK
  <2>3. CASE UpdateActiveExistingJob(q)
    <3>1. WithinBudget(row[q.key]) => WithinBudget(UpdatedActive(row[q.key], q))
      BY <2>1, UpdatedActiveKeeps DEF WithinBudget
    <3> QED BY <2>1, <2>3, <3>1 DEF UpdateActiveExistingJob, RetryBudget, TypeOK
  <2>4. CASE RequeueInactiveExistingJob(q)
    <3>1. WithinBudget(Requeued(row[q.key], q.priority))
      BY <2>1, RowWritesKeepBudget
    <3> QED BY <2>1, <2>4, <3>1 DEF RequeueInactiveExistingJob, RetryBudget, TypeOK
  <2> QED BY <1>6, <2>2, <2>3, <2>4 DEF WriteRequest
<1>7. CASE UNCHANGED <<row, misjudged>>
  BY <1>7 DEF RetryBudget
<1>8. \/ \E k \in Keys : BecomeAvailable(k) \/ GoStale(k)
      \/ \E w \in Workers : \E c \in stuck[w] : ApplyRecovery(w, c)
      \/ \E w \in Workers, k \in Keys : MarkJobRunning(w, k) \/ Conclude(w, k)
      \/ \E w \in Workers, k \in Keys, dropped \in SUBSET Keys :
            DropPendingJobs(w, k, dropped)
      \/ \E c \in Clients : \E q \in call[c] : WriteRequest(c, q)
      \/ UNCHANGED <<row, misjudged>>
  BY DEF Next, WorkerStep, vars, BeginPass, SelectJobs, ReadRunningJob, Crash,
         Restart, FindExisting
<1> QED BY <1>1, <1>2, <1>3, <1>4, <1>5, <1>6, <1>7, <1>8

\* However recoveries, late outcomes, requests and claims interleave, a row
\* whose outcomes were decided on its own attempts never exceeds maxAttempts.
THEOREM RetryBudgetHolds == Spec => []RetryBudget
<1>1. Init => RetryBudget
  BY MaxAttemptsAssumption DEF Init, RetryBudget, WithinBudget, NoRow
<1>2. TypeOK /\ RetryBudget /\ [Next]_vars => RetryBudget'
  BY BudgetStep
<1> QED BY <1>1, <1>2, TypeCorrect, PTL DEF Spec

-----------------------------------------------------------------------------
(* Exclusive claims.  ExclusiveClaim is inductive over typed states: a     *)
(* claim needs a PENDING row, which by ClaimHolds nobody owns, and every   *)
(* other write to a RUNNING row revokes the executions that hold it.       *)

\* A worker that recovers stale rows, or is down, has no batch.
IdleOutsideBatch == \A w \in Workers : pc[w] # "up" => ~Busy(w)

LEMMA IdleStep == TypeOK /\ IdleOutsideBatch /\ [Next]_vars => IdleOutsideBatch'
<1> SUFFICES ASSUME TypeOK, IdleOutsideBatch, [Next]_vars PROVE IdleOutsideBatch'
  OBVIOUS
<1> USE DEF IdleOutsideBatch, Busy
<1>1. ASSUME NEW w \in Workers, BeginPass(w) PROVE IdleOutsideBatch'
  BY <1>1 DEF BeginPass, TypeOK
<1>2. ASSUME NEW w \in Workers, SelectJobs(w) PROVE IdleOutsideBatch'
  <2>1. /\ pc' = [pc EXCEPT ![w] = "up"]
        /\ \A v \in Workers \ {w} : exec'[v] = exec[v]
    BY <1>2 DEF SelectJobs, TypeOK
  <2> QED BY <2>1 DEF TypeOK
<1>3. ASSUME NEW w \in Workers, NEW k \in Keys,
             MarkJobRunning(w, k) \/ ReadRunningJob(w, k) \/ Conclude(w, k)
      PROVE IdleOutsideBatch'
  <2>1. UNCHANGED pc /\ exec[w][k].phase # "none"
    BY <1>3 DEF MarkJobRunning, ReadRunningJob, Conclude, FinalizeJobSuccess,
                FinalizeJobDeferred, FinalizeJobFailure, Finalize, Processing
  <2>2. \A v \in Workers \ {w} : exec'[v] = exec[v]
    BY <1>3 DEF MarkJobRunning, ReadRunningJob, Conclude, FinalizeJobSuccess,
                FinalizeJobDeferred, FinalizeJobFailure, Finalize, TypeOK
  <2> QED BY <2>1, <2>2
<1>4. ASSUME NEW w \in Workers, Crash(w) PROVE IdleOutsideBatch'
  BY <1>4 DEF Crash, TypeOK, NoExecution
<1>5. ASSUME NEW w \in Workers, Restart(w) PROVE IdleOutsideBatch'
  BY <1>5 DEF Restart, TypeOK
<1>6. CASE UNCHANGED <<pc, exec>>
  BY <1>6
<1> QED
  BY <1>1, <1>2, <1>3, <1>4, <1>5, <1>6
     DEF Next, WorkerStep, vars, BecomeAvailable, GoStale, ApplyRecovery,
         DropPendingJobs, FindExisting, WriteRequest

\* processQueuedJobs recovers stale rows only before it has chosen a batch,
\* and a killed process takes its batch with it.
THEOREM IdleHolds == Spec => []IdleOutsideBatch
<1>1. Init => IdleOutsideBatch
  BY DEF Init, IdleOutsideBatch, Busy, NoExecution
<1>2. TypeOK /\ IdleOutsideBatch /\ [Next]_vars => IdleOutsideBatch'
  BY IdleStep
<1> QED BY <1>1, <1>2, TypeCorrect, PTL DEF Spec

\* A write to rows nobody owns, or one that leaves id, status and attempts
\* alone, disturbs no claim.
LEMMA QuietWrite ==
    ASSUME ExclusiveClaim, UNCHANGED <<exec, revoked>>,
           \A w \in Workers, k \in Keys : Owns(w, k) =>
              /\ row'[k].id = row[k].id
              /\ row'[k].status = row[k].status
              /\ row'[k].attempts = row[k].attempts
    PROVE  ExclusiveClaim'
BY DEF ExclusiveClaim, ClaimHolds, OneOwner, RevokedHold, Owns, Holding, Matches

\* A write that takes the row of k from its executions.
LEMMA RevokingWrite ==
    ASSUME TypeOK, ExclusiveClaim, UNCHANGED exec, NEW k \in Keys, RevokeAll(k),
           \A j \in Keys \ {k} : row'[j] = row[j]
    PROVE  ExclusiveClaim'
<1>1. \A w \in Workers, j \in Keys : Owns(w, j)' => j # k /\ Owns(w, j)
  BY DEF RevokeAll, Holders, Owns, Holding
<1>2. \A w \in Workers, j \in Keys : <<w, j>> \in revoked' => Holding(w, j)'
  BY DEF RevokeAll, Holders, Holding, ExclusiveClaim, RevokedHold
<1>3. ClaimHolds' /\ OneOwner'
  BY <1>1 DEF ExclusiveClaim, ClaimHolds, OneOwner, Matches
<1> QED BY <1>2, <1>3 DEF ExclusiveClaim, RevokedHold

\* Executions that end without touching any other one.
LEMMA EndedExecutions ==
    ASSUME ExclusiveClaim, UNCHANGED row,
           \A w \in Workers, k \in Keys :
              \/ exec'[w][k] = NoExecution /\ <<w, k>> \notin revoked'
              \/ /\ exec'[w][k] = exec[w][k]
                 /\ <<w, k>> \in revoked' <=> <<w, k>> \in revoked
    PROVE  ExclusiveClaim'
<1>1. \A w \in Workers, k \in Keys :
        Owns(w, k)' => Owns(w, k) /\ exec'[w][k] = exec[w][k]
  BY DEF Owns, Holding, NoExecution
<1>2. RevokedHold'
  BY DEF ExclusiveClaim, RevokedHold, Holding
<1> QED BY <1>1, <1>2 DEF ExclusiveClaim, ClaimHolds, OneOwner, Matches

LEMMA FinalizeExclusive ==
    ASSUME TypeOK, ExclusiveClaim, NEW w \in Workers, NEW k \in Keys,
           NEW outcome, NEW judged, Finalize(w, k, outcome, judged)
    PROVE  ExclusiveClaim'
<1>1. CASE ~Matches(row[k], exec[w][k].id, "RUNNING")
  <2>1. UNCHANGED row /\ revoked' = revoked \ {<<w, k>>}
    BY <1>1 DEF Finalize
  <2>2. \A v \in Workers, j \in Keys :
          IF v = w /\ j = k THEN exec'[v][j] = NoExecution
                           ELSE exec'[v][j] = exec[v][j]
    BY DEF Finalize, TypeOK
  <2> QED BY <2>1, <2>2, EndedExecutions
<1>2. CASE Matches(row[k], exec[w][k].id, "RUNNING")
  <2>1. /\ revoked' = (revoked \cup Holders(k)) \ {<<w, k>>}
        /\ row' = [row EXCEPT ![k] = outcome]
        /\ exec' = [exec EXCEPT ![w][k] = NoExecution]
    BY <1>2 DEF Finalize
  <2>2. \A v \in Workers, j \in Keys :
          IF v = w /\ j = k THEN exec'[v][j] = NoExecution
                           ELSE exec'[v][j] = exec[v][j]
    BY <2>1 DEF TypeOK
  <2>3. \A v \in Workers, j \in Keys :
          Owns(v, j)' => /\ j # k /\ Owns(v, j)
                         /\ exec'[v][j] = exec[v][j] /\ row'[j] = row[j]
    BY <2>1, <2>2 DEF Owns, Holding, Holders, NoExecution, TypeOK
  <2>4. RevokedHold'
    BY <2>1, <2>2 DEF ExclusiveClaim, RevokedHold, Holding, Holders
  <2> QED BY <2>3, <2>4 DEF ExclusiveClaim, ClaimHolds, OneOwner, Matches
<1> QED BY <1>1, <1>2

LEMMA ClaimExclusive ==
    ASSUME TypeOK, ExclusiveClaim, NEW w \in Workers, NEW k \in Keys,
           MarkJobRunning(w, k)
    PROVE  ExclusiveClaim'
<1>1. ~Holding(w, k) /\ <<w, k>> \notin revoked
  BY DEF MarkJobRunning, Holding, ExclusiveClaim, RevokedHold
<1>2. UNCHANGED revoked
  BY DEF MarkJobRunning
<1>3. CASE Matches(row[k], exec[w][k].id, "PENDING")
  <2>1. \A v \in Workers : ~Owns(v, k)
    BY <1>3 DEF ExclusiveClaim, ClaimHolds, Matches
  <2>2. /\ row' = [row EXCEPT ![k] = Claimed(row[k])]
        /\ exec' = [exec EXCEPT ![w][k].phase = "claimed"]
    BY <1>3 DEF MarkJobRunning
  <2>3. \A v \in Workers, j \in Keys :
          ~(v = w /\ j = k) => exec'[v][j] = exec[v][j]
    BY <2>2 DEF TypeOK
  <2>4. exec'[w][k].phase = "claimed" /\ exec'[w][k].id = exec[w][k].id
    BY <2>2 DEF TypeOK, Execution
  <2>5. row'[k].status = "RUNNING" /\ row'[k].id = row[k].id
    BY <2>2 DEF TypeOK, Claimed, Row
  <2>6. \A v \in Workers, j \in Keys :
          Owns(v, j)' => \/ v = w /\ j = k
                         \/ j # k /\ Owns(v, j) /\ row'[j] = row[j]
    BY <1>2, <2>1, <2>2, <2>3 DEF Owns, Holding, TypeOK
  <2>7. ClaimHolds'
    BY <1>3, <2>3, <2>4, <2>5, <2>6 DEF ExclusiveClaim, ClaimHolds, Matches
  <2>8. OneOwner'
    BY <2>6 DEF ExclusiveClaim, OneOwner
  <2>9. RevokedHold'
    BY <1>1, <1>2, <2>3 DEF ExclusiveClaim, RevokedHold, Holding
  <2> QED BY <2>7, <2>8, <2>9 DEF ExclusiveClaim
<1>4. CASE ~Matches(row[k], exec[w][k].id, "PENDING")
  <2>1. UNCHANGED row /\ revoked' = revoked \ {<<w, k>>}
    BY <1>1, <1>4 DEF MarkJobRunning
  <2>2. \A v \in Workers, j \in Keys :
          IF v = w /\ j = k THEN exec'[v][j] = NoExecution
                           ELSE exec'[v][j] = exec[v][j]
    BY <1>4 DEF MarkJobRunning, TypeOK
  <2> QED BY <2>1, <2>2, EndedExecutions
<1> QED BY <1>3, <1>4

LEMMA ReadBackExclusive ==
    ASSUME TypeOK, ExclusiveClaim, NEW w \in Workers, NEW k \in Keys,
           ReadRunningJob(w, k)
    PROVE  ExclusiveClaim'
<1> DEFINE there == row[k].id = exec[w][k].id /\ row[k].status # "ABSENT"
<1>1. UNCHANGED row /\ Holding(w, k)
  BY DEF ReadRunningJob, Holding
<1>2. \A v \in Workers, j \in Keys :
        ~(v = w /\ j = k) => exec'[v][j] = exec[v][j]
  BY DEF ReadRunningJob, TypeOK
<1>3. CASE there
  <2>1. /\ UNCHANGED revoked
        /\ exec'[w][k].phase = "running" /\ exec'[w][k].id = exec[w][k].id
        /\ exec'[w][k].attempts = row[k].attempts
    <3>1. exec[w][k] \in Execution
      BY DEF TypeOK
    <3>2. exec'[w][k] = [exec[w][k] EXCEPT !.phase = "running",
                           !.attempts = row[k].attempts,
                           !.bypass = shouldBypassSmartBudget(row[k].priority)]
      BY <1>3 DEF ReadRunningJob, TypeOK
    <3>3. UNCHANGED revoked
      BY <1>3 DEF ReadRunningJob
    <3> QED BY <3>1, <3>2, <3>3 DEF Execution
  <2>2. \A v \in Workers, j \in Keys : Holding(v, j)' <=> Holding(v, j)
    BY <1>1, <1>2, <2>1 DEF Holding
  <2>3. \A v \in Workers, j \in Keys : Owns(v, j)' <=> Owns(v, j)
    BY <2>1, <2>2 DEF Owns
  <2>4. ClaimHolds'
    BY <1>1, <1>2, <2>1, <2>3 DEF ExclusiveClaim, ClaimHolds, Matches
  <2> QED BY <2>1, <2>2, <2>3, <2>4 DEF ExclusiveClaim, OneOwner, RevokedHold
<1>4. CASE ~there
  <2>1. revoked' = revoked \ {<<w, k>>} /\ exec'[w][k] = NoExecution
    BY <1>4 DEF ReadRunningJob, TypeOK
  <2>2. \A v \in Workers, j \in Keys :
          IF v = w /\ j = k THEN exec'[v][j] = NoExecution
                           ELSE exec'[v][j] = exec[v][j]
    BY <1>2, <2>1
  <2> QED BY <1>1, <2>1, <2>2, EndedExecutions
<1> QED BY <1>3, <1>4

LEMMA RequestExclusive ==
    ASSUME TypeOK, ExclusiveClaim, NEW c \in Clients, NEW q \in call[c],
           WriteRequest(c, q)
    PROVE  ExclusiveClaim'
<1>1. q \in Request /\ q.key \in Keys /\ row[q.key] \in Row /\ UNCHANGED exec
  BY DEF TypeOK, Request, WriteRequest
<1>2. CASE CreateNewQueueJob(q)
  <2>1. UNCHANGED revoked /\ \A w \in Workers, k \in Keys :
          Owns(w, k) => row'[k] = row[k]
    BY <1>1, <1>2 DEF CreateNewQueueJob, TypeOK, ExclusiveClaim, ClaimHolds, Matches
  <2> QED BY <1>1, <2>1, QuietWrite
<1>3. CASE UpdateActiveExistingJob(q)
  <2>1. UNCHANGED revoked
    BY <1>3 DEF UpdateActiveExistingJob
  <2>2. \A k \in Keys : /\ row'[k].id = row[k].id
                         /\ row'[k].status = row[k].status
                         /\ row'[k].attempts = row[k].attempts
    BY <1>1, <1>3, UpdatedActiveKeeps DEF UpdateActiveExistingJob, TypeOK
  <2> QED BY <1>1, <2>1, <2>2, QuietWrite
<1>4. CASE RequeueInactiveExistingJob(q)
  <2>1. CASE StillThere(q)
    <3>1. RevokeAll(q.key) /\ \A j \in Keys \ {q.key} : row'[j] = row[j]
      BY <1>1, <1>4, <2>1 DEF RequeueInactiveExistingJob, TypeOK
    <3> QED BY <1>1, <3>1, RevokingWrite
  <2>2. CASE ~StillThere(q)
    BY <1>1, <1>4, <2>2, QuietWrite DEF RequeueInactiveExistingJob
  <2> QED BY <2>1, <2>2
<1> QED BY <1>2, <1>3, <1>4 DEF WriteRequest

LEMMA ExclusiveStep ==
    TypeOK /\ IdleOutsideBatch /\ ExclusiveClaim /\ [Next]_vars => ExclusiveClaim'
<1> SUFFICES ASSUME TypeOK, IdleOutsideBatch, ExclusiveClaim, [Next]_vars
             PROVE  ExclusiveClaim'
  OBVIOUS
<1>1. ASSUME NEW k \in Keys, BecomeAvailable(k) \/ GoStale(k)
      PROVE ExclusiveClaim'
  <2>1. UNCHANGED <<exec, revoked>>
    BY <1>1 DEF BecomeAvailable, GoStale
  <2>2. \A j \in Keys : /\ row'[j].id = row[j].id
                         /\ row'[j].status = row[j].status
                         /\ row'[j].attempts = row[j].attempts
    <3>1. /\ row \in [Keys -> Row]
          /\ \/ row' = [row EXCEPT ![k].ready = TRUE]
             \/ row' = [row EXCEPT ![k].stale = TRUE]
      BY <1>1 DEF BecomeAvailable, GoStale, TypeOK
    <3> QED BY <3>1 DEF Row
  <2> QED BY <2>1, <2>2, QuietWrite
<1>2. ASSUME NEW w \in Workers, NEW c \in stuck[w], ApplyRecovery(w, c)
      PROVE ExclusiveClaim'
  <2>1. c.key \in Keys /\ UNCHANGED exec
    BY <1>2 DEF TypeOK, StuckCopy, ApplyRecovery
  <2>2. CASE Matches(row[c.key], c.id, "RUNNING")
    <3>1. RevokeAll(c.key) /\ \A j \in Keys \ {c.key} : row'[j] = row[j]
      BY <1>2, <2>1, <2>2 DEF ApplyRecovery, TypeOK
    <3> QED BY <2>1, <3>1, RevokingWrite
  <2>3. CASE ~Matches(row[c.key], c.id, "RUNNING")
    BY <1>2, <2>1, <2>3, QuietWrite DEF ApplyRecovery
  <2> QED BY <2>2, <2>3
<1>3. ASSUME NEW w \in Workers, SelectJobs(w) PROVE ExclusiveClaim'
  <2>1. \A k \in Keys : ~Holding(w, k)
    BY <1>3 DEF SelectJobs, IdleOutsideBatch, Busy, Holding
  <2>2. PICK selected \in SUBSET Keys :
           exec' = [exec EXCEPT ![w] = [k \in Keys |->
                IF k \in selected
                THEN [NoExecution EXCEPT !.phase = "selected",
                          !.id = row[k].id, !.before = row[k].attempts]
                ELSE NoExecution]]
    BY <1>3 DEF SelectJobs
  <2>3. \A v \in Workers, k \in Keys :
          IF v = w THEN exec'[v][k].phase \in {"selected", "none"}
                   ELSE exec'[v][k] = exec[v][k]
    BY <2>2 DEF TypeOK, NoExecution
  <2>4. UNCHANGED <<row, revoked>>
    BY <1>3 DEF SelectJobs
  <2>5. \A v \in Workers, k \in Keys :
          Holding(v, k)' <=> (v # w /\ Holding(v, k))
    BY <2>3 DEF Holding
  <2>6. \A v \in Workers, k \in Keys :
          Owns(v, k)' => Owns(v, k) /\ exec'[v][k] = exec[v][k]
    BY <2>3, <2>4, <2>5 DEF Owns
  <2>7. RevokedHold'
    BY <2>1, <2>4, <2>5 DEF ExclusiveClaim, RevokedHold
  <2> QED BY <2>4, <2>6, <2>7 DEF ExclusiveClaim, ClaimHolds, OneOwner, Matches
<1>4. ASSUME NEW w \in Workers, NEW k \in Keys, Conclude(w, k)
      PROVE ExclusiveClaim'
  BY <1>4, FinalizeExclusive
     DEF Conclude, FinalizeJobSuccess, FinalizeJobDeferred, FinalizeJobFailure
<1>5. ASSUME NEW w \in Workers, NEW k \in Keys, NEW dropped \in SUBSET Keys,
             DropPendingJobs(w, k, dropped)
      PROVE ExclusiveClaim'
  <2>1. UNCHANGED <<exec, revoked>>
    BY <1>5 DEF DropPendingJobs
  <2>2. \A v \in Workers, j \in Keys : Owns(v, j) => row'[j] = row[j]
    BY <1>5 DEF DropPendingJobs, ExclusiveClaim, ClaimHolds, Matches
  <2> QED BY <2>1, <2>2, QuietWrite
<1>6. ASSUME NEW w \in Workers, Crash(w) PROVE ExclusiveClaim'
  <2>1. UNCHANGED row /\ revoked' = revoked \ ({w} \X Keys)
    BY <1>6 DEF Crash
  <2>2. \A v \in Workers, k \in Keys :
          IF v = w THEN exec'[v][k] = NoExecution
                   ELSE exec'[v][k] = exec[v][k]
    BY <1>6 DEF Crash, TypeOK
  <2> QED BY <2>1, <2>2, EndedExecutions
<1>7. CASE UNCHANGED <<row, exec, revoked>>
  BY <1>7, QuietWrite
<1>8. \/ \E k \in Keys : BecomeAvailable(k) \/ GoStale(k)
      \/ \E w \in Workers : \E c \in stuck[w] : ApplyRecovery(w, c)
      \/ \E w \in Workers : SelectJobs(w) \/ Crash(w)
      \/ \E w \in Workers, k \in Keys :
            MarkJobRunning(w, k) \/ ReadRunningJob(w, k) \/ Conclude(w, k)
      \/ \E w \in Workers, k \in Keys, dropped \in SUBSET Keys :
            DropPendingJobs(w, k, dropped)
      \/ \E c \in Clients : \E q \in call[c] : WriteRequest(c, q)
      \/ UNCHANGED <<row, exec, revoked>>
  BY DEF Next, WorkerStep, vars, BeginPass, Restart, FindExisting
<1> QED
  BY <1>1, <1>2, <1>3, <1>4, <1>5, <1>6, <1>7, <1>8, ClaimExclusive,
     ReadBackExclusive, RequestExclusive

\* At most one execution of an artwork has not had its row taken away, and it
\* holds that row RUNNING with the attempts it claimed it with.
THEOREM ExclusiveClaimHolds == Spec => []ExclusiveClaim
<1>1. Init => ExclusiveClaim
  BY DEF Init, ExclusiveClaim, ClaimHolds, OneOwner, RevokedHold, Owns,
         Holding, NoExecution
<1>2. TypeOK /\ IdleOutsideBatch /\ ExclusiveClaim /\ [Next]_vars
        => ExclusiveClaim'
  BY ExclusiveStep
<1> QED BY <1>1, <1>2, TypeCorrect, IdleHolds, PTL DEF Spec
-----------------------------------------------------------------------------
(* What one write may do to a row.                                         *)

\* A row that is decided on only while PENDING or RUNNING moves only then.
LEMMA SettledStep ==
    ASSUME TypeOK, Next, NEW k \in Keys, row[k].status \in SettledStatuses
    PROVE  \/ /\ row'[k].status = row[k].status
              /\ row'[k].attempts = row[k].attempts
           \/ row'[k].status = "PENDING" /\ row'[k].attempts = 0
<1> DEFINE Goal == \/ /\ row'[k].status = row[k].status
                      /\ row'[k].attempts = row[k].attempts
                   \/ row'[k].status = "PENDING" /\ row'[k].attempts = 0
<1> USE DEF SettledStatuses, TypeOK
<1>1. ASSUME NEW j \in Keys, BecomeAvailable(j) \/ GoStale(j) PROVE Goal
  BY <1>1 DEF BecomeAvailable, GoStale
<1>2. ASSUME NEW w \in Workers, NEW c \in stuck[w], ApplyRecovery(w, c)
      PROVE Goal
  BY <1>2 DEF ApplyRecovery, Matches
<1>3. ASSUME NEW w \in Workers, NEW j \in Keys, MarkJobRunning(w, j) PROVE Goal
  BY <1>3 DEF MarkJobRunning, Matches
<1>4. ASSUME NEW w \in Workers, NEW j \in Keys, Conclude(w, j) PROVE Goal
  BY <1>4 DEF Conclude, FinalizeJobSuccess, FinalizeJobDeferred,
              FinalizeJobFailure, Finalize, Matches
<1>5. ASSUME NEW w \in Workers, NEW j \in Keys, NEW dropped \in SUBSET Keys,
             DropPendingJobs(w, j, dropped)
      PROVE Goal
  BY <1>5 DEF DropPendingJobs
<1>6. ASSUME NEW c \in Clients, NEW q \in call[c], WriteRequest(c, q) PROVE Goal
  <2>1. q \in Request /\ q.key \in Keys
    BY DEF Request
  <2>2. CASE CreateNewQueueJob(q)
    BY <2>2 DEF CreateNewQueueJob
  <2>3. CASE UpdateActiveExistingJob(q)
    BY <2>1, <2>3, UpdatedActiveKeeps DEF UpdateActiveExistingJob
  <2>4. CASE RequeueInactiveExistingJob(q)
    <3>1. row[q.key] \in Row /\ row[k] \in Row
      BY <2>1
    <3>2. /\ Requeued(row[q.key], q.priority).status = "PENDING"
          /\ Requeued(row[q.key], q.priority).attempts = 0
      BY <3>1 DEF Requeued, Row
    <3> QED BY <2>1, <2>4, <3>2 DEF RequeueInactiveExistingJob
  <2> QED BY <1>6, <2>2, <2>3, <2>4 DEF WriteRequest
<1>7. CASE UNCHANGED row
  BY <1>7
<1> QED
  BY <1>1, <1>2, <1>3, <1>4, <1>5, <1>6, <1>7
     DEF Next, WorkerStep, BeginPass, SelectJobs, ReadRunningJob, Crash,
         Restart, FindExisting

\* Nothing that a worker or a caller decided on an older state of a job - a
\* recovery, an outcome, a claim, an update - reopens or alters it once it is
\* settled.  (A rebalance may still delete it: TrimOverflow goes by the id.)
THEOREM SettledRowsStayHolds == Spec => SettledRowsStay
<1>1. TypeOK /\ [Next]_vars =>
        [\A k \in Keys : row[k].status \in SettledStatuses =>
            \/ /\ row'[k].status = row[k].status
               /\ row'[k].attempts = row[k].attempts
            \/ row'[k].status = "PENDING" /\ row'[k].attempts = 0]_vars
  BY SettledStep
<1> QED BY <1>1, TypeCorrect, PTL DEF Spec, SettledRowsStay

LEMMA FreshWrite ==
    ASSUME TypeOK, NEW c \in Clients, NEW q \in call[c], WriteRequest(c, q),
           q.found = AsFound(row[q.key])
    PROVE  /\ row'[q.key].status \in ActiveStatuses
           /\ row'[q.key].priority >= q.priority
           /\ row[q.key].status \in ActiveStatuses =>
                 row'[q.key].priority >= row[q.key].priority
<1>1. /\ q \in Request /\ q.key \in Keys /\ row[q.key] \in Row
      /\ row \in [Keys -> Row]
  BY DEF TypeOK, Request
<1>2. /\ q.found.status = row[q.key].status
      /\ q.found.priority = row[q.key].priority /\ q.found.id = row[q.key].id
  BY DEF AsFound
<1>3. q.priority \in Nat /\ row[q.key].priority \in Nat
  BY <1>1 DEF Request, Row, Priorities, BACKUP_PRIORITY, PUBLIC_QUEUE_PRIORITY
<1>4. CASE CreateNewQueueJob(q)
  <2>1. row'[q.key] = Created(row[q.key], q.priority)
    BY <1>1, <1>2, <1>4 DEF CreateNewQueueJob
  <2>2. row'[q.key].status = "PENDING" /\ row'[q.key].priority = q.priority
    BY <2>1 DEF Created, NoRow
  <2> QED BY <1>2, <1>3, <1>4, <2>2 DEF CreateNewQueueJob, ActiveStatuses
<1>5. CASE UpdateActiveExistingJob(q)
  <2>1. row[q.key].status \in ActiveStatuses /\ StillThere(q)
    BY <1>2, <1>5 DEF UpdateActiveExistingJob, StillThere, ActiveStatuses
  <2>2. row'[q.key] = UpdatedActive(row[q.key], q)
    BY <1>1, <1>5, <2>1 DEF UpdateActiveExistingJob
  <2>3. row'[q.key].status = row[q.key].status
    BY <1>1, <2>2, UpdatedActiveKeeps
  <2>4. row'[q.key].priority = row[q.key].priority
          \/ row'[q.key].priority = Larger(row[q.key].priority, q.priority)
    BY <1>1, <1>2, <2>2 DEF UpdatedActive, Row
  <2>5. row'[q.key].priority = row[q.key].priority
          => ~(q.priority > row[q.key].priority)
    BY <1>1, <1>2, <1>3, <2>2 DEF UpdatedActive, Row, Larger
  <2> QED BY <1>3, <2>1, <2>3, <2>4, <2>5 DEF Larger
<1>6. CASE RequeueInactiveExistingJob(q)
  <2>1. row[q.key].status \in SettledStatuses /\ StillThere(q)
    BY <1>2, <1>6 DEF RequeueInactiveExistingJob, StillThere, SettledStatuses
  <2>2. row'[q.key] = Requeued(row[q.key], q.priority)
    BY <1>1, <1>6, <2>1 DEF RequeueInactiveExistingJob
  <2>3. row'[q.key].status = "PENDING" /\ row'[q.key].priority = q.priority
    BY <1>1, <2>2 DEF Requeued, Row
  <2> QED BY <1>3, <2>1, <2>3 DEF ActiveStatuses, SettledStatuses
<1> QED BY <1>4, <1>5, <1>6 DEF WriteRequest

\* A call disappears only through its own write.
LEMMA AnsweredRequest ==
    ASSUME TypeOK, Next, NEW c \in Clients, NEW q \in call[c], q \notin call'[c]
    PROVE  WriteRequest(c, q)
<1>1. ASSUME NEW d \in Clients, NEW k \in Keys, NEW p \in Priorities,
             NEW now \in BOOLEAN, FindExisting(d, k, p, now)
      PROVE FALSE
  BY <1>1 DEF FindExisting, TypeOK
<1>2. ASSUME NEW d \in Clients, NEW p \in call[d], WriteRequest(d, p)
      PROVE d = c /\ p = q
  BY <1>2 DEF WriteRequest, TypeOK
<1>3. call' # call
  OBVIOUS
<1>4. ASSUME NEW w \in Workers, WorkerStep(w) \/ Crash(w) \/ Restart(w)
      PROVE UNCHANGED call
  BY <1>4 DEF WorkerStep, BeginPass, ApplyRecovery, SelectJobs, MarkJobRunning,
              ReadRunningJob, Conclude, FinalizeJobSuccess, FinalizeJobDeferred,
              FinalizeJobFailure, Finalize, Crash, Restart
<1>5. ASSUME NEW k \in Keys, BecomeAvailable(k) \/ GoStale(k)
      PROVE UNCHANGED call
  BY <1>5 DEF BecomeAvailable, GoStale
<1>6. ASSUME NEW w \in Workers, NEW k \in Keys, NEW dropped \in SUBSET Keys,
             DropPendingJobs(w, k, dropped)
      PROVE UNCHANGED call
  BY <1>6 DEF DropPendingJobs
<1> QED BY <1>1, <1>2, <1>3, <1>4, <1>5, <1>6 DEF Next

\* queueJob never lowers a job it found as it still is, nor leaves it settled.
THEOREM FreshRequestsHonouredHolds == Spec => FreshRequestsHonoured
<1>1. TypeOK /\ [Next]_vars =>
        [\A c \in Clients : \A q \in call[c] :
            q \notin call'[c] /\ q.found = AsFound(row[q.key]) =>
              /\ row'[q.key].status \in ActiveStatuses
              /\ row'[q.key].priority >= q.priority
              /\ row[q.key].status \in ActiveStatuses =>
                    row'[q.key].priority >= row[q.key].priority]_vars
  BY FreshWrite, AnsweredRequest
<1> QED BY <1>1, TypeCorrect, PTL DEF Spec, FreshRequestsHonoured
-----------------------------------------------------------------------------
(* The queue under rebalancers.  For the rows a step of a rebalance is a   *)
(* step of the queue, a parking or a trim; the last two keep what the      *)
(* queue's own steps keep.                                                 *)

\* For every artwork of gone, the row leaves the table.
Trimmed(gone) ==
    /\ row' = [k \in Keys |-> IF k \in gone THEN Deleted(row[k]) ELSE row[k]]
    /\ revoked' = revoked \cup UNION {Holders(k) : k \in gone}
    /\ misjudged' = misjudged \ gone
    /\ UNCHANGED <<pc, stuck, exec, call, spent>>

\* Rows may lose their readiness; nothing else changes.
Parked ==
    /\ row' \in [Keys -> Row]
    /\ \A k \in Keys : \/ row'[k] = row[k]
                       \/ row'[k] = [row[k] EXCEPT !.ready = FALSE]
    /\ UNCHANGED <<pc, stuck, exec, call, revoked, misjudged, spent>>

QueueEffect == [Next]_vars \/ Parked \/ \E gone \in SUBSET Keys : Trimmed(gone)

LEMMA ParkIsParking ==
    ASSUME TypeOK, NEW r \in Rebalancers, NEW S \in SUBSET Keys, Park(r, S),
           UNCHANGED <<pc, stuck, exec, call, revoked, misjudged, spent>>
    PROVE  Parked
<1>1. \A k \in Keys : row[k] \in Row /\ [row[k] EXCEPT !.ready = FALSE] \in Row
  BY DEF TypeOK, Row
<1> QED BY <1>1 DEF Park, Parked

LEMMA EffectOfRebalance ==
    ASSUME TypeOK, NEW r \in Rebalancers, Rebalance(r)
    PROVE  QueueEffect
<1>1. r \in Clients
  BY RebalancerAssumption
<1>2. CASE FetchActiveJobs(r) \/ FinishRebalance(r)
  BY <1>2 DEF FetchActiveJobs, FinishRebalance, QueueEffect
<1>3. ASSUME NEW S \in SUBSET Keys, ParkBlockedJobs(r, S) \/ ParkRepairJobs(r, S)
      PROVE  QueueEffect
  BY <1>3, ParkIsParking DEF ParkBlockedJobs, ParkRepairJobs, QueueEffect
<1>4. ASSUME NEW S \in SUBSET Keys, TrimOverflow(r, S) PROVE QueueEffect
  <2>1. Trimmed({k \in S : row[k].id = plan[r].seen[k].id})
    BY <1>4 DEF TrimOverflow, Trimmed
  <2> QED BY <2>1 DEF QueueEffect
<1>5. ASSUME NEW k \in Keys, RefillLookup(r, k) PROVE QueueEffect
  BY <1>1, <1>5 DEF RefillLookup, QueueEffect, Next, Priorities
<1>6. ASSUME NEW q \in call[r], RefillWrite(r, q) PROVE QueueEffect
  BY <1>1, <1>6 DEF RefillWrite, QueueEffect, Next
<1> QED BY <1>2, <1>3, <1>4, <1>5, <1>6 DEF Rebalance

LEMMA EffectOfStep ==
    TypeOK /\ [RNext]_rvars => QueueEffect
BY EffectOfRebalance DEF RNext, QueueStep, QueueEffect, rvars

LEMMA EffectTyped == TypeOK /\ QueueEffect => TypeOK'
<1>1. TypeOK /\ Parked => TypeOK'
  BY DEF TypeOK, Parked
<1>2. ASSUME TypeOK, NEW gone \in SUBSET Keys, Trimmed(gone) PROVE TypeOK'
  <2>1. \A k \in Keys : Deleted(row[k]) \in Row
    BY <1>2, RowWritesAreRows DEF TypeOK, Priorities
  <2>2. row' \in [Keys -> Row] /\ revoked' \subseteq Workers \X Keys
    BY <1>2, <2>1 DEF Trimmed, TypeOK, Holders
  <2> QED BY <1>2, <2>2 DEF Trimmed, TypeOK
<1> QED BY <1>1, <1>2, TypeStep DEF QueueEffect

LEMMA EffectIdle ==
    TypeOK /\ IdleOutsideBatch /\ QueueEffect => IdleOutsideBatch'
<1>1. IdleOutsideBatch /\ UNCHANGED <<pc, exec>> => IdleOutsideBatch'
  BY DEF IdleOutsideBatch, Busy
<1> QED BY <1>1, IdleStep DEF QueueEffect, Parked, Trimmed

LEMMA EffectBudget == TypeOK /\ RetryBudget /\ QueueEffect => RetryBudget'
<1>1. ASSUME TypeOK, RetryBudget, Parked PROVE RetryBudget'
  <2>1. \A k \in Keys : /\ row'[k].status = row[k].status
                         /\ row'[k].attempts = row[k].attempts
    BY <1>1 DEF Parked, TypeOK, Row
  <2> QED BY <1>1, <2>1 DEF Parked, RetryBudget, WithinBudget
<1>2. ASSUME TypeOK, RetryBudget, NEW gone \in SUBSET Keys, Trimmed(gone)
      PROVE  RetryBudget'
  <2>1. \A k \in Keys : WithinBudget(Deleted(row[k]))
    BY <1>2, RowWritesKeepBudget DEF TypeOK, Priorities
  <2> QED BY <1>2, <2>1 DEF Trimmed, RetryBudget
<1> QED BY <1>1, <1>2, BudgetStep DEF QueueEffect

LEMMA EffectExclusive ==
    TypeOK /\ IdleOutsideBatch /\ ExclusiveClaim /\ QueueEffect => ExclusiveClaim'
<1>1. ASSUME TypeOK, ExclusiveClaim, Parked PROVE ExclusiveClaim'
  <2>1. \A k \in Keys : /\ row'[k].id = row[k].id
                         /\ row'[k].status = row[k].status
                         /\ row'[k].attempts = row[k].attempts
    BY <1>1 DEF Parked, TypeOK, Row
  <2> QED BY <1>1, <2>1, QuietWrite DEF Parked
<1>2. ASSUME TypeOK, ExclusiveClaim, NEW gone \in SUBSET Keys, Trimmed(gone)
      PROVE  ExclusiveClaim'
  <2>1. \A w \in Workers, k \in Keys : Holding(w, k)' <=> Holding(w, k)
    BY <1>2 DEF Trimmed, Holding
  <2>2. revoked' = revoked \cup {h \in Workers \X Keys :
                                    h[2] \in gone /\ Holding(h[1], h[2])}
    BY <1>2 DEF Trimmed, Holders
  <2>3. \A w \in Workers, k \in Keys :
          Owns(w, k)' => Owns(w, k) /\ row'[k] = row[k]
    BY <1>2, <2>1, <2>2 DEF Trimmed, Owns
  <2>4. RevokedHold'
    BY <1>2, <2>1, <2>2 DEF ExclusiveClaim, RevokedHold
  <2> QED BY <1>2, <2>3, <2>4
          DEF Trimmed, ExclusiveClaim, ClaimHolds, OneOwner, Matches
<1> QED BY <1>1, <1>2, ExclusiveStep DEF QueueEffect

\* The state a rebalance keeps between two of its statements has its type.
LEMMA GoesTyped ==
    ASSUME plan \in [Rebalancers -> Plan], NEW r \in Rebalancers,
           NEW p \in Plan, Goes(r, p)
    PROVE  plan' \in [Rebalancers -> Plan]
<1>1. \A s \in Rebalancers :
        [plan[s] EXCEPT !.quiet = plan[s].quiet /\ row' = row] \in Plan
  BY DEF Plan
<1> QED BY <1>1 DEF Goes
-----------------------------------------------------------------------------
(* What a rebalance knows of the queue between two of its statements.      *)

\* The lists it decides on are those of the table, unless somebody wrote.
SeenIsTrue(r) ==
    plan[r].quiet /\ plan[r].step \in {"parking", "repairing", "trimming"}
        => plan[r].seen = Snapshot(row)

\* It asks for automatic backups only, one at a time, and only to refill.
CallsAreBackups(r) ==
    /\ \A q \in call[r] : /\ call[r] = {q}
                          /\ q.priority = BACKUP_PRIORITY /\ ~q.availableNow
    /\ plan[r].step # "refilling" => call[r] = {}

Asked(r) == IF call[r] = {} THEN 0 ELSE 1

\* The slots it has left, with the one it is about to fill, fit the budget.
RoomIsLeft(r) ==
    plan[r].step = "refilling" /\ plan[r].quiet =>
        Cardinality(AutomaticReady(row)) + plan[r].slots + Asked(r)
            <= PendingTarget(row)

Informed(r) == SeenIsTrue(r) /\ CallsAreBackups(r) /\ RoomIsLeft(r)

RInv == RTypeOK /\ \A r \in Rebalancers : Informed(r)

LEMMA ListsAreFinite ==
    ASSUME NEW t
    PROVE  /\ Cardinality(AutomaticReady(t)) \in Nat
           /\ Cardinality(AutomaticRunning(t)) \in Nat
           /\ Cardinality(ProtectedReady(t)) \in Nat
           /\ IsFiniteSet(AutomaticReady(t))
           /\ PendingTarget(t) \in Nat
<1>1. /\ AutomaticReady(t) \in SUBSET Keys /\ AutomaticRunning(t) \in SUBSET Keys
      /\ ProtectedReady(t) \in SUBSET Keys
  BY DEF AutomaticReady, AutomaticRunning, ProtectedReady, Automatic
<1>2. \A S \in SUBSET Keys : IsFiniteSet(S) /\ Cardinality(S) \in Nat
  BY RebalancerAssumption, FS_Subset, FS_CardinalityType
<1>3. PendingTarget(t) \in Nat
  BY <1>1, <1>2, RebalancerAssumption DEF PendingTarget, NonNegative
<1> QED BY <1>1, <1>2, <1>3

\* A snapshot shows the same lists as the table it was taken from.
LEMMA SnapshotShowsLists ==
    ASSUME row \in [Keys -> Row]
    PROVE  /\ AutomaticReady(Snapshot(row)) = AutomaticReady(row)
           /\ AutomaticRunning(Snapshot(row)) = AutomaticRunning(row)
           /\ ProtectedReady(Snapshot(row)) = ProtectedReady(row)
           /\ PendingTarget(Snapshot(row)) = PendingTarget(row)
           /\ \A k \in Keys : Snapshot(row)[k].id = row[k].id
<1>1. \A k \in Keys : /\ Snapshot(row)[k].id = row[k].id
                      /\ Snapshot(row)[k].status = row[k].status
                      /\ Snapshot(row)[k].priority = row[k].priority
                      /\ Snapshot(row)[k].ready = row[k].ready
  BY DEF Snapshot, AsFound
<1>2. AutomaticReady(Snapshot(row)) = AutomaticReady(row)
  BY <1>1 DEF AutomaticReady, Automatic, isReadyPendingJob
<1>3. AutomaticRunning(Snapshot(row)) = AutomaticRunning(row)
  BY <1>1 DEF AutomaticRunning, Automatic
<1>4. ProtectedReady(Snapshot(row)) = ProtectedReady(row)
  BY <1>1 DEF ProtectedReady, isReadyPendingJob
<1> QED BY <1>1, <1>2, <1>3, <1>4 DEF PendingTarget

\* A rebalance loses nothing by the steps of others: it hears of their writes.
LEMMA Bystander ==
    ASSUME RInv, NEW s \in Rebalancers, call'[s] = call[s],
           plan'[s] = [plan[s] EXCEPT !.quiet = plan[s].quiet /\ row' = row]
    PROVE  Informed(s)'
<1>1. plan[s] \in Plan
  BY DEF RInv, RTypeOK
<1>2. /\ plan'[s].step = plan[s].step /\ plan'[s].seen = plan[s].seen
      /\ plan'[s].slots = plan[s].slots
      /\ plan'[s].quiet => plan[s].quiet /\ row' = row
  BY <1>1 DEF Plan
<1>3. Informed(s)
  BY DEF RInv
<1>4. Asked(s)' = Asked(s)
  BY DEF Asked
<1> QED BY <1>2, <1>3, <1>4 DEF Informed, SeenIsTrue, CallsAreBackups, RoomIsLeft

\* After a step of r only what r knows is in question.
LEMMA OnlyTheActor ==
    ASSUME RInv, NEW r \in Rebalancers, NEW p \in Plan, Goes(r, p), TypeOK',
           \A s \in Rebalancers \ {r} : call'[s] = call[s],
           plan'[r] = p => Informed(r)'
    PROVE  RInv'
<1>1. plan' \in [Rebalancers -> Plan]
  BY GoesTyped DEF RInv, RTypeOK
<1>2. plan'[r] = p
  BY DEF Goes
<1>3. \A s \in Rebalancers \ {r} : Informed(s)'
  BY Bystander DEF Goes
<1> QED BY <1>1, <1>2, <1>3 DEF RInv, RTypeOK

LEMMA IdlePlanIsPlan == IdlePlan \in Plan
<1>1. AsFound(NoRow) \in Found
  BY AsFoundIsFound, NoRowIsRow
<1> QED BY <1>1 DEF IdlePlan, Plan, RebalanceSteps

LEMMA FetchKeeps ==
    ASSUME RInv, NEW r \in Rebalancers, FetchActiveJobs(r)
    PROVE  RInv'
<1>1. UNCHANGED vars /\ row \in [Keys -> Row] /\ call[r] = {} /\ TypeOK'
  BY DEF FetchActiveJobs, RInv, RTypeOK, vars, TypeOK
<1>2. PICK step \in {"parking", "repairing", "trimming"} :
        Goes(r, [IdlePlan EXCEPT !.seen = Snapshot(row), !.quiet = TRUE,
                                 !.step = step])
  BY DEF FetchActiveJobs
<1> DEFINE p == [IdlePlan EXCEPT !.seen = Snapshot(row), !.quiet = TRUE,
                                 !.step = step]
<1>3. Snapshot(row) \in [Keys -> Found]
  BY <1>1, AsFoundIsFound DEF Snapshot
<1>4. /\ p \in Plan /\ p.seen = Snapshot(row) /\ p.step = step
  BY <1>3, IdlePlanIsPlan DEF Plan, RebalanceSteps
<1>5. plan'[r] = p => Informed(r)'
  BY <1>1, <1>4 DEF Informed, SeenIsTrue, CallsAreBackups, RoomIsLeft, vars
<1>6. \A s \in Rebalancers : call'[s] = call[s]
  BY <1>1 DEF vars
<1> HIDE DEF p
<1> QED BY <1>1, <1>2, <1>4, <1>5, <1>6, OnlyTheActor DEF p

LEMMA ParkKeeps ==
    ASSUME RInv, NEW r \in Rebalancers, NEW S \in SUBSET Keys,
           ParkBlockedJobs(r, S) \/ ParkRepairJobs(r, S)
    PROVE  RInv'
<1>1. /\ row \in [Keys -> Row] /\ UNCHANGED call /\ TypeOK
      /\ plan[r] \in Plan /\ plan[r].step \in {"parking", "repairing"}
  BY DEF RInv, RTypeOK, TypeOK, ParkBlockedJobs, ParkRepairJobs
<1>2. Park(r, S)
  BY DEF ParkBlockedJobs, ParkRepairJobs
<1>3. UNCHANGED <<pc, stuck, exec, call, revoked, misjudged, spent>>
  BY DEF ParkBlockedJobs, ParkRepairJobs
<1>4. TypeOK'
  BY <1>1, <1>2, <1>3, ParkIsParking, EffectTyped DEF QueueEffect
<1>5. S = {} => row' = row
  BY <1>1, <1>2 DEF Park
<1>6. PICK step \in {"reparking", "repairing", "refetching", "trimming"} :
        /\ GoesTo(r, step)
        /\ S # {} => step \in {"reparking", "refetching"}
  BY DEF ParkBlockedJobs, ParkRepairJobs
<1> DEFINE p == [plan[r] EXCEPT !.step = step]
<1>7. /\ p \in Plan /\ p.step = step
      /\ p.seen = plan[r].seen /\ p.quiet = plan[r].quiet
  BY <1>1 DEF Plan, RebalanceSteps
<1>8. Informed(r)
  BY DEF RInv
<1> HIDE DEF p
<1>9. plan'[r] = p => Informed(r)'
  <2> SUFFICES ASSUME plan'[r] = p PROVE Informed(r)'
    OBVIOUS
  <2>1. SeenIsTrue(r)'
    BY <1>1, <1>5, <1>6, <1>7, <1>8 DEF Informed, SeenIsTrue
  <2>2. CallsAreBackups(r)'
    BY <1>1, <1>7, <1>8 DEF Informed, CallsAreBackups
  <2>3. RoomIsLeft(r)'
    BY <1>6, <1>7 DEF RoomIsLeft
  <2> QED BY <2>1, <2>2, <2>3 DEF Informed
<1> QED BY <1>1, <1>4, <1>6, <1>7, <1>9, OnlyTheActor DEF p, GoesTo

\* How the trim and the refill share the budget n between them.
LEMMA SharedBudget ==
    ASSUME NEW ready \in Nat, NEW protected \in Nat, NEW running \in Nat
    PROVE  LET target == NonNegative(QueueBudget - protected - running)
               kept == IF ready <= target THEN ready ELSE target
           IN  /\ ready - NonNegative(ready - target) = kept
               /\ kept + NonNegative(QueueBudget - protected - running - kept)
                    <= target
               /\ kept <= target
BY RebalancerAssumption DEF NonNegative

\* The slots of a trim fit beside what the trim leaves.
LEMMA SlotsFit ==
    ASSUME NEW t
    PROVE  /\ RefillSlots(t) \in Nat
           /\ Cardinality(AutomaticReady(t))
                - NonNegative(Cardinality(AutomaticReady(t)) - PendingTarget(t))
                + RefillSlots(t) <= PendingTarget(t)
<1>1. /\ Cardinality(AutomaticReady(t)) \in Nat
      /\ Cardinality(AutomaticRunning(t)) \in Nat
      /\ Cardinality(ProtectedReady(t)) \in Nat
      /\ PendingTarget(t) \in Nat
  BY ListsAreFinite
<1> DEFINE kept == IF Cardinality(AutomaticReady(t)) <= PendingTarget(t)
                   THEN Cardinality(AutomaticReady(t)) ELSE PendingTarget(t)
           left == NonNegative(QueueBudget - Cardinality(ProtectedReady(t))
                               - Cardinality(AutomaticRunning(t)) - kept)
<1>2. /\ Cardinality(AutomaticReady(t))
           - NonNegative(Cardinality(AutomaticReady(t)) - PendingTarget(t)) = kept
      /\ kept + left <= PendingTarget(t) /\ kept <= PendingTarget(t)
  BY <1>1, SharedBudget DEF PendingTarget
<1>3. left \in Nat /\ kept \in Nat
  BY <1>1, RebalancerAssumption DEF NonNegative
<1>4. RefillSlots(t) = left \/ RefillSlots(t) = 0
  BY DEF RefillSlots
<1> HIDE DEF kept, left
<1> QED BY <1>1, <1>2, <1>3, <1>4

\* Deleting ready automatic jobs changes no other list.
LEMMA TrimmedLists ==
    ASSUME row \in [Keys -> Row], NEW gone \in SUBSET AutomaticReady(row),
           row' = [k \in Keys |-> IF k \in gone THEN Deleted(row[k]) ELSE row[k]]
    PROVE  /\ Cardinality(AutomaticReady(row')) =
                 Cardinality(AutomaticReady(row)) - Cardinality(gone)
           /\ PendingTarget(row') = PendingTarget(row)
<1>1. gone \subseteq Keys
  BY DEF AutomaticReady, Automatic
<1>2. \A k \in gone : /\ row'[k].status = "ABSENT"
                      /\ row[k].status = "PENDING"
                      /\ row[k].priority <= BACKUP_PRIORITY
  BY <1>1 DEF Deleted, NoRow, AutomaticReady, Automatic, isReadyPendingJob
<1>3. \A k \in gone : /\ row[k].priority \in Nat /\ row'[k].priority \in Nat
                      /\ row'[k].priority <= BACKUP_PRIORITY
  BY <1>1 DEF Row, Priorities, BACKUP_PRIORITY, PUBLIC_QUEUE_PRIORITY,
              Deleted, NoRow
<1>4. \A k \in Keys \ gone : row'[k] = row[k]
  OBVIOUS
<1>5. AutomaticReady(row') = AutomaticReady(row) \ gone
  BY <1>1, <1>2, <1>4 DEF AutomaticReady, Automatic, isReadyPendingJob
<1>6. AutomaticRunning(row') = AutomaticRunning(row)
  BY <1>1, <1>2, <1>4 DEF AutomaticRunning, Automatic
<1>7. ProtectedReady(row') = ProtectedReady(row)
  BY <1>1, <1>2, <1>3, <1>4
     DEF ProtectedReady, BACKUP_PRIORITY, isReadyPendingJob
<1>8. Cardinality(AutomaticReady(row) \ gone) =
        Cardinality(AutomaticReady(row))
          - Cardinality(AutomaticReady(row) \cap gone)
  BY ListsAreFinite, FS_Difference
<1>9. AutomaticReady(row) \cap gone = gone
  OBVIOUS
<1> QED BY <1>5, <1>6, <1>7, <1>8, <1>9 DEF PendingTarget

LEMMA TrimKeeps ==
    ASSUME RInv, NEW r \in Rebalancers, NEW S \in SUBSET Keys, TrimOverflow(r, S)
    PROVE  RInv'
<1> DEFINE seen == plan[r].seen
           p == [IdlePlan EXCEPT !.step = "refilling", !.quiet = plan[r].quiet,
                    !.slots = RefillSlots(seen), !.busy = ActiveKeys(seen)]
<1>1. /\ row \in [Keys -> Row] /\ TypeOK /\ plan[r] \in Plan
      /\ plan[r].step = "trimming" /\ Goes(r, p) /\ UNCHANGED call
  BY DEF RInv, RTypeOK, TypeOK, TrimOverflow
<1>2. TypeOK'
  <2>1. Rebalance(r)
    BY DEF Rebalance
  <2> QED BY <1>1, <2>1, EffectOfRebalance, EffectTyped
<1>3. /\ p \in Plan /\ p.step = "refilling" /\ p.quiet = plan[r].quiet
      /\ p.slots = RefillSlots(seen)
  BY <1>1, IdlePlanIsPlan, SlotsFit DEF Plan, RebalanceSteps, ActiveKeys
<1>4. Informed(r)
  BY DEF RInv
<1>5. call[r] = {}
  BY <1>1, <1>4 DEF Informed, CallsAreBackups
<1>6. plan[r].quiet =>
        Cardinality(AutomaticReady(row')) + RefillSlots(seen) <= PendingTarget(row')
  <2> SUFFICES ASSUME plan[r].quiet
               PROVE  Cardinality(AutomaticReady(row')) + RefillSlots(seen)
                        <= PendingTarget(row')
    OBVIOUS
  <2>1. seen = Snapshot(row)
    BY <1>1, <1>4 DEF Informed, SeenIsTrue
  <2>2. /\ AutomaticReady(seen) = AutomaticReady(row)
        /\ PendingTarget(seen) = PendingTarget(row)
        /\ \A k \in Keys : seen[k].id = row[k].id
    BY <1>1, <2>1, SnapshotShowsLists
  <2>3. /\ S \in SUBSET AutomaticReady(row)
        /\ Cardinality(S) = NonNegative(Cardinality(AutomaticReady(row))
                                          - PendingTarget(row))
    BY <2>2 DEF TrimOverflow
  <2>4. {k \in S : row[k].id = seen[k].id} = S
    BY <2>2
  <2>5. row' = [k \in Keys |-> IF k \in S THEN Deleted(row[k]) ELSE row[k]]
    BY <2>4 DEF TrimOverflow
  <2>6. /\ Cardinality(AutomaticReady(row')) =
             Cardinality(AutomaticReady(row)) - Cardinality(S)
        /\ PendingTarget(row') = PendingTarget(row)
    BY <1>1, <2>3, <2>5, TrimmedLists
  <2>7. Cardinality(AutomaticReady(row))
          - NonNegative(Cardinality(AutomaticReady(row)) - PendingTarget(row))
          + RefillSlots(seen) <= PendingTarget(row)
    BY <2>2, SlotsFit
  <2> QED BY <2>3, <2>6, <2>7
<1> HIDE DEF p
<1>7. plan'[r] = p => Informed(r)'
  <2> SUFFICES ASSUME plan'[r] = p PROVE Informed(r)'
    OBVIOUS
  <2>1. Asked(r)' = 0
    BY <1>1, <1>5 DEF Asked
  <2>2. RoomIsLeft(r)'
    <3>1. Cardinality(AutomaticReady(row')) \in Nat /\ RefillSlots(seen) \in Nat
      BY ListsAreFinite, SlotsFit
    <3> QED BY <1>3, <1>6, <2>1, <3>1 DEF RoomIsLeft
  <2>3. SeenIsTrue(r)' /\ CallsAreBackups(r)'
    BY <1>1, <1>3, <1>5 DEF SeenIsTrue, CallsAreBackups
  <2> QED BY <2>2, <2>3 DEF Informed
<1> QED BY <1>1, <1>2, <1>3, <1>7, OnlyTheActor

LEMMA LookupKeeps ==
    ASSUME RInv, NEW r \in Rebalancers, NEW k \in Keys, RefillLookup(r, k)
    PROVE  RInv'
<1> DEFINE p == [plan[r] EXCEPT !.busy = plan[r].busy \cup {k},
                                !.slots = plan[r].slots - 1]
           q == [key |-> k, priority |-> BACKUP_PRIORITY,
                 availableNow |-> FALSE, found |-> AsFound(row[k])]
<1>1. /\ TypeOK /\ plan[r] \in Plan /\ Goes(r, p) /\ UNCHANGED row
      /\ plan[r].step = "refilling" /\ plan[r].slots > 0 /\ call[r] = {}
      /\ call' = [call EXCEPT ![r] = {q}] /\ r \in Clients
  BY RebalancerAssumption DEF RInv, RTypeOK, RefillLookup, FindExisting
<1>2. TypeOK'
  <2>1. Rebalance(r)
    BY DEF Rebalance
  <2> QED BY <1>1, <2>1, EffectOfRebalance, EffectTyped
<1>3. /\ p \in Plan /\ p.step = "refilling" /\ p.quiet = plan[r].quiet
      /\ p.slots = plan[r].slots - 1
  <2>1. /\ plan[r].slots - 1 \in Nat
        /\ plan[r].busy \cup {k} \in SUBSET Keys
    BY <1>1 DEF Plan
  <2>2. \A b \in SUBSET Keys, n \in Nat :
          LET new == [plan[r] EXCEPT !.busy = b, !.slots = n]
          IN  /\ new \in Plan /\ new.step = plan[r].step
              /\ new.quiet = plan[r].quiet /\ new.slots = n
    BY <1>1 DEF Plan
  <2> QED BY <1>1, <2>1, <2>2
<1>4. call'[r] = {q} /\ \A s \in Rebalancers \ {r} : call'[s] = call[s]
  BY <1>1, RebalancerAssumption DEF TypeOK
<1>5. q.priority = BACKUP_PRIORITY /\ q.availableNow = FALSE
  OBVIOUS
<1>6. plan[r].slots \in Nat /\ Cardinality(AutomaticReady(row)) \in Nat
  BY <1>1, ListsAreFinite DEF Plan
<1>7. Informed(r)
  BY DEF RInv
<1> HIDE DEF p, q
<1>8. plan'[r] = p => Informed(r)'
  <2> SUFFICES ASSUME plan'[r] = p PROVE Informed(r)'
    OBVIOUS
  <2>1. SeenIsTrue(r)' /\ CallsAreBackups(r)'
    BY <1>3, <1>4, <1>5 DEF SeenIsTrue, CallsAreBackups
  <2>2. Asked(r) = 0 /\ Asked(r)' = 1
    BY <1>1, <1>4 DEF Asked
  <2>3. PendingTarget(row) \in Nat
    BY ListsAreFinite
  <2>4. RoomIsLeft(r)'
    BY <1>1, <1>3, <1>6, <1>7, <2>2, <2>3 DEF Informed, RoomIsLeft
  <2> QED BY <2>1, <2>4 DEF Informed
<1> QED BY <1>1, <1>2, <1>3, <1>4, <1>8, OnlyTheActor

\* A row that becomes a waiting automatic one adds at most one to the list of
\* those and takes no room from it.
LEMMA OneMoreReady ==
    ASSUME row \in [Keys -> Row], NEW k \in Keys, NEW new \in Row,
           row' = [row EXCEPT ![k] = new], new.status = "PENDING",
           new.priority = BACKUP_PRIORITY
    PROVE  /\ Cardinality(AutomaticReady(row'))
                <= Cardinality(AutomaticReady(row)) + 1
           /\ PendingTarget(row) <= PendingTarget(row')
<1>1. row'[k] = new /\ \A j \in Keys \ {k} : row'[j] = row[j]
  OBVIOUS
<1>2. AutomaticReady(row') \subseteq AutomaticReady(row) \cup {k}
  BY <1>1 DEF AutomaticReady, Automatic
<1>3. /\ AutomaticRunning(row') \subseteq AutomaticRunning(row)
      /\ ProtectedReady(row') \subseteq ProtectedReady(row)
  BY <1>1 DEF AutomaticRunning, Automatic, ProtectedReady, BACKUP_PRIORITY
<1>4. \A t : /\ AutomaticReady(t) \subseteq Keys /\ AutomaticRunning(t) \subseteq Keys
             /\ ProtectedReady(t) \subseteq Keys
  BY DEF AutomaticReady, Automatic, AutomaticRunning, ProtectedReady
<1>5. \A S \in SUBSET Keys : IsFiniteSet(S) /\ Cardinality(S) \in Nat
  BY RebalancerAssumption, FS_Subset, FS_CardinalityType
<1>6. Cardinality(AutomaticReady(row')) <= Cardinality(AutomaticReady(row)) + 1
  <2>1. /\ IsFiniteSet(AutomaticReady(row) \cup {k})
        /\ Cardinality(AutomaticReady(row) \cup {k}) =
              IF k \in AutomaticReady(row) THEN Cardinality(AutomaticReady(row))
              ELSE Cardinality(AutomaticReady(row)) + 1
    BY <1>4, <1>5, FS_AddElement
  <2>2. Cardinality(AutomaticReady(row'))
          <= Cardinality(AutomaticReady(row) \cup {k})
    BY <1>2, <2>1, FS_Subset
  <2> QED BY <1>4, <1>5, <2>1, <2>2
<1>7. /\ Cardinality(AutomaticRunning(row')) <= Cardinality(AutomaticRunning(row))
      /\ Cardinality(ProtectedReady(row')) <= Cardinality(ProtectedReady(row))
  BY <1>3, <1>4, <1>5, FS_Subset
<1>8. /\ Cardinality(AutomaticRunning(row)) \in Nat
      /\ Cardinality(AutomaticRunning(row')) \in Nat
      /\ Cardinality(ProtectedReady(row)) \in Nat
      /\ Cardinality(ProtectedReady(row')) \in Nat
  BY <1>4, <1>5
<1> QED BY <1>6, <1>7, <1>8, RebalancerAssumption DEF PendingTarget, NonNegative

\* The write of an automatic request: it fails, leaves the rows alone or
\* makes its row a waiting automatic one.
LEMMA RefillEffect ==
    ASSUME TypeOK, NEW r \in Clients, NEW q \in call[r], WriteRequest(r, q),
           q.priority = BACKUP_PRIORITY, ~q.availableNow
    PROVE  \/ Throws(q)
           \/ row' = row
           \/ \E new \in Row : /\ row' = [row EXCEPT ![q.key] = new]
                               /\ new.status = "PENDING"
                               /\ new.priority = BACKUP_PRIORITY
<1>1. /\ q \in Request /\ q.key \in Keys /\ q.found \in Found
      /\ row[q.key] \in Row /\ row \in [Keys -> Row]
  BY DEF TypeOK, Request
<1>2. CASE CreateNewQueueJob(q)
  <2>1. Created(row[q.key], BACKUP_PRIORITY) \in Row
    BY <1>1, RowWritesAreRows DEF Priorities
  <2>2. /\ Created(row[q.key], BACKUP_PRIORITY).status = "PENDING"
        /\ Created(row[q.key], BACKUP_PRIORITY).priority = BACKUP_PRIORITY
    BY DEF Created, NoRow
  <2> QED BY <1>2, <2>1, <2>2 DEF CreateNewQueueJob, Throws
<1>3. CASE UpdateActiveExistingJob(q)
  <2>1. ~(q.priority > q.found.priority)
    BY <1>1 DEF Found, Priorities, BACKUP_PRIORITY, PUBLIC_QUEUE_PRIORITY
  <2>2. UpdatedActive(row[q.key], q) = row[q.key]
    BY <2>1 DEF UpdatedActive
  <2> QED BY <1>1, <1>3, <2>2 DEF UpdateActiveExistingJob
<1>4. CASE RequeueInactiveExistingJob(q)
  <2>1. Requeued(row[q.key], BACKUP_PRIORITY) \in Row
    BY <1>1, RowWritesAreRows DEF Priorities
  <2>2. /\ Requeued(row[q.key], BACKUP_PRIORITY).status = "PENDING"
        /\ Requeued(row[q.key], BACKUP_PRIORITY).priority = BACKUP_PRIORITY
    BY <1>1 DEF Requeued, Row
  <2> QED BY <1>4, <2>1, <2>2 DEF RequeueInactiveExistingJob, Throws
<1> QED BY <1>2, <1>3, <1>4 DEF WriteRequest

LEMMA WriteKeeps ==
    ASSUME RInv, NEW r \in Rebalancers, NEW q \in call[r], RefillWrite(r, q)
    PROVE  RInv'
<1> DEFINE p == IF Throws(q) THEN IdlePlan ELSE plan[r]
<1>1. /\ TypeOK /\ plan[r] \in Plan /\ Goes(r, p) /\ WriteRequest(r, q)
      /\ plan[r].step = "refilling" /\ r \in Clients /\ row \in [Keys -> Row]
  BY RebalancerAssumption DEF RInv, RTypeOK, RefillWrite, TypeOK
<1>2. TypeOK'
  <2>1. Rebalance(r)
    BY DEF Rebalance
  <2> QED BY <1>1, <2>1, EffectOfRebalance, EffectTyped
<1>3. p \in Plan
  BY <1>1, IdlePlanIsPlan
<1>4. Informed(r)
  BY DEF RInv
<1>5. call[r] = {q} /\ q.priority = BACKUP_PRIORITY /\ ~q.availableNow
  BY <1>4 DEF Informed, CallsAreBackups
<1>6. call'[r] = {} /\ \A s \in Rebalancers \ {r} : call'[s] = call[s]
  BY <1>1, <1>5, RebalancerAssumption DEF WriteRequest, TypeOK
<1>7. \/ Throws(q)
      \/ /\ Cardinality(AutomaticReady(row'))
              <= Cardinality(AutomaticReady(row)) + 1
         /\ PendingTarget(row) <= PendingTarget(row')
  <2>1. q.key \in Keys
    BY <1>1 DEF TypeOK, Request
  <2>2. CASE row' = row
    BY <2>2, ListsAreFinite
  <2>3. ASSUME NEW new \in Row, row' = [row EXCEPT ![q.key] = new],
               new.status = "PENDING", new.priority = BACKUP_PRIORITY
        PROVE  /\ Cardinality(AutomaticReady(row'))
                    <= Cardinality(AutomaticReady(row)) + 1
               /\ PendingTarget(row) <= PendingTarget(row')
    BY <1>1, <2>1, <2>3, OneMoreReady
  <2> QED BY <1>1, <1>5, <2>2, <2>3, RefillEffect
<1>8. plan'[r] = p => Informed(r)'
  <2> SUFFICES ASSUME plan'[r] = p PROVE Informed(r)'
    OBVIOUS
  <2>1. SeenIsTrue(r)' /\ CallsAreBackups(r)'
    BY <1>1, <1>6 DEF SeenIsTrue, CallsAreBackups, IdlePlan
  <2>2. CASE Throws(q)
    BY <2>1, <2>2 DEF Informed, RoomIsLeft, IdlePlan
  <2>3. CASE ~Throws(q)
    <3>1. Asked(r) = 1 /\ Asked(r)' = 0 /\ plan'[r] = plan[r]
      BY <1>5, <1>6, <2>3 DEF Asked
    <3>2. /\ Cardinality(AutomaticReady(row)) \in Nat
          /\ Cardinality(AutomaticReady(row')) \in Nat
          /\ PendingTarget(row) \in Nat /\ PendingTarget(row') \in Nat
          /\ plan[r].slots \in Nat
      BY <1>1, ListsAreFinite DEF Plan
    <3>3. RoomIsLeft(r)'
      BY <1>1, <1>4, <1>7, <2>3, <3>1, <3>2 DEF Informed, RoomIsLeft
    <3> QED BY <2>1, <3>3 DEF Informed
  <2> QED BY <2>2, <2>3
<1> HIDE DEF p
<1> QED BY <1>1, <1>2, <1>3, <1>6, <1>8, OnlyTheActor

LEMMA FinishKeeps ==
    ASSUME RInv, NEW r \in Rebalancers, FinishRebalance(r)
    PROVE  RInv'
<1>1. /\ Goes(r, IdlePlan) /\ call[r] = {} /\ UNCHANGED vars /\ TypeOK'
  BY DEF FinishRebalance, RInv, RTypeOK, TypeOK, vars
<1>2. plan'[r] = IdlePlan => Informed(r)'
  BY <1>1 DEF Informed, SeenIsTrue, CallsAreBackups, RoomIsLeft, IdlePlan, vars
<1>3. \A s \in Rebalancers : call'[s] = call[s]
  BY <1>1 DEF vars
<1> QED BY <1>1, <1>2, <1>3, IdlePlanIsPlan, OnlyTheActor

LEMMA RebalancerStep == RInv /\ [RNext]_rvars => RInv'
<1> SUFFICES ASSUME RInv, [RNext]_rvars PROVE RInv'
  OBVIOUS
<1>1. CASE QueueStep
  <2>1. TypeOK'
    BY <1>1, EffectOfStep, EffectTyped DEF RNext, RInv, RTypeOK
  <2>2. plan' \in [Rebalancers -> Plan]
    <3>1. \A r \in Rebalancers :
            [plan[r] EXCEPT !.quiet = plan[r].quiet /\ row' = row] \in Plan
      BY DEF RInv, RTypeOK, Plan
    <3> QED BY <1>1, <3>1 DEF QueueStep
  <2>3. \A r \in Rebalancers : Informed(r)'
    BY <1>1, Bystander DEF QueueStep
  <2> QED BY <2>1, <2>2, <2>3 DEF RInv, RTypeOK
<1>2. ASSUME NEW r \in Rebalancers, Rebalance(r) PROVE RInv'
  BY <1>2, FetchKeeps, ParkKeeps, TrimKeeps, LookupKeeps, WriteKeeps, FinishKeeps
     DEF Rebalance
<1>3. CASE UNCHANGED rvars
  <2>1. TypeOK'
    BY <1>3, TypeStep DEF RInv, RTypeOK, rvars
  <2>2. \A r \in Rebalancers : Informed(r)'
    BY <1>3 DEF RInv, Informed, SeenIsTrue, CallsAreBackups, RoomIsLeft, Asked,
                rvars, vars
  <2> QED BY <1>3, <2>1, <2>2 DEF RInv, RTypeOK, rvars
<1> QED BY <1>1, <1>2, <1>3 DEF RNext

LEMMA RebalancersInformed == RSpec => []RInv
<1>1. RInit => RInv
  <2> SUFFICES ASSUME RInit PROVE RInv
    OBVIOUS
  <2>1. TypeOK
    BY NoRowIsRow, NoExecutionIsExecution DEF RInit, Init, TypeOK, PassStates
  <2>2. plan \in [Rebalancers -> Plan]
    BY IdlePlanIsPlan DEF RInit
  <2>3. \A r \in Rebalancers : plan[r].step = "idle" /\ call[r] = {}
    BY RebalancerAssumption DEF RInit, Init, IdlePlan
  <2> QED BY <2>1, <2>2, <2>3
          DEF RInv, RTypeOK, Informed, SeenIsTrue, CallsAreBackups, RoomIsLeft
<1> QED BY <1>1, RebalancerStep, PTL DEF RSpec

\* A rebalance between whose fetch and refill nobody else writes a row leaves
\* the automatic queue inside the budget, for any number of artworks, workers,
\* callers and rebalances at once, wherever the slots and calls then stand.
THEOREM BudgetKeptHolds == RSpec => []BudgetKept
<1>1. RInv => BudgetKept
  <2> SUFFICES ASSUME RInv, NEW r \in Rebalancers,
                      plan[r].step = "refilling" /\ plan[r].quiet
               PROVE  Cardinality(AutomaticReady(row)) <= PendingTarget(row)
    BY DEF BudgetKept
  <2>1. /\ Cardinality(AutomaticReady(row)) \in Nat /\ plan[r].slots \in Nat
        /\ PendingTarget(row) \in Nat
    BY ListsAreFinite DEF RInv, RTypeOK, Plan
  <2>2. Asked(r) \in {0, 1}
    BY DEF Asked
  <2>3. Cardinality(AutomaticReady(row)) + plan[r].slots + Asked(r)
          <= PendingTarget(row)
    BY DEF RInv, Informed, RoomIsLeft
  <2> QED BY <2>1, <2>2, <2>3
<1> QED BY <1>1, RebalancersInformed, PTL

\* Parking and trimming under live executions breaks neither the exclusive
\* claim nor the retry budget: the claims stay conditional on the row.
THEOREM RebalancedClaimHolds == RSpec => []ExclusiveClaim
<1>1. RInit => IdleOutsideBatch /\ ExclusiveClaim
  BY DEF RInit, Init, IdleOutsideBatch, Busy, ExclusiveClaim, ClaimHolds,
         OneOwner, RevokedHold, Owns, Holding, NoExecution
<1>2. RInv /\ IdleOutsideBatch /\ ExclusiveClaim /\ [RNext]_rvars
        => IdleOutsideBatch' /\ ExclusiveClaim'
  BY EffectOfStep, EffectIdle, EffectExclusive DEF RInv, RTypeOK
<1> QED BY <1>1, <1>2, RebalancersInformed, PTL DEF RSpec

\* The retry budget of a row holds under rebalances as well.
THEOREM RebalancedRetryBudgetHolds == RSpec => []RetryBudget
<1>1. RInit => RetryBudget
  BY MaxAttemptsAssumption DEF RInit, Init, RetryBudget, WithinBudget, NoRow
<1>2. RInv /\ RetryBudget /\ [RNext]_rvars => RetryBudget'
  BY EffectOfStep, EffectBudget DEF RInv, RTypeOK
<1> QED BY <1>1, <1>2, RebalancersInformed, PTL DEF RSpec

-----------------------------------------------------------------------------
(* The queue implements JobLifecycle.  The invariant behind it is           *)
(* ExclusiveClaim: an execution that nobody revoked holds its row RUNNING,  *)
(* so a row that waits, is settled or is gone has no holder.                *)

LifecycleInv == TypeOK /\ IdleOutsideBatch /\ ExclusiveClaim

LEMMA HolderRuns ==
    ASSUME LifecycleInv, NEW w \in Workers, NEW k \in Keys, Owns(w, k)
    PROVE  row[k].status = "RUNNING" /\ row[k].id = exec[w][k].id
BY DEF LifecycleInv, ExclusiveClaim, ClaimHolds, Matches

\* A step that changes no status and no holder stutters.
LEMMA SameLife ==
    ASSUME \A k \in Keys : row'[k].status = row[k].status,
           \A w \in Workers, k \in Keys : Owns(w, k)' <=> Owns(w, k)
    PROVE  UNCHANGED <<jobState, jobHeld>>
BY DEF jobState, jobHeld

\* A row that was RUNNING is settled or put back, and its holders lose it.
LEMMA ReleasedLife ==
    ASSUME NEW k \in Keys, row[k].status = "RUNNING",
           row'[k].status \in {"PENDING", "COMPLETED", "FAILED"},
           \A j \in Keys \ {k} : row'[j] = row[j],
           \A w \in Workers, j \in Keys :
              Owns(w, j)' <=> (j # k /\ Owns(w, j))
    PROVE  Lifecycle!Next
<1> DEFINE to == StateOf(row'[k].status)
<1>1. to \in {"waiting", "settled"} /\ to \in Lifecycle!States
  BY DEF StateOf, Lifecycle!States
<1>2. jobState[k] = "running"
  BY DEF jobState, StateOf
<1>3. jobState' = [jobState EXCEPT ![k] = to]
  BY DEF jobState
<1>4. jobHeld' = [jobHeld EXCEPT ![k] = {}]
  BY DEF jobHeld
<1> QED BY <1>1, <1>2, <1>3, <1>4 DEF Lifecycle!Next, Lifecycle!Release

\* A request creates the row or reopens a settled one.
LEMMA SubmittedLife ==
    ASSUME NEW k \in Keys, row[k].status \in {"ABSENT", "COMPLETED", "FAILED"},
           row'[k].status = "PENDING",
           \A j \in Keys \ {k} : row'[j] = row[j],
           \A w \in Workers, j \in Keys : Owns(w, j)' <=> Owns(w, j)
    PROVE  Lifecycle!Next
<1>1. jobState[k] \in {"absent", "settled"}
  BY DEF jobState, StateOf
<1>2. jobState' = [jobState EXCEPT ![k] = "waiting"]
  BY DEF jobState, StateOf
<1>3. UNCHANGED jobHeld
  BY DEF jobHeld
<1> QED BY <1>1, <1>2, <1>3 DEF Lifecycle!Next, Lifecycle!Submit

-----------------------------------------------------------------------------
\* A recovery, or a requeue of a live row, that takes the row of k.
LEMMA TakenLife ==
    ASSUME LifecycleInv, NEW k \in Keys, RevokeAll(k), UNCHANGED exec,
           row'[k].status \in {"PENDING", "COMPLETED", "FAILED"},
           \/ row[k].status = "RUNNING" \/ row'[k].status = row[k].status
           \/ row[k].status \in SettledStatuses /\ row'[k].status = "PENDING",
           \A j \in Keys \ {k} : row'[j] = row[j]
    PROVE  [Lifecycle!Next]_<<jobState, jobHeld>>
<1>1. \A w \in Workers, j \in Keys : Owns(w, j)' <=> (j # k /\ Owns(w, j))
  BY DEF RevokeAll, Holders, Owns, Holding
<1>2. CASE row[k].status = "RUNNING"
  BY <1>1, <1>2, ReleasedLife
<1>3. CASE row[k].status # "RUNNING"
  <2>1. \A w \in Workers : ~Owns(w, k)
    BY <1>3, HolderRuns
  <2>2. \A w \in Workers, j \in Keys : Owns(w, j)' <=> Owns(w, j)
    BY <1>1, <2>1
  <2>3. CASE row'[k].status = row[k].status
    <3>1. \A j \in Keys : row'[j].status = row[j].status
      BY <2>3
    <3> QED BY <3>1, <2>2, SameLife
  <2>4. CASE row[k].status \in SettledStatuses /\ row'[k].status = "PENDING"
    BY <2>2, <2>4, SubmittedLife DEF SettledStatuses
  <2> QED BY <1>3, <2>3, <2>4
<1> QED BY <1>2, <1>3

LEMMA RecoveryLife ==
    ASSUME LifecycleInv, NEW w \in Workers, NEW c \in stuck[w],
           ApplyRecovery(w, c)
    PROVE  [Lifecycle!Next]_<<jobState, jobHeld>>
<1>1. c.attempts \in Nat
  BY DEF LifecycleInv, TypeOK, StuckCopy
<1>2. PICK k \in Keys : k = c.key
  BY DEF LifecycleInv, TypeOK, StuckCopy
<1>3. CASE Matches(row[k], c.id, "RUNNING")
  <2>1. /\ RevokeAll(k) /\ UNCHANGED exec
        /\ row' = [row EXCEPT ![k] = Recovered(@, c.attempts)]
    BY <1>2, <1>3 DEF ApplyRecovery
  <2>2. row[k].status = "RUNNING" /\ row[k] \in Row
    BY <1>3 DEF Matches, LifecycleInv, TypeOK
  <2>3. /\ row'[k].status \in {"PENDING", "COMPLETED", "FAILED"}
        /\ \A j \in Keys \ {k} : row'[j] = row[j]
    BY <2>1, <2>2 DEF LifecycleInv, TypeOK, Recovered, Row
  <2>4. \A v \in Workers, j \in Keys : Owns(v, j)' <=> (j # k /\ Owns(v, j))
    BY <2>1 DEF RevokeAll, Holders, Owns, Holding
  <2> QED BY <2>2, <2>3, <2>4, ReleasedLife
<1>4. CASE ~Matches(row[k], c.id, "RUNNING")
  BY <1>2, <1>4, SameLife DEF ApplyRecovery, Owns, Holding
<1> QED BY <1>3, <1>4

LEMMA SelectionLife ==
    ASSUME LifecycleInv, NEW w \in Workers, SelectJobs(w)
    PROVE  UNCHANGED <<jobState, jobHeld>>
<1>1. UNCHANGED <<row, revoked>>
      /\ \A v \in Workers \ {w} : exec'[v] = exec[v]
  BY DEF SelectJobs, LifecycleInv, TypeOK
<1>2. \A k \in Keys : ~Holding(w, k)
  BY DEF SelectJobs, LifecycleInv, IdleOutsideBatch, Busy, Holding
<1> PICK selected \in SUBSET Keys :
      exec' = [exec EXCEPT ![w] = [k \in Keys |->
                IF k \in selected
                THEN [NoExecution EXCEPT !.phase = "selected",
                          !.id = row[k].id, !.before = row[k].attempts]
                ELSE NoExecution]]
  BY DEF SelectJobs
<1>3. \A k \in Keys : ~Holding(w, k)'
  BY DEF LifecycleInv, TypeOK, Holding, NoExecution
<1>4. \A v \in Workers, k \in Keys : Owns(v, k)' <=> Owns(v, k)
  BY <1>1, <1>2, <1>3 DEF Owns, Holding
<1> QED BY <1>1, <1>4, SameLife

LEMMA ClaimLife ==
    ASSUME LifecycleInv, NEW w \in Workers, NEW k \in Keys,
           MarkJobRunning(w, k)
    PROVE  [Lifecycle!Next]_<<jobState, jobHeld>>
<1>1. ~Holding(w, k) /\ <<w, k>> \notin revoked /\ UNCHANGED revoked
  BY DEF MarkJobRunning, Holding, LifecycleInv, ExclusiveClaim, RevokedHold
<1>2. CASE Matches(row[k], exec[w][k].id, "PENDING")
  <2>1. /\ row' = [row EXCEPT ![k] = Claimed(@)]
        /\ exec' = [exec EXCEPT ![w][k].phase = "claimed"]
    BY <1>2 DEF MarkJobRunning
  <2>2. row[k].status = "PENDING" /\ row'[k].status = "RUNNING"
        /\ \A j \in Keys \ {k} : row'[j] = row[j]
    BY <1>2, <2>1 DEF Matches, LifecycleInv, TypeOK, Claimed, Row
  <2>3. \A v \in Workers, j \in Keys :
          Holding(v, j)' <=> ((v = w /\ j = k) \/ Holding(v, j))
    BY <2>1 DEF Holding, LifecycleInv, TypeOK, Execution
  <2>4. \A v \in Workers : ~Owns(v, k)
    BY <2>2, HolderRuns
  <2>5. \A v \in Workers, j \in Keys :
          Owns(v, j)' <=> ((v = w /\ j = k) \/ (j # k /\ Owns(v, j)))
    BY <1>1, <2>3, <2>4 DEF Owns
  <2>6. jobState[k] = "waiting" /\ jobState' = [jobState EXCEPT ![k] = "running"]
    BY <2>2 DEF jobState, StateOf
  <2>7. jobHeld' = [jobHeld EXCEPT ![k] = {w}]
    BY <2>5 DEF jobHeld
  <2> QED BY <2>6, <2>7 DEF Lifecycle!Next, Lifecycle!Claim
<1>3. CASE ~Matches(row[k], exec[w][k].id, "PENDING")
  <2>1. UNCHANGED row /\ exec' = [exec EXCEPT ![w][k] = NoExecution]
    BY <1>3 DEF MarkJobRunning
  <2>2. \A v \in Workers, j \in Keys : Holding(v, j)' <=> Holding(v, j)
    BY <1>1, <2>1 DEF Holding, LifecycleInv, TypeOK, NoExecution
  <2> QED BY <1>1, <2>1, <2>2, SameLife DEF Owns
<1> QED BY <1>2, <1>3

LEMMA ReadBackLife ==
    ASSUME LifecycleInv, NEW w \in Workers, NEW k \in Keys,
           ReadRunningJob(w, k)
    PROVE  UNCHANGED <<jobState, jobHeld>>
<1> DEFINE there == row[k].id = exec[w][k].id /\ row[k].status # "ABSENT"
<1>1. UNCHANGED row /\ Holding(w, k)
  BY DEF ReadRunningJob, Holding
<1>2. CASE there
  <2>1. UNCHANGED revoked
        /\ exec' = [exec EXCEPT ![w][k] =
              [@ EXCEPT !.phase = "running", !.attempts = row[k].attempts,
                        !.bypass = shouldBypassSmartBudget(row[k].priority)]]
    BY <1>2 DEF ReadRunningJob
  <2>2. \A v \in Workers, j \in Keys : Holding(v, j)' <=> Holding(v, j)
    BY <1>1, <2>1 DEF Holding, LifecycleInv, TypeOK, Execution
  <2> QED BY <1>1, <2>1, <2>2, SameLife DEF Owns
<1>3. CASE ~there
  <2>1. ~Owns(w, k)
    BY <1>3, HolderRuns
  <2>2. revoked' = revoked \ {<<w, k>>}
        /\ exec' = [exec EXCEPT ![w][k] = NoExecution]
    BY <1>3 DEF ReadRunningJob
  <2>3. \A v \in Workers, j \in Keys :
          Holding(v, j)' <=> (~(v = w /\ j = k) /\ Holding(v, j))
    BY <2>2 DEF Holding, LifecycleInv, TypeOK, NoExecution
  <2>4. \A v \in Workers, j \in Keys : Owns(v, j)' <=> Owns(v, j)
    BY <2>1, <2>2, <2>3 DEF Owns
  <2> QED BY <1>1, <2>4, SameLife
<1> QED BY <1>2, <1>3

LEMMA FinalLife ==
    ASSUME LifecycleInv, NEW w \in Workers, NEW k \in Keys, NEW outcome,
           outcome.status \in {"PENDING", "COMPLETED", "FAILED"},
           \E judged \in BOOLEAN : Finalize(w, k, outcome, judged)
    PROVE  [Lifecycle!Next]_<<jobState, jobHeld>>
<1>1. exec' = [exec EXCEPT ![w][k] = NoExecution]
  BY DEF Finalize
<1>2. \A v \in Workers, j \in Keys :
        Holding(v, j)' <=> (~(v = w /\ j = k) /\ Holding(v, j))
  BY <1>1 DEF Holding, LifecycleInv, TypeOK, NoExecution
<1>3. CASE Matches(row[k], exec[w][k].id, "RUNNING")
  <2>1. /\ row' = [row EXCEPT ![k] = outcome]
        /\ revoked' = (revoked \cup Holders(k)) \ {<<w, k>>}
    BY <1>3 DEF Finalize
  <2>2. /\ row[k].status = "RUNNING" /\ row'[k] = outcome
        /\ \A j \in Keys \ {k} : row'[j] = row[j]
    BY <1>3, <2>1 DEF Matches, LifecycleInv, TypeOK
  <2>3. \A v \in Workers, j \in Keys :
          Owns(v, j)' <=> (j # k /\ Owns(v, j))
    BY <1>2, <2>1 DEF Owns, Holders
  <2>4. row'[k].status \in {"PENDING", "COMPLETED", "FAILED"}
    BY <2>2
  <2> QED BY <2>2, <2>3, <2>4, ReleasedLife
<1>4. CASE ~Matches(row[k], exec[w][k].id, "RUNNING")
  <2>1. UNCHANGED row /\ revoked' = revoked \ {<<w, k>>}
    BY <1>4 DEF Finalize
  <2>2. ~Owns(w, k)
    BY <1>4, HolderRuns DEF Matches
  <2>3. \A v \in Workers, j \in Keys : Owns(v, j)' <=> Owns(v, j)
    BY <1>2, <2>1, <2>2 DEF Owns
  <2> QED BY <2>1, <2>3, SameLife
<1> QED BY <1>3, <1>4

LEMMA ConclusionLife ==
    ASSUME LifecycleInv, NEW w \in Workers, NEW k \in Keys, Conclude(w, k)
    PROVE  [Lifecycle!Next]_<<jobState, jobHeld>>
<1>1. row[k] \in Row
  BY DEF LifecycleInv, TypeOK
<1>2. CASE FinalizeJobSuccess(w, k)
  <2>1. Completed(row[k]).status \in {"PENDING", "COMPLETED", "FAILED"}
    BY <1>1 DEF Completed, Row
  <2>2. \E judged \in BOOLEAN : Finalize(w, k, Completed(row[k]), judged)
    BY <1>2 DEF FinalizeJobSuccess
  <2> QED BY <2>1, <2>2, FinalLife
<1>3. CASE FinalizeJobDeferred(w, k)
  <2> DEFINE outcome == Deferred(row[k], exec[w][k].before)
  <2>1. outcome.status \in {"PENDING", "COMPLETED", "FAILED"}
    BY <1>1 DEF Deferred, Row
  <2>2. \E judged \in BOOLEAN : Finalize(w, k, outcome, judged)
    BY <1>3 DEF FinalizeJobDeferred
  <2> QED BY <2>1, <2>2, FinalLife
<1>4. CASE FinalizeJobFailure(w, k)
  <2> DEFINE outcome == Retried(row[k], exec[w][k].attempts)
  <2>1. outcome.status \in {"PENDING", "COMPLETED", "FAILED"}
    BY <1>1 DEF Retried, Row
  <2>2. \E judged \in BOOLEAN : Finalize(w, k, outcome, judged)
    BY <1>4 DEF FinalizeJobFailure
  <2> QED BY <2>1, <2>2, FinalLife
<1> QED BY <1>2, <1>3, <1>4 DEF Conclude

LEMMA DropLife ==
    ASSUME LifecycleInv, NEW w \in Workers, NEW k \in Keys,
           NEW dropped \in SUBSET Keys, DropPendingJobs(w, k, dropped)
    PROVE  [Lifecycle!Next]_<<jobState, jobHeld>>
<1>1. /\ \A j \in dropped : row[j].status = "PENDING"
      /\ \A j \in Keys : row'[j] = IF j \in dropped THEN Deleted(row[j])
                                                   ELSE row[j]
      /\ UNCHANGED <<exec, revoked>>
  BY DEF DropPendingJobs
<1>2. \A j \in dropped : row'[j].status = "ABSENT"
  BY <1>1 DEF Deleted, NoRow
<1>3. /\ \A j \in dropped : jobState[j] = "waiting"
      /\ jobState' = [j \in Keys |-> IF j \in dropped THEN "absent"
                                                      ELSE jobState[j]]
  BY <1>1, <1>2 DEF jobState, StateOf
<1>4. UNCHANGED jobHeld
  BY <1>1 DEF jobHeld, Owns, Holding
<1> QED BY <1>3, <1>4 DEF Lifecycle!Next, Lifecycle!Withdraw

LEMMA CrashLife ==
    ASSUME LifecycleInv, NEW w \in Workers, Crash(w)
    PROVE  [Lifecycle!Next]_<<jobState, jobHeld>>
<1>1. UNCHANGED row /\ revoked' = revoked \ ({w} \X Keys)
      /\ exec' = [exec EXCEPT ![w] = [k \in Keys |-> NoExecution]]
  BY DEF Crash
<1>2. \A v \in Workers, j \in Keys : Holding(v, j)' <=> (v # w /\ Holding(v, j))
  BY <1>1 DEF Holding, LifecycleInv, TypeOK, NoExecution
<1>3. \A v \in Workers, j \in Keys : Owns(v, j)' <=> (v # w /\ Owns(v, j))
  BY <1>1, <1>2 DEF Owns
<1>4. UNCHANGED jobState
  BY <1>1 DEF jobState
<1>5. jobHeld' = [j \in Keys |-> jobHeld[j] \ {w}]
  BY <1>3 DEF jobHeld
<1> QED BY <1>4, <1>5 DEF Lifecycle!Next, Lifecycle!Abandon

LEMMA RequestLife ==
    ASSUME LifecycleInv, NEW c \in Clients, NEW q \in call[c],
           WriteRequest(c, q)
    PROVE  [Lifecycle!Next]_<<jobState, jobHeld>>
<1>1. q \in Request /\ q.key \in Keys /\ row[q.key] \in Row /\ UNCHANGED exec
  BY DEF LifecycleInv, TypeOK, Request, WriteRequest
<1>2. CASE UNCHANGED <<row, revoked>>
  BY <1>1, <1>2, SameLife DEF Owns, Holding
<1>3. CASE CreateNewQueueJob(q) /\ row[q.key].status = "ABSENT"
  <2>1. row' = [row EXCEPT ![q.key] = Created(@, q.priority)]
        /\ UNCHANGED revoked
    BY <1>3 DEF CreateNewQueueJob
  <2>2. row'[q.key].status = "PENDING"
        /\ \A j \in Keys \ {q.key} : row'[j] = row[j]
    BY <1>1, <2>1 DEF LifecycleInv, TypeOK, Created, NoRow
  <2>3. \A w \in Workers, j \in Keys : Owns(w, j)' <=> Owns(w, j)
    BY <1>1, <2>1 DEF Owns, Holding
  <2> QED BY <1>1, <1>3, <2>2, <2>3, SubmittedLife
<1>4. CASE UpdateActiveExistingJob(q) /\ StillThere(q)
  <2>1. row' = [row EXCEPT ![q.key] = UpdatedActive(@, q)]
        /\ UNCHANGED revoked
    BY <1>4 DEF UpdateActiveExistingJob
  <2>2. \A j \in Keys : row'[j].status = row[j].status
    BY <1>1, <2>1, UpdatedActiveKeeps DEF LifecycleInv, TypeOK
  <2> QED BY <1>1, <2>1, <2>2, SameLife DEF Owns, Holding
<1>5. CASE RequeueInactiveExistingJob(q) /\ StillThere(q)
  <2>1. row' = [row EXCEPT ![q.key] = Requeued(@, q.priority)]
        /\ RevokeAll(q.key)
    BY <1>5 DEF RequeueInactiveExistingJob
  <2>2. row'[q.key].status = "PENDING"
        /\ \A j \in Keys \ {q.key} : row'[j] = row[j]
    BY <1>1, <2>1 DEF LifecycleInv, TypeOK, Requeued, Row
  <2>3. row[q.key].status \in {"PENDING", "RUNNING"} \cup SettledStatuses
    BY <1>1, <1>5 DEF StillThere, Row, Statuses, ActiveStatuses
  <2>4. \/ row[q.key].status = "RUNNING"
        \/ row'[q.key].status = row[q.key].status
        \/ row[q.key].status \in SettledStatuses /\ row'[q.key].status = "PENDING"
    BY <2>2, <2>3
  <2>5. row'[q.key].status \in {"PENDING", "COMPLETED", "FAILED"}
    BY <2>2
  <2> QED BY <1>1, <2>1, <2>2, <2>4, <2>5, TakenLife
<1> QED
  BY <1>2, <1>3, <1>4, <1>5 DEF WriteRequest, CreateNewQueueJob,
     UpdateActiveExistingJob, RequeueInactiveExistingJob

-----------------------------------------------------------------------------
LEMMA StepLife ==
    LifecycleInv /\ [Next]_vars => [Lifecycle!Next]_<<jobState, jobHeld>>
<1> SUFFICES ASSUME LifecycleInv, [Next]_vars
             PROVE  [Lifecycle!Next]_<<jobState, jobHeld>>
  OBVIOUS
<1>1. ASSUME NEW k \in Keys, BecomeAvailable(k) \/ GoStale(k)
      PROVE UNCHANGED <<jobState, jobHeld>>
  <2>1. \A j \in Keys : row'[j].status = row[j].status
    BY <1>1 DEF BecomeAvailable, GoStale, LifecycleInv, TypeOK, Row
  <2>2. UNCHANGED <<exec, revoked>>
    BY <1>1 DEF BecomeAvailable, GoStale
  <2> QED BY <2>1, <2>2, SameLife DEF Owns, Holding
<1>2. CASE UNCHANGED <<row, exec, revoked>>
  BY <1>2, SameLife DEF Owns, Holding
<1>3. \/ \E k \in Keys : BecomeAvailable(k) \/ GoStale(k)
      \/ \E w \in Workers : \E c \in stuck[w] : ApplyRecovery(w, c)
      \/ \E w \in Workers : SelectJobs(w) \/ Crash(w)
      \/ \E w \in Workers, k \in Keys :
            MarkJobRunning(w, k) \/ ReadRunningJob(w, k) \/ Conclude(w, k)
      \/ \E w \in Workers, k \in Keys, dropped \in SUBSET Keys :
            DropPendingJobs(w, k, dropped)
      \/ \E c \in Clients : \E q \in call[c] : WriteRequest(c, q)
      \/ UNCHANGED <<row, exec, revoked>>
  BY DEF Next, WorkerStep, vars, BeginPass, Restart, FindExisting
<1> QED
  BY <1>1, <1>2, <1>3, RecoveryLife, SelectionLife, ClaimLife, ReadBackLife,
     ConclusionLife, DropLife, CrashLife, RequestLife

\* The queue implements the life cycle: whatever workers, recoveries and
\* callers do between each other's statements, a job is claimed by one worker
\* while it waits, held until it is released, and never disappears while it
\* runs.
THEOREM LifecycleImplemented == Spec => ImplementsLifecycle
<1>1. Init => Lifecycle!Init
  BY DEF Init, Lifecycle!Init, jobState, jobHeld, StateOf, NoRow, Owns,
         Holding, NoExecution
<1>2. LifecycleInv /\ [Next]_vars => [Lifecycle!Next]_<<jobState, jobHeld>>
  BY StepLife
<1>3. Spec => []LifecycleInv
  BY TypeCorrect, IdleHolds, ExclusiveClaimHolds, PTL DEF LifecycleInv
<1> QED BY <1>1, <1>2, <1>3, PTL DEF Spec, ImplementsLifecycle, Lifecycle!Spec
=============================================================================
