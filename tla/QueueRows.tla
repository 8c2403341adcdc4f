----------------------------- MODULE QueueRows -----------------------------
(***************************************************************************)
(* The QueueJob table row of one BACKUP_ARTWORK job and what each single   *)
(* SQL statement of src/src/server/archive/jobs writes into it.            *)
(*                                                                         *)
(* The operators are the data halves of the statements: whether a          *)
(* statement applies (its where clause) is decided by the actions that use *)
(* them.  Instants are reduced to the two comparisons the code makes:      *)
(* ready is "availableAt is not in the future" and stale is "startedAt is  *)
(* more than STALE_RUNNING_JOB_MS ago".  The payload is {artworkId}, a     *)
(* function of the dedupe key, and maxAttempts is never passed by          *)
(* queueArtworkBackup, so neither is a field.                              *)
(***************************************************************************)
EXTENDS Integers

CONSTANT MaxAttempts          \* QueueJob.maxAttempts (schema default 3)

ASSUME MaxAttemptsAssumption == MaxAttempts \in Nat \ {0}

BACKUP_PRIORITY == 8
PUBLIC_QUEUE_PRIORITY == 20
Priorities == {BACKUP_PRIORITY, PUBLIC_QUEUE_PRIORITY}

\* Public jobs are exempt from the smart-pin budget.
shouldBypassSmartBudget(priority) == priority >= PUBLIC_QUEUE_PRIORITY

\* QueueJobStatus, with ABSENT for "no row".  CANCELLED is never written:
\* every deferral of backupArtwork asks to retain the job.
ActiveStatuses == {"PENDING", "RUNNING"}
SettledStatuses == {"COMPLETED", "FAILED"}
Statuses == {"ABSENT"} \cup ActiveStatuses \cup SettledStatuses

Row == [id : Nat, status : Statuses, priority : Priorities, attempts : Nat,
        ready : BOOLEAN, stale : BOOLEAN]

NoRow == [id |-> 0, status |-> "ABSENT", priority |-> BACKUP_PRIORITY,
          attempts |-> 0, ready |-> FALSE, stale |-> FALSE]

isReadyPendingJob(r) == r.status = "PENDING" /\ r.ready

\* Mutants (PROJECT.json): a where clause that forgets the status, and the
\* boundary of the retry budget off by one.
MatchesAnyStatus(r, i, s) == r.id = i
exhaustedLate(attempts) == attempts > MaxAttempts

\* The where clauses "id = i and status = s" of the conditional updates.
Matches(r, i, s) == r.id = i /\ r.status = s

exhausted(attempts) == attempts >= MaxAttempts

-----------------------------------------------------------------------------
\* createNewQueueJob: a row with a fresh id, available at once.
Created(r, priority) ==
    [NoRow EXCEPT !.id = r.id + 1, !.status = "PENDING",
                  !.priority = priority, !.ready = TRUE]

\* requeueInactiveExistingJob: the row starts over.
Requeued(r, priority) ==
    [r EXCEPT !.status = "PENDING", !.priority = priority, !.attempts = 0,
              !.ready = TRUE, !.stale = FALSE]

\* markJobRunning.
Claimed(r) ==
    [r EXCEPT !.status = "RUNNING", !.attempts = @ + 1, !.stale = FALSE]

\* applyRunningJobRecovery, decided on the attempts of the recovered copy.
Recovered(r, attempts) ==
    IF exhausted(attempts)
    THEN [r EXCEPT !.status = "FAILED", !.stale = FALSE]
    ELSE [r EXCEPT !.status = "PENDING", !.ready = TRUE, !.stale = FALSE]

\* finalizeJobSuccess.
Completed(r) == [r EXCEPT !.status = "COMPLETED", !.stale = FALSE]

\* finalizeJobDeferred: attempts is taken from the copy read BEFORE the
\* claim, so the claim's increment and one more attempt are given back.
Deferred(r, attemptsBeforeClaim) ==
    [r EXCEPT !.status = "PENDING", !.ready = FALSE, !.stale = FALSE,
              !.attempts = IF attemptsBeforeClaim > 0
                           THEN attemptsBeforeClaim - 1 ELSE 0]

\* Mutant: a failure gives its attempt back, as a deferral does.
RetriedForEver(r, attempts) ==
    IF exhausted(attempts)
    THEN [r EXCEPT !.status = "FAILED", !.stale = FALSE]
    ELSE [r EXCEPT !.status = "PENDING", !.ready = FALSE, !.stale = FALSE,
                   !.attempts = IF attempts > 0 THEN attempts - 1 ELSE 0]

\* finalizeJobFailure, decided on the attempts of the claimed copy.
Retried(r, attempts) ==
    IF exhausted(attempts)
    THEN [r EXCEPT !.status = "FAILED", !.stale = FALSE]
    ELSE [r EXCEPT !.status = "PENDING", !.ready = FALSE, !.stale = FALSE]

\* deleteMany; the id stays behind so that a later row gets another one.
Deleted(r) == [NoRow EXCEPT !.id = r.id]
=============================================================================
