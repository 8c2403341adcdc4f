---------------------------- MODULE WorkerCycle ----------------------------
(***************************************************************************)
(* The processes around the queue: worker daemons that run one cycle after *)
(* another (src/scripts/worker.ts, src/src/server/archive/worker.ts) and   *)
(* browsers whose recovery calls let the web server step in for a worker   *)
(* that seems to be gone (watchdog.ts).  They see each other only through  *)
(* the heartbeat rows, the jobs and two advisory locks.                    *)
(*                                                                         *)
(* A pass of processQueuedJobs is reduced to taking a batch and finishing  *)
(* its jobs: ArchiveQueue has its statements.                              *)
(***************************************************************************)
EXTENDS Integers, FiniteSets

CONSTANTS
    Daemons,        \* worker processes, each with its own --worker-key
    Pages,          \* recovery calls of the web server under way
    Jobs,
    Nobody,         \* the holder of a free lock, the key of no heartbeat
    Casts,          \* which processes take part, each with its own bounds
    Limit,          \* the limit of runWorkerCycle
    MaxTries        \* QueueJob.maxAttempts

\* asked are the queued backups that a user has asked for, with a priority of
\* PUBLIC_QUEUE_PRIORITY or more, and automatic the others.
\* deaths bounds the processes that are killed, faults the signals, the cycles
\* that fail, the ingress locks that time out and the heartbeats that are late.
Cast == [procs : SUBSET (Daemons \cup Pages), asked : SUBSET Jobs,
         automatic : SUBSET Jobs, deaths : Nat, faults : Nat]

ASSUME CycleAssumption ==
    /\ Nobody \notin Daemons \cup Pages \cup {"web-watchdog-worker"}
    /\ Daemons \cap Pages = {} /\ "web-watchdog-worker" \notin Daemons
    /\ Casts \subseteq Cast
    /\ {Limit, MaxTries} \subseteq Nat \ {0}
    /\ IsFiniteSet(Jobs)

VARIABLES
    cast,       \* the processes that take part and the bounds: it never changes
    beat,       \* WorkerHeartbeat.status, by workerKey
    latest,     \* the workerKey whose lastSeenAt is the latest
    fresh,      \* that heartbeat is younger than ARCHIVE_WORKER_FRESH_MS
    beating,    \* processes with a keep-alive heartbeat on its way
    job,        \* the queue
    proc,       \* every process: where it is and what it is working on
    ingress,    \* who holds the advisory lock of the ingress cycle
    watchdog,   \* who holds the advisory lock of the watchdog
    mishaps     \* events counted against the bounds

cycleVars == <<cast, beat, latest, fresh, beating, job, proc, ingress,
               watchdog, mishaps>>
beatVars == <<beat, latest, fresh>>
lockVars == <<ingress, watchdog>>

Key(p) == IF p \in Daemons THEN p ELSE "web-watchdog-worker"
WorkerKeys == Daemons \cup {"web-watchdog-worker"}

\* batch has the jobs that were claimed, with the attempts they had before,
\* and list what a recovery has read; unread are the queries of a look that
\* have not returned and found those that have found something; room is what
\* is left of the limit; left are the jobs and loose is the ingress callback
\* that carry on behind a cycle that has failed; stopping says whether a
\* signal has come.
Process(at) == [at |-> at, batch |-> {}, list |-> {}, unread |-> {},
                found |-> {}, room |-> 0, left |-> {}, loose |-> FALSE,
                stopping |-> FALSE]

CycleSteps == {"first", "working", "ingress", "inside", "second", "finishing",
               "end", "error"}
InCycle(p) == proc[p].at \in CycleSteps

CycleInit ==
    /\ cast \in Casts
    /\ beat = [k \in WorkerKeys |-> "none"]
    /\ latest = Nobody /\ fresh = FALSE /\ beating = {}
    /\ job = [j \in Jobs |->
          [status |-> IF j \in cast.asked \cup cast.automatic THEN "waiting"
                                                             ELSE "settled",
           tries |-> 0, stale |-> FALSE]]
    /\ proc = [p \in Daemons \cup Pages |->
                  Process(IF p \in Daemons THEN "off" ELSE "away")]
    /\ ingress = Nobody /\ watchdog = Nobody
    /\ mishaps = [deaths |-> 0, faults |-> 0]

Fault == /\ mishaps.faults < cast.faults
         /\ mishaps' = [mishaps EXCEPT !.faults = @ + 1]

-----------------------------------------------------------------------------
(* Heartbeats.                                                             *)

\* updateWorkerHeartbeat.
Beat(p, status) ==
    /\ beat' = [beat EXCEPT ![Key(p)] = status]
    /\ latest' = Key(p) /\ fresh' = TRUE

\* The keep-alive interval fires; its upsert is not awaited, so the last one
\* may reach the table after the heartbeat that ends the cycle.
KeepAlive(p) ==
    /\ InCycle(p) /\ p \notin beating
    /\ \/ Beat(p, "RUNNING") /\ UNCHANGED <<beating, mishaps>>
       \/ /\ proc[p].at \in {"end", "error"} /\ Fault
          /\ beating' = beating \cup {p} /\ UNCHANGED beatVars
    /\ UNCHANGED <<cast, job, proc, lockVars>>

LandKeepAlive(p) ==
    /\ p \in beating
    /\ beating' = beating \ {p}
    /\ Beat(p, "RUNNING")
    /\ UNCHANGED <<cast, job, proc, lockVars, mishaps>>

\* Ninety seconds pass; a cycle beats every twenty.
Age ==
    /\ fresh
    /\ \A p \in Daemons \cup Pages : InCycle(p) => Key(p) # latest
    /\ fresh' = FALSE
    /\ UNCHANGED <<cast, beat, latest, beating, job, proc, lockVars, mishaps>>

-----------------------------------------------------------------------------
(* runWorkerCycle.                                                         *)

At(p, at) == proc[p].at = at
Goto(p, at) == proc' = [proc EXCEPT ![p].at = at]

\* The RUNNING heartbeat of a cycle.
BeginCycle(p) ==
    /\ At(p, "begin")
    /\ Beat(p, "RUNNING")
    /\ proc' = [proc EXCEPT ![p].at = "first", ![p].room = Limit]
    /\ UNCHANGED <<cast, beating, job, lockVars, mishaps>>

\* The attempts that a deferral writes, from the row before the claim.
GivenBack(tries) == IF tries > 0 THEN tries - 1 ELSE 0

\* What a recovery makes of a row, decided on the attempts it has read.
RecoveredJob(r, tries) ==
    [r EXCEPT !.status = IF tries >= MaxTries THEN "settled" ELSE "waiting",
              !.stale = FALSE]

\* selectProcessableJobs: what a user has asked for comes first and is never
\* passed over.  Automatic jobs are, if the budget blocks them, if they share
\* a root with the batch or if they are one repair too many: a free choice.
IsBatch(batch, waiting, room) ==
    /\ batch \subseteq waiting /\ Cardinality(batch) <= room
    /\ \/ waiting \cap cast.asked \subseteq batch
       \/ batch \subseteq cast.asked /\ Cardinality(batch) = room

\* processQueuedJobs: the stale rows are recovered, the batch is claimed.
TakeBatch(p) ==
    LET fallow == [j \in Jobs |-> IF job[j].status = "running" /\ job[j].stale
                                  THEN RecoveredJob(job[j], job[j].tries)
                                  ELSE job[j]]
        waiting == {j \in Jobs : fallow[j].status = "waiting"}
    IN  /\ proc[p].at \in {"first", "second"}
        /\ \E batch \in SUBSET waiting :
              /\ IsBatch(batch, waiting, proc[p].room)
              /\ job' = [j \in Jobs |->
                    IF j \in batch
                    THEN [fallow[j] EXCEPT !.status = "running", !.tries = @ + 1]
                    ELSE fallow[j]]
              /\ proc' = [proc EXCEPT
                    ![p].batch = {<<j, fallow[j].tries>> : j \in batch},
                    ![p].room = @ - Cardinality(batch),
                    ![p].at = IF @ = "first" THEN "working" ELSE "finishing"]
        /\ UNCHANGED <<cast, beatVars, beating, lockVars, mishaps>>

\* An outcome is written if the row is RUNNING, whoever claimed it.
Outcome(r, status, tries) ==
    IF r.status = "running"
    THEN [status |-> status, tries |-> tries, stale |-> FALSE] ELSE r

\* runJob: a job succeeds, fails, or, if it is automatic, is put off by the
\* budget, which gives the attempt and the one before it back.
FinishJob(p, c) ==
    /\ c \in proc[p].batch \cup proc[p].left
    /\ proc' = [proc EXCEPT ![p].batch = @ \ {c}, ![p].left = @ \ {c}]
    /\ \/ job' = [job EXCEPT ![c[1]] = Outcome(@, "settled", @.tries)]
       \/ /\ c[2] + 1 < MaxTries
          /\ job' = [job EXCEPT ![c[1]] = Outcome(@, "delayed", @.tries)]
       \/ /\ c[1] \in cast.automatic
          /\ job' = [job EXCEPT ![c[1]] = Outcome(@, "delayed", GivenBack(c[2]))]
    /\ UNCHANGED <<cast, beatVars, beating, lockVars, mishaps>>

FinishJobs(p) == \E c \in proc[p].batch \cup proc[p].left : FinishJob(p, c)

\* availableAt has come.
ComesDue(j) ==
    /\ job[j].status = "delayed"
    /\ job' = [job EXCEPT ![j].status = "waiting"]
    /\ UNCHANGED <<cast, beatVars, beating, proc, lockVars, mishaps>>

\* The passes end; only daemons go through the ingress cycle.
EndPass(p) ==
    /\ proc[p].at \in {"working", "finishing"} /\ proc[p].batch = {}
    /\ Goto(p, IF At(p, "working") /\ p \in Daemons THEN "ingress" ELSE "end")
    /\ UNCHANGED <<cast, beatVars, beating, job, lockVars, mishaps>>

\* withArchiveIngressLock; without the lock the cycle goes on.
TryIngress(p) ==
    LET next == IF proc[p].room > 0 THEN "second" ELSE "end" IN
    /\ At(p, "ingress")
    /\ IF ingress = Nobody
       THEN ingress' = p /\ Goto(p, "inside")
       ELSE UNCHANGED ingress /\ Goto(p, next)
    /\ UNCHANGED <<cast, beatVars, beating, job, watchdog, mishaps>>

\* The callback returns and the transaction commits.
LeaveIngress(p) ==
    /\ At(p, "inside")
    /\ ingress' = Nobody
    /\ Goto(p, IF proc[p].room > 0 THEN "second" ELSE "end")
    /\ UNCHANGED <<cast, beatVars, beating, job, watchdog, mishaps>>

\* The transaction times out and frees the lock; the cycle fails, and the
\* callback carries on by itself.
IngressTimesOut(p) ==
    /\ At(p, "inside") /\ Fault
    /\ ingress' = Nobody
    /\ proc' = [proc EXCEPT ![p].at = "error", ![p].loose = TRUE]
    /\ UNCHANGED <<cast, beatVars, beating, job, watchdog>>

EndLooseCallback(p) ==
    /\ proc[p].loose
    /\ proc' = [proc EXCEPT ![p].loose = FALSE]
    /\ UNCHANGED <<cast, beatVars, beating, job, lockVars, mishaps>>

\* A database error.  If it is that of a claim, the jobs that were claimed
\* are left RUNNING without anybody; if it is that of an outcome, the other
\* jobs of the batch carry on behind the cycle.
FailCycle(p) ==
    /\ InCycle(p) /\ ~At(p, "error") /\ Fault
    /\ \E others \in {{}, proc[p].batch} :
          proc' = [proc EXCEPT ![p].at = "error", ![p].batch = {},
                               ![p].left = @ \cup others]
    /\ ingress' = IF ingress = p THEN Nobody ELSE ingress
    /\ UNCHANGED <<cast, beatVars, beating, job, watchdog>>

\* The last heartbeat; a recovery call then gives the watchdog lock back.
EndCycle(p) ==
    /\ proc[p].at \in {"end", "error"}
    /\ Beat(p, IF At(p, "end") THEN "IDLE" ELSE "ERROR")
    /\ proc' = [proc EXCEPT ![p].at = IF p \in Daemons THEN "asleep" ELSE "away",
                            ![p].room = 0]
    /\ watchdog' = IF watchdog = p THEN Nobody ELSE watchdog
    /\ UNCHANGED <<cast, beating, job, ingress, mishaps>>

CycleStep(p) ==
    \/ BeginCycle(p) \/ TakeBatch(p) \/ EndPass(p) \/ TryIngress(p)
    \/ LeaveIngress(p) \/ EndCycle(p)

-----------------------------------------------------------------------------
(* The daemon (scripts/worker.ts).                                         *)

StartDaemon(p) ==
    /\ p \in cast.procs \cap Daemons /\ At(p, "off")
    /\ Beat(p, "STARTING")
    /\ Goto(p, "begin")
    /\ UNCHANGED <<cast, beating, job, lockVars, mishaps>>

WakeUp(p) ==
    /\ At(p, "asleep") /\ ~proc[p].stopping
    /\ Goto(p, "begin")
    /\ UNCHANGED <<cast, beatVars, beating, job, lockVars, mishaps>>

Dying == /\ mishaps.deaths < cast.deaths
         /\ mishaps' = [mishaps EXCEPT !.deaths = @ + 1]

\* A signal: the STOPPED heartbeat, while the cycle is still going on.
Stop(p) ==
    /\ p \in Daemons /\ ~At(p, "off") /\ ~proc[p].stopping /\ Fault
    /\ Beat(p, "STOPPED")
    /\ proc' = [proc EXCEPT ![p].stopping = TRUE]
    /\ UNCHANGED <<cast, beating, job, lockVars>>

\* The process is gone.  Its connections close, and with them its locks; a
\* keep-alive that was sent may still arrive.
EndProcess(p) ==
    /\ proc' = [proc EXCEPT ![p] = Process(IF p \in Daemons THEN "off"
                                                            ELSE "away")]
    /\ \E lost \in SUBSET {p} : beating' = beating \ lost
    /\ ingress' = IF ingress = p THEN Nobody ELSE ingress
    /\ watchdog' = IF watchdog = p THEN Nobody ELSE watchdog

Exit(p) ==
    /\ proc[p].stopping
    /\ EndProcess(p)
    /\ UNCHANGED <<cast, beatVars, job, mishaps>>

Kill(p) ==
    /\ proc[p].at \notin {"off", "away"} /\ Dying
    /\ EndProcess(p)
    /\ UNCHANGED <<cast, beatVars, job>>

\* A RUNNING row that nobody works on any more becomes stale.  Executions
\* that outlast STALE_RUNNING_JOB_MS are left to ArchiveQueue.
Worked(j) == \E p \in Daemons \cup Pages :
                \E c \in proc[p].batch \cup proc[p].left : c[1] = j

GoneStale(j) ==
    /\ job[j].status = "running" /\ ~job[j].stale /\ ~Worked(j)
    /\ job' = [job EXCEPT ![j].stale = TRUE]
    /\ UNCHANGED <<cast, beatVars, beating, proc, lockVars, mishaps>>

-----------------------------------------------------------------------------
(* maybeRecoverArchivePipeline.                                            *)

\* Mutant: a RUNNING heartbeat counts however old it is.
workerEverRunning == latest # Nobody /\ beat[latest] = "RUNNING"

workerActivelyRunning == latest # Nobody /\ fresh /\ beat[latest] = "RUNNING"

\* A look has three queries under way at once: the latest heartbeat and the
\* numbers of PENDING and of RUNNING jobs.
Queries == {"heartbeat", "pending", "running"}
Finds(query) ==
    CASE query = "heartbeat" -> workerActivelyRunning
      [] query = "pending" -> \E j \in Jobs : job[j].status \in {"waiting", "delayed"}
      [] query = "running" -> \E j \in Jobs : job[j].status = "running"

NeedsRecovery(found) == found # {} /\ "heartbeat" \notin found

\* The first look, without the lock.  It decides only whether to ask for the
\* lock, so its queries are taken together.
Look(p) ==
    /\ p \in cast.procs \cap Pages /\ At(p, "away")
    /\ NeedsRecovery({query \in Queries : Finds(query)})
    /\ Goto(p, "knock")
    /\ UNCHANGED <<cast, beatVars, beating, job, lockVars, mishaps>>

LookAgain(p) == proc' = [proc EXCEPT ![p].at = "recheck", ![p].unread = Queries]

\* With the lock they return one by one.
Query(p, query) ==
    /\ query \in proc[p].unread
    /\ proc' = [proc EXCEPT ![p].unread = @ \ {query},
                   ![p].found = IF Finds(query) THEN @ \cup {query} ELSE @]
    /\ UNCHANGED <<cast, beatVars, beating, job, lockVars, mishaps>>

\* Mutant: everybody gets the lock.
TakeNoLock(p) ==
    /\ At(p, "knock")
    /\ LookAgain(p)
    /\ UNCHANGED <<cast, beatVars, beating, job, lockVars, mishaps>>

\* withWatchdogLock.
TakeWatchdogLock(p) ==
    /\ At(p, "knock")
    /\ IF watchdog = Nobody
       THEN watchdog' = p /\ LookAgain(p)
       ELSE UNCHANGED watchdog /\ Goto(p, "away")
    /\ UNCHANGED <<cast, beatVars, beating, job, ingress, mishaps>>

Conclude(p, at) == proc' = [proc EXCEPT ![p].at = at, ![p].found = {}]

\* RUNNING jobs are recovered only if the look with the lock counted some.
EndRecheck(p) ==
    /\ At(p, "recheck") /\ proc[p].unread = {}
    /\ IF NeedsRecovery(proc[p].found)
       THEN /\ Conclude(p, IF "running" \in proc[p].found THEN "recover" ELSE "begin")
            /\ UNCHANGED watchdog
       ELSE Conclude(p, "away") /\ watchdog' = Nobody
    /\ UNCHANGED <<cast, beatVars, beating, job, ingress, mishaps>>

\* recoverRunningJobsForUnavailableWorker: the rows that are RUNNING now,
\* whosever.
ListRunning(p) ==
    /\ At(p, "recover")
    /\ proc' = [proc EXCEPT ![p].at = "recovering", ![p].list =
           {<<j, job[j].tries>> : j \in {i \in Jobs : job[i].status = "running"}}]
    /\ UNCHANGED <<cast, beatVars, beating, job, lockVars, mishaps>>

RecoverJob(p, c) ==
    /\ At(p, "recovering") /\ c \in proc[p].list
    /\ proc' = [proc EXCEPT ![p].list = @ \ {c}]
    /\ job' = [job EXCEPT ![c[1]] =
                  IF @.status = "running" THEN RecoveredJob(@, c[2]) ELSE @]
    /\ UNCHANGED <<cast, beatVars, beating, lockVars, mishaps>>

StepIn(p) ==
    /\ At(p, "recovering") /\ proc[p].list = {}
    /\ Goto(p, "begin")
    /\ UNCHANGED <<cast, beatVars, beating, job, lockVars, mishaps>>

Recovery(p) ==
    \/ Look(p) \/ TakeWatchdogLock(p) \/ \E query \in Queries : Query(p, query)
    \/ EndRecheck(p) \/ ListRunning(p)
    \/ \E c \in proc[p].list : RecoverJob(p, c)
    \/ StepIn(p)

-----------------------------------------------------------------------------
CycleNext ==
    \/ \E p \in Daemons \cup Pages :
          \/ CycleStep(p) \/ KeepAlive(p) \/ LandKeepAlive(p)
          \/ EndLooseCallback(p) \/ FinishJobs(p)
          \/ IngressTimesOut(p) \/ FailCycle(p) \/ Kill(p)
    \/ \E p \in Daemons : StartDaemon(p) \/ WakeUp(p) \/ Stop(p) \/ Exit(p)
    \/ \E p \in Pages : Recovery(p)
    \/ \E j \in Jobs : ComesDue(j) \/ GoneStale(j)
    \/ Age

\* Cycles, jobs and recoveries go on, browsers keep asking and time passes.
\* Nothing obliges a daemon to be started.
CycleFairness ==
    /\ \A p \in Daemons \cup Pages :
          /\ WF_cycleVars(CycleStep(p) \/ WakeUp(p) \/ Recovery(p))
          /\ WF_cycleVars(EndLooseCallback(p) \/ FinishJobs(p))
    /\ \A p \in Daemons : WF_cycleVars(Exit(p))
    /\ \A j \in Jobs : WF_cycleVars(ComesDue(j) \/ GoneStale(j))
    /\ WF_cycleVars(Age)

CycleSpec == CycleInit /\ [][CycleNext]_cycleVars /\ CycleFairness

-----------------------------------------------------------------------------
\* Types: the variables hold statuses, steps and processes of the code.
CycleTypeOK ==
    /\ cast \in Casts
    /\ beat \in [WorkerKeys -> {"none", "STARTING", "IDLE", "RUNNING", "ERROR",
                                "STOPPED"}]
    /\ latest \in WorkerKeys \cup {Nobody} /\ fresh \in BOOLEAN
    /\ beating \subseteq Daemons \cup Pages
    /\ job \in [Jobs -> [status : {"waiting", "delayed", "running", "settled"},
                         tries : Nat, stale : BOOLEAN]]
    /\ proc \in [Daemons \cup Pages ->
          [at : CycleSteps \cup {"off", "away", "asleep", "begin", "knock",
                                 "recheck", "recover", "recovering"},
           batch : SUBSET (Jobs \X Nat), list : SUBSET (Jobs \X Nat),
           unread : SUBSET Queries, found : SUBSET Queries, room : 0..Limit,
           left : SUBSET (Jobs \X Nat), loose : BOOLEAN, stopping : BOOLEAN]]
    /\ {ingress, watchdog} \subseteq Daemons \cup Pages \cup {Nobody}

\* Safety of updateWorkerHeartbeat and the watchdog lock: a process in the
\* middle of a cycle is shown as RUNNING, until it is told to stop.  The
\* recovery calls share one row, so none may end its cycle in it while
\* another one is in the middle of its own.
WorkingIsShown ==
    \A p \in Daemons \cup Pages :
        InCycle(p) => beat[Key(p)] = "RUNNING" \/ proc[p].stopping

\* Liveness of maybeRecoverArchivePipeline: as long as browsers keep asking,
\* the job that a user asked for is settled and no other job stays RUNNING,
\* even if a worker dies in the middle of its cycle and is never started
\* again.  An automatic job need not be settled: as long as the budget blocks
\* it or puts it off, it waits, and no browser raises the budget.
JobsAreRescued ==
    cast.procs \cap Pages # {} =>
        /\ \A j \in Jobs : j \in cast.asked => <>(job[j].status = "settled")
        /\ \A j \in Jobs : []<>(job[j].status # "running")
=============================================================================
