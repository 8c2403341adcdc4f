--------------------------- MODULE MCWorkerCycle ---------------------------
(* One worker daemon, a browser that keeps calling and a job that a user has *)
(* asked for: no process dies and nothing fails.                             *)
EXTENDS WorkerCycle

CONSTANTS d1, p1

HealthyCasts == {[procs |-> {d1, p1}, asked |-> Jobs, automatic |-> {},
                  deaths |-> 0, faults |-> 0]}

-----------------------------------------------------------------------------
\* The jobs that the daemon has been working on, in a cycle that its row shows
\* as RUNNING, ever since the recovery call last asked for the lock.
VARIABLE since

Live == {j \in Jobs : /\ InCycle(d1) /\ beat[d1] = "RUNNING"
                      /\ j \in {c[1] : c \in proc[d1].batch}}

WatchedInit == CycleInit /\ since = {}
WatchedNext == /\ CycleNext
               /\ since' = IF At(p1, "knock") THEN Live ELSE since \cap Live'
WatchedSpec ==
    WatchedInit /\ [][WatchedNext]_<<cycleVars, since>> /\ CycleFairness

\* What a recovery writes into the rows, "after the archive saver stopped
\* sending heartbeats": the job is none that a daemon has been working on,
\* with a RUNNING heartbeat, since before the recovery looked.
LiveJobsAreLeftAlone ==
    [][\A c \in proc[p1].list : RecoverJob(p1, c) => c[1] \notin since]_<<cycleVars, since>>
=============================================================================
