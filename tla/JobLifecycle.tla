---------------------------- MODULE JobLifecycle ----------------------------
(***************************************************************************)
(* What the queue promises of a job, without rows, attempts, priorities or *)
(* statements: a job that waits is claimed by one worker, which holds it   *)
(* until the job is settled or put back, or until the worker goes away.    *)
(* Whoever puts a job back takes it from its holder in the same step.      *)
(***************************************************************************)
CONSTANTS Jobs, Workers

VARIABLES
    state,      \* the state of each job
    held        \* the workers that hold each job

States == {"absent", "waiting", "running", "settled"}

Init ==
    /\ state = [j \in Jobs |-> "absent"]
    /\ held = [j \in Jobs |-> {}]

\* Somebody asks for the job.
Submit(j) ==
    /\ state[j] \in {"absent", "settled"}
    /\ state' = [state EXCEPT ![j] = "waiting"]
    /\ UNCHANGED held

Claim(j, w) ==
    /\ state[j] = "waiting"
    /\ state' = [state EXCEPT ![j] = "running"]
    /\ held' = [held EXCEPT ![j] = {w}]

\* The job is settled, or it is put back for another attempt.
Release(j, to) ==
    /\ state[j] = "running" /\ to \in {"waiting", "settled"}
    /\ state' = [state EXCEPT ![j] = to]
    /\ held' = [held EXCEPT ![j] = {}]

\* Jobs that nobody holds are no longer wanted.
Withdraw(js) ==
    /\ \A j \in js : state[j] = "waiting"
    /\ state' = [j \in Jobs |-> IF j \in js THEN "absent" ELSE state[j]]
    /\ UNCHANGED held

\* A worker goes away and leaves its jobs running.
Abandon(w) ==
    /\ held' = [j \in Jobs |-> held[j] \ {w}]
    /\ UNCHANGED state

Next ==
    \/ \E j \in Jobs : Submit(j)
    \/ \E j \in Jobs, w \in Workers : Claim(j, w)
    \/ \E j \in Jobs, to \in States : Release(j, to)
    \/ \E js \in SUBSET Jobs : Withdraw(js)
    \/ \E w \in Workers : Abandon(w)

Spec == Init /\ [][Next]_<<state, held>>
=============================================================================
