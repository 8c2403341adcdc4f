----------------------- MODULE ArchiveQueueLifecycle -----------------------
(***************************************************************************)
(* The queue implements the life cycle of JobLifecycle: the status of a    *)
(* row is the state of its job, and its holders are the executions whose   *)
(* row nobody has taken from them since.                                   *)
(***************************************************************************)
EXTENDS ArchiveQueue

StateOf(status) ==
    CASE status = "ABSENT" -> "absent"
      [] status = "PENDING" -> "waiting"
      [] status = "RUNNING" -> "running"
      [] OTHER -> "settled"

jobState == [k \in Keys |-> StateOf(row[k].status)]
jobHeld == [k \in Keys |-> {w \in Workers : Owns(w, k)}]

Lifecycle == INSTANCE JobLifecycle
    WITH Jobs <- Keys, state <- jobState, held <- jobHeld

\* Refinement: through every interleaving of statements, every step of the
\* queue is a step of a job's life or changes nothing in it.  In particular
\* no job is claimed while it is held, a settled job never runs again
\* without a request, and only waiting jobs disappear.
ImplementsLifecycle == Lifecycle!Spec
=============================================================================
