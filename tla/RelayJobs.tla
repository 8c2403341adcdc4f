------------------------------ MODULE RelayJobs ------------------------------
(***************************************************************************)
(* The jobs of one linked desktop device (src/src/server/relay/service.ts  *)
(* and the device sockets of src/scripts/socket-server.ts).  An owner      *)
(* queues jobs; they are claimed for the device by its polls and by the    *)
(* dispatches of the socket server, and handed to it in a response or over *)
(* its socket.  The device reports each outcome, can be unlinked by its    *)
(* user and removed by its owner.                                          *)
(*                                                                         *)
(* A claim is a transaction that updates the device's row first, so its    *)
(* row lock is held until the claim commits or rolls back; the report, the *)
(* unlinking and the removal need the same lock and appear as their commit.*)
(***************************************************************************)
EXTENDS Naturals, FiniteSets

CONSTANTS
    Handlers,       \* polls and dispatches that may be under way at once
    Sockets,        \* connections the device makes, one after the other or not
    MaxJobs,        \* maxJobs of a claim
    MaxQueued,      \* bound: jobs queued
    MaxAborts       \* bound: claims rolled back (a lost connection, a deadlock)

ASSUME RelayAssumption ==
    MaxJobs \in Nat \ {0} /\ MaxQueued \in Nat /\ MaxAborts \in Nat

Jobs == 1..MaxQueued    \* by createdAt
Poll == "poll"
None == "none"
ASSUME SocketAssumption == Poll \notin Sockets /\ None \notin Sockets

VARIABLES
    device,         \* the RelayDevice row: linked (relayEnabled) or not, or gone
    job,            \* RelayJob.status, by job
    locked,         \* who has the device's row locked: {} or one handler
    handler,        \* the claims under way
    socket,         \* the connections, and how far their setup has come
    registered,     \* deviceSockets.get(deviceId): {} or a connection
    newest,         \* history: the connection that registered last
    handed,         \* history: how often the device was handed each job
    aborts

vars == <<device, job, locked, handler, socket, registered, newest, handed, aborts>>
claims == <<job, locked, handler, handed, aborts>>
connections == <<socket, registered, newest>>

-----------------------------------------------------------------------------
Statuses == {"absent", "PENDING", "RUNNING", "COMPLETED", "FAILED", "deleted"}
SettledStatuses == {"COMPLETED", "FAILED"}

\* checked: relayEnabled was read; locked: the device row was updated;
\* selected: the pending jobs were read; claimed: committed, not yet sent.
Handler == [step : {"idle", "checked", "locked", "selected", "claimed"},
            via : Sockets \cup {Poll, None}, jobs : SUBSET Jobs]
IdleHandler == [step |-> "idle", via |-> None, jobs |-> {}]

\* attached: the message and close handlers are in place.
Connection == [stage : {"none", "connecting", "registered", "attached", "refused"},
               open : BOOLEAN]

TypeOK ==
    /\ device \in {"linked", "unlinked", "removed"}
    /\ job \in [Jobs -> Statuses]
    /\ locked \subseteq Handlers
    /\ handler \in [Handlers -> Handler]
    /\ socket \in [Sockets -> Connection]
    /\ registered \subseteq Sockets
    /\ newest \subseteq Sockets
    /\ handed \in [Jobs -> Nat]
    /\ aborts \in Nat

Init ==
    /\ device = "linked"
    /\ job = [j \in Jobs |-> "absent"]
    /\ locked = {}
    /\ handler = [h \in Handlers |-> IdleHandler]
    /\ socket = [s \in Sockets |-> [stage |-> "none", open |-> FALSE]]
    /\ registered = {} /\ newest = {}
    /\ handed = [j \in Jobs |-> 0]
    /\ aborts = 0

-----------------------------------------------------------------------------
(* The owner.                                                              *)

\* enqueueRelayJob; an unlinked device is served too.
Enqueue(j) ==
    /\ device # "removed"
    /\ job[j] = "absent" /\ \A i \in Jobs : i < j => job[i] # "absent"
    /\ job' = [job EXCEPT ![j] = "PENDING"]
    /\ UNCHANGED <<device, locked, handler, handed, aborts, connections>>

\* removeRelayDeviceByOwner deletes the jobs with the device.
RemoveDevice ==
    /\ device # "removed" /\ locked = {}
    /\ device' = "removed"
    /\ job' = [j \in Jobs |-> IF job[j] = "absent" THEN "absent" ELSE "deleted"]
    /\ UNCHANGED <<locked, handler, handed, aborts, connections>>

\* disconnectRelayDeviceByToken.
Unlink ==
    /\ device = "linked" /\ locked = {}
    /\ device' = "unlinked"
    /\ UNCHANGED <<claims, connections>>

-----------------------------------------------------------------------------
(* Claims: claimRelayJobsForDeviceId.                                      *)

Check(h, via) ==
    /\ handler[h].step = "idle" /\ device = "linked"
    /\ handler' = [handler EXCEPT ![h] =
                      [step |-> "checked", via |-> via, jobs |-> {}]]
    /\ UNCHANGED <<device, job, locked, handed, aborts, connections>>

\* pollRelayJobs.
StartPoll(h) == Check(h, Poll)

\* dispatchPendingJobs, on a new job, a report or a connection: it keeps the
\* connection it found first.
Dispatch(h) == \E s \in registered : Check(h, s)

\* Mutant: the transaction begins with a read.
LockNothing(h) ==
    /\ handler[h].step = "checked" /\ device # "removed"
    /\ handler' = [handler EXCEPT ![h].step = "locked"]
    /\ UNCHANGED <<device, job, locked, handed, aborts, connections>>

\* The transaction begins with an update of the device's row, which is not
\* asked again whether it is linked.
LockDevice(h) ==
    /\ handler[h].step = "checked" /\ locked = {}
    /\ IF device = "removed"
       THEN handler' = [handler EXCEPT ![h] = IdleHandler] /\ UNCHANGED locked
       ELSE handler' = [handler EXCEPT ![h].step = "locked"] /\ locked' = {h}
    /\ UNCHANGED <<device, job, handed, aborts, connections>>

Pending == {j \in Jobs : job[j] = "PENDING"}

\* The pending jobs a claim takes, the oldest first.
Oldest == {j \in Pending : Cardinality({i \in Pending : i < j}) < MaxJobs}

SelectJobs(h) ==
    /\ handler[h].step = "locked"
    /\ handler' = [handler EXCEPT ![h].step = "selected", ![h].jobs = Oldest]
    /\ UNCHANGED <<device, job, locked, handed, aborts, connections>>

\* The updates by id and the commit.
CommitClaim(h) ==
    /\ handler[h].step = "selected"
    /\ job' = [j \in Jobs |-> IF j \in handler[h].jobs THEN "RUNNING" ELSE job[j]]
    /\ locked' = locked \ {h}
    /\ handler' = [handler EXCEPT ![h].step = "claimed"]
    /\ UNCHANGED <<device, handed, aborts, connections>>

RollBack(h) ==
    /\ handler[h].step \in {"locked", "selected"} /\ aborts < MaxAborts
    /\ aborts' = aborts + 1
    /\ locked' = locked \ {h}
    /\ handler' = [handler EXCEPT ![h] = IdleHandler]
    /\ UNCHANGED <<device, job, handed, connections>>

\* safeSend sends to an open connection only.
Deliver(h) ==
    /\ handler[h].step = "claimed"
    /\ handler[h].via # Poll => socket[handler[h].via].open
    /\ handed' = [j \in Jobs |->
                     IF j \in handler[h].jobs THEN handed[j] + 1 ELSE handed[j]]
    /\ handler' = [handler EXCEPT ![h] = IdleHandler]
    /\ UNCHANGED <<device, job, locked, aborts, connections>>

\* The connection is gone, or what was sent gets lost on its way.
LoseDelivery(h) ==
    /\ handler[h].step = "claimed"
    /\ handler' = [handler EXCEPT ![h] = IdleHandler]
    /\ UNCHANGED <<device, job, locked, handed, aborts, connections>>

\* reportRelayJobResult, from the route or over a socket: any outcome, at any
\* time after the job was handed over, and once more if the answer was lost.
Report(j, outcome) ==
    /\ handed[j] > 0 /\ device # "removed" /\ locked = {}
    /\ job[j] \notin {"absent", "deleted"}
    /\ job' = [job EXCEPT ![j] = outcome]
    /\ UNCHANGED <<device, locked, handler, handed, aborts, connections>>

-----------------------------------------------------------------------------
(* The device's connections.                                               *)

\* relayWss.on("connection"): the token is being looked up.
Connect(s) ==
    /\ socket[s].stage = "none"
    /\ socket' = [socket EXCEPT ![s] = [stage |-> "connecting", open |-> TRUE]]
    /\ UNCHANGED <<device, claims, registered, newest>>

\* The lookup answers, perhaps for a connection that has closed meanwhile.
Register(s) ==
    /\ socket[s].stage = "connecting"
    /\ IF device = "linked"
       THEN /\ socket' = [socket EXCEPT ![s].stage = "registered"]
            /\ registered' = {s} /\ newest' = {s}
       ELSE /\ socket' = [socket EXCEPT ![s] = [stage |-> "refused", open |-> FALSE]]
            /\ UNCHANGED <<registered, newest>>
    /\ UNCHANGED <<device, claims>>

\* The welcome, the owner's snapshot and the first dispatch are over.
Attach(s) ==
    /\ socket[s].stage = "registered"
    /\ socket' = [socket EXCEPT ![s].stage = "attached"]
    /\ UNCHANGED <<device, claims, registered, newest>>

\* One of them throws: the connection is closed but stays registered.
FailSetup(s) ==
    /\ socket[s].stage = "registered"
    /\ socket' = [socket EXCEPT ![s] = [stage |-> "refused", open |-> FALSE]]
    /\ UNCHANGED <<device, claims, registered, newest>>

\* Mutant: whatever connection closes, the device counts as gone.
CloseForgettingOthers(s) ==
    /\ socket[s].open
    /\ socket' = [socket EXCEPT ![s].open = FALSE]
    /\ registered' = IF socket[s].stage = "attached" THEN {} ELSE registered
    /\ UNCHANGED <<device, claims, newest>>

\* Nobody listens to the close of a connection whose setup is not over.
Close(s) ==
    /\ socket[s].open
    /\ socket' = [socket EXCEPT ![s].open = FALSE]
    /\ registered' = IF socket[s].stage = "attached" THEN registered \ {s} ELSE registered
    /\ UNCHANGED <<device, claims, newest>>

\* POST /relay/internal/disconnect, which follows an unlinking or a removal.
ForceDisconnect ==
    /\ device # "linked" /\ registered # {}
    /\ socket' = [s \in Sockets |->
          IF s \in registered THEN [socket[s] EXCEPT !.open = FALSE] ELSE socket[s]]
    /\ registered' = {}
    /\ UNCHANGED <<device, claims, newest>>

-----------------------------------------------------------------------------
ClaimStep(h) == LockDevice(h) \/ SelectJobs(h) \/ CommitClaim(h)
                  \/ Deliver(h) \/ LoseDelivery(h)

Next ==
    \/ RemoveDevice \/ Unlink \/ ForceDisconnect
    \/ \E j \in Jobs : Enqueue(j) \/ \E o \in SettledStatuses : Report(j, o)
    \/ \E h \in Handlers : \/ StartPoll(h) \/ Dispatch(h)
                           \/ ClaimStep(h) \/ RollBack(h)
    \/ \E s \in Sockets : \/ Connect(s) \/ Register(s) \/ Attach(s)
                          \/ FailSetup(s) \/ Close(s)

Spec == Init /\ [][Next]_vars

-----------------------------------------------------------------------------
\* A job is handed to its device once at most, however many polls and
\* dispatches claim at the same time, fail and are repeated: a share or a
\* repair is not carried out twice.
HandedOutOnce == \A j \in Jobs : handed[j] <= 1

\* A reported outcome stays an outcome: no claim that began before the report
\* makes the job RUNNING again.
OutcomesStay ==
    [][\A j \in Jobs : job[j] \in SettledStatuses =>
          job'[j] \in SettledStatuses \cup {"deleted"}]_vars

\* The last connection to register is the one that dispatches find, as long
\* as it is open: the close of an older one does not hide it.
OpenConnectionIsFound == \A s \in newest : socket[s].open => registered = {s}
=============================================================================
