--------------------------- MODULE RelayJobsProofs ---------------------------
(***************************************************************************)
(* Jobs are handed out once, outcomes stay and the newest connection is    *)
(* found, for any number of jobs, claims, connections and rollbacks; and a *)
(* pairing code links one device and a finished tunnel works, for any      *)
(* number of devices, requests, failures and lost answers.                 *)
(*                                                                         *)
(* The argument for the jobs: the row lock leaves one claim at a time      *)
(* between its read and its commit, so the jobs it has read are still      *)
(* PENDING when it commits, and no two committed claims share a job.       *)
(*                                                                         *)
(* The argument for the tunnels: what a row or a request says of a tunnel  *)
(* is a stake in it.  Stakes in one tunnel are of one device, a libp2p     *)
(* name leads to one tunnel, and a provision whose tunnel nobody contests  *)
(* is alone with it, so what it was told is done stays done until its row  *)
(* is written, and afterwards nobody undoes it who does not contest it.    *)
(*                                                                         *)
(* The argument for saved works, for any number of hosts, roots and saves: *)
(* while no root has failed on the host a save is at, that host keeps all  *)
(* roots before the current one; and a row says PENDING only between the   *)
(* two statements of a request, or after the server died.                  *)
(***************************************************************************)
EXTENDS RelayJobs, DesktopDevices, SaveTargets, TLAPS

\* Who is inside its transaction has the lock, and is alone in there.
LockHeld ==
    /\ \A h \in Handlers : handler[h].step \in {"locked", "selected"} => h \in locked
    /\ \A g, h \in locked : g = h

\* The jobs read under the lock are still to be claimed.
SelectedPending ==
    \A h \in Handlers : handler[h].step = "selected" =>
        \A j \in handler[h].jobs : job[j] = "PENDING"

\* A job that was handed out is past its claim.
HandedClaimed ==
    \A j \in Jobs : handed[j] > 0 => job[j] \notin {"absent", "PENDING"}

\* Committed claims hold jobs that nobody was handed, each of them its own.
Undelivered ==
    \A h \in Handlers : handler[h].step = "claimed" =>
        \A j \in handler[h].jobs :
            /\ handed[j] = 0 /\ job[j] \in {"RUNNING", "deleted"}
            /\ \A g \in Handlers :
                  handler[g].step = "claimed" /\ j \in handler[g].jobs => g = h

ClaimInv == /\ TypeOK /\ LockHeld /\ SelectedPending
            /\ HandedClaimed /\ Undelivered /\ HandedOutOnce

-----------------------------------------------------------------------------
LEMMA InitHolds == Init => ClaimInv
BY DEF Init, ClaimInv, TypeOK, LockHeld, SelectedPending, HandedClaimed,
       Undelivered, HandedOutOnce, Statuses, Handler, IdleHandler, Connection

\* The steps that leave the claims, the jobs and the lock alone.
LEMMA AsideStep ==
    ASSUME ClaimInv, TypeOK', UNCHANGED claims
    PROVE  ClaimInv' /\ \A j \in Jobs : job'[j] = job[j]
BY DEF claims, ClaimInv, LockHeld, SelectedPending, HandedClaimed, Undelivered,
       HandedOutOnce

LEMMA EnqueueStep ==
    ASSUME ClaimInv, NEW j \in Jobs, Enqueue(j)
    PROVE  ClaimInv' /\ \A i \in Jobs : job[i] \in SettledStatuses => job'[i] = job[i]
<1> USE DEF ClaimInv
<1>1. /\ job[j] = "absent" /\ job' = [job EXCEPT ![j] = "PENDING"]
      /\ UNCHANGED <<device, locked, handler, handed, aborts, socket, registered, newest>>
  BY DEF Enqueue, connections
<1>2. \A i \in Jobs : job'[i] = IF i = j THEN "PENDING" ELSE job[i]
  BY <1>1 DEF TypeOK
<1>3. TypeOK'
  BY <1>1 DEF TypeOK, Statuses
<1>4. handed[j] = 0
  BY <1>1 DEF HandedClaimed, TypeOK
<1>5. HandedClaimed'
  BY <1>1, <1>2, <1>4 DEF HandedClaimed, TypeOK
<1>6. SelectedPending'
  BY <1>1, <1>2 DEF SelectedPending, TypeOK, Handler
<1>7. Undelivered'
  BY <1>1, <1>2 DEF Undelivered, TypeOK, Handler
<1> QED
  BY <1>1, <1>2, <1>3, <1>5, <1>6, <1>7
  DEF LockHeld, HandedOutOnce, SettledStatuses

LEMMA RemoveStep ==
    ASSUME ClaimInv, RemoveDevice
    PROVE  ClaimInv' /\ \A i \in Jobs :
               job[i] \in SettledStatuses => job'[i] = "deleted"
<1> USE DEF ClaimInv
<1>1. /\ locked = {} /\ device' = "removed"
      /\ job' = [j \in Jobs |-> IF job[j] = "absent" THEN "absent" ELSE "deleted"]
      /\ UNCHANGED <<locked, handler, handed, aborts, socket, registered, newest>>
  BY DEF RemoveDevice, connections
<1>2. TypeOK'
  BY <1>1 DEF TypeOK, Statuses
<1>3. \A h \in Handlers : handler[h].step # "selected"
  BY <1>1 DEF LockHeld
<1>4. HandedClaimed'
  BY <1>1 DEF HandedClaimed
<1>5. Undelivered'
  BY <1>1 DEF Undelivered, TypeOK, Handler
<1> QED
  BY <1>1, <1>2, <1>3, <1>4, <1>5
  DEF LockHeld, SelectedPending, HandedOutOnce, SettledStatuses

LEMMA ReportStep ==
    ASSUME ClaimInv, NEW j \in Jobs, NEW o \in SettledStatuses, Report(j, o)
    PROVE  ClaimInv' /\ \A i \in Jobs :
               job[i] \in SettledStatuses => job'[i] \in SettledStatuses
<1> USE DEF ClaimInv
<1>1. /\ handed[j] > 0 /\ locked = {}
      /\ job' = [job EXCEPT ![j] = o]
      /\ UNCHANGED <<device, locked, handler, handed, aborts, socket, registered, newest>>
  BY DEF Report, connections
<1>2. \A i \in Jobs : job'[i] = IF i = j THEN o ELSE job[i]
  BY <1>1 DEF TypeOK
<1>3. TypeOK'
  BY <1>1 DEF TypeOK, Statuses, SettledStatuses
<1>4. \A h \in Handlers : handler[h].step # "selected"
  BY <1>1 DEF LockHeld
<1>5. \A h \in Handlers : handler[h].step = "claimed" => j \notin handler[h].jobs
  BY <1>1 DEF Undelivered
<1>6. Undelivered'
  BY <1>1, <1>2, <1>5 DEF Undelivered, TypeOK, Handler
<1>7. HandedClaimed'
  BY <1>1, <1>2 DEF HandedClaimed, SettledStatuses
<1> QED
  BY <1>1, <1>2, <1>3, <1>4, <1>6, <1>7
  DEF LockHeld, SelectedPending, HandedOutOnce

-----------------------------------------------------------------------------
(* The steps of one claim.                                                 *)

\* One handler changes and no job does.
LEMMA HandlerStep ==
    ASSUME ClaimInv, NEW h \in Handlers, NEW v \in Handler,
           handler' = [handler EXCEPT ![h] = v],
           v.step # "claimed",
           v.step = "selected" => \A j \in v.jobs : job[j] = "PENDING",
           UNCHANGED <<device, job, handed, socket, registered, newest>>,
           aborts' \in Nat, locked' \subseteq Handlers, LockHeld'
    PROVE  ClaimInv'
<1> USE DEF ClaimInv
<1>1. TypeOK'
  BY DEF TypeOK
<1>2. \A g \in Handlers : handler'[g] = IF g = h THEN v ELSE handler[g]
  BY DEF TypeOK
<1>3. SelectedPending'
  BY <1>2 DEF SelectedPending
<1>4. Undelivered'
  BY <1>2 DEF Undelivered
<1> QED BY <1>1, <1>3, <1>4 DEF HandedClaimed, HandedOutOnce

LEMMA CheckStep ==
    ASSUME ClaimInv, NEW h \in Handlers, NEW via \in Sockets \cup {Poll}, Check(h, via)
    PROVE  ClaimInv' /\ UNCHANGED job
<1> DEFINE v == [step |-> "checked", via |-> via, jobs |-> {}]
<1>1. v \in Handler
  BY DEF Handler
<1>2. /\ handler' = [handler EXCEPT ![h] = v]
      /\ UNCHANGED <<device, job, locked, handed, aborts, socket, registered, newest>>
  BY DEF Check, connections
<1>3. LockHeld'
  BY <1>2 DEF ClaimInv, LockHeld, TypeOK
<1> QED BY <1>1, <1>2, <1>3, HandlerStep DEF ClaimInv, TypeOK

LEMMA LockStep ==
    ASSUME ClaimInv, NEW h \in Handlers, LockDevice(h)
    PROVE  ClaimInv' /\ UNCHANGED job
<1>1. /\ locked = {} /\ handler[h].step = "checked"
      /\ UNCHANGED <<device, job, handed, aborts, socket, registered, newest>>
  BY DEF LockDevice, connections
<1>2. \A g \in Handlers : handler[g].step \notin {"locked", "selected"}
  BY <1>1 DEF ClaimInv, LockHeld
<1>3. handler[h] \in Handler
  BY DEF ClaimInv, TypeOK
<1>4. CASE device = "removed"
  <2>1. /\ handler' = [handler EXCEPT ![h] = IdleHandler] /\ locked' = locked
    BY <1>4 DEF LockDevice
  <2>2. IdleHandler \in Handler
    BY DEF IdleHandler, Handler
  <2>3. LockHeld'
    BY <1>1, <1>2, <2>1 DEF ClaimInv, LockHeld, IdleHandler, TypeOK
  <2> QED
    BY <1>1, <2>1, <2>2, <2>3, HandlerStep DEF ClaimInv, TypeOK, IdleHandler
<1>5. CASE device # "removed"
  <2> DEFINE v == [handler[h] EXCEPT !.step = "locked"]
  <2>1. handler' = [handler EXCEPT ![h] = v] /\ locked' = {h}
    BY <1>5 DEF LockDevice
  <2>2. v \in Handler /\ v.step = "locked"
    BY <1>3 DEF Handler
  <2>3. LockHeld'
    BY <1>2, <2>1 DEF ClaimInv, LockHeld, TypeOK
  <2> HIDE DEF v
  <2> QED
    BY <1>1, <2>1, <2>2, <2>3, HandlerStep DEF ClaimInv, TypeOK
<1> QED BY <1>4, <1>5

LEMMA SelectStep ==
    ASSUME ClaimInv, NEW h \in Handlers, SelectJobs(h)
    PROVE  ClaimInv' /\ UNCHANGED job
<1> DEFINE v == [handler[h] EXCEPT !.step = "selected", !.jobs = Oldest]
<1>1. /\ handler[h].step = "locked" /\ handler' = [handler EXCEPT ![h] = v]
      /\ UNCHANGED <<device, job, locked, handed, aborts, socket, registered, newest>>
  BY DEF SelectJobs, connections
<1>2. Oldest \subseteq Jobs /\ \A j \in Oldest : job[j] = "PENDING"
  BY DEF Oldest, Pending
<1>3. v \in Handler /\ v.step = "selected" /\ v.jobs = Oldest
  <2>1. handler[h] \in Handler
    BY DEF ClaimInv, TypeOK
  <2> QED BY <1>2, <2>1 DEF Handler
<1> HIDE DEF v
<1>4. LockHeld'
  BY <1>1 DEF ClaimInv, LockHeld, TypeOK
<1> QED BY <1>1, <1>2, <1>3, <1>4, HandlerStep DEF ClaimInv, TypeOK

LEMMA RollBackStep ==
    ASSUME ClaimInv, NEW h \in Handlers, RollBack(h)
    PROVE  ClaimInv' /\ UNCHANGED job
<1>1. /\ handler[h].step \in {"locked", "selected"}
      /\ handler' = [handler EXCEPT ![h] = IdleHandler]
      /\ locked' = locked \ {h} /\ aborts' = aborts + 1
      /\ UNCHANGED <<device, job, handed, socket, registered, newest>>
  BY DEF RollBack, connections
<1>2. IdleHandler \in Handler
  BY DEF IdleHandler, Handler
<1>3. LockHeld'
  BY <1>1 DEF ClaimInv, LockHeld, TypeOK, IdleHandler
<1>4. aborts' \in Nat /\ locked' \subseteq Handlers
  BY <1>1 DEF ClaimInv, TypeOK
<1>5. IdleHandler.step = "idle"
  BY DEF IdleHandler
<1> QED
  BY <1>1, <1>2, <1>3, <1>4, <1>5, HandlerStep

LEMMA LoseStep ==
    ASSUME ClaimInv, NEW h \in Handlers, LoseDelivery(h)
    PROVE  ClaimInv' /\ UNCHANGED job
<1>1. /\ handler[h].step = "claimed" /\ handler' = [handler EXCEPT ![h] = IdleHandler]
      /\ UNCHANGED <<device, job, locked, handed, aborts, socket, registered, newest>>
  BY DEF LoseDelivery, connections
<1>2. IdleHandler \in Handler
  BY DEF IdleHandler, Handler
<1>3. LockHeld'
  BY <1>1 DEF ClaimInv, LockHeld, TypeOK, IdleHandler
<1> QED
  BY <1>1, <1>2, <1>3, HandlerStep DEF ClaimInv, TypeOK, IdleHandler

\* The jobs of the claim were PENDING, so no other claim has any of them.
LEMMA CommitStep ==
    ASSUME ClaimInv, NEW h \in Handlers, CommitClaim(h)
    PROVE  ClaimInv' /\ \A i \in Jobs : job[i] \in SettledStatuses => job'[i] = job[i]
<1> USE DEF ClaimInv
<1> DEFINE claimed == handler[h].jobs
<1>1. /\ handler[h].step = "selected"
      /\ job' = [j \in Jobs |-> IF j \in claimed THEN "RUNNING" ELSE job[j]]
      /\ locked' = locked \ {h}
      /\ handler' = [handler EXCEPT ![h].step = "claimed"]
      /\ UNCHANGED <<device, handed, aborts, socket, registered, newest>>
  BY DEF CommitClaim, connections
<1>2. h \in locked /\ \A g \in Handlers \ {h} :
          handler[g].step \notin {"locked", "selected"}
  BY <1>1 DEF LockHeld
<1>3. handler[h] \in Handler /\ claimed \subseteq Jobs
  BY DEF TypeOK, Handler
<1>4. \A j \in claimed : job[j] = "PENDING" /\ handed[j] = 0
  BY <1>1, <1>3 DEF SelectedPending, HandedClaimed, TypeOK
<1>5. /\ handler'[h].step = "claimed" /\ handler'[h].jobs = claimed
      /\ handler'[h] \in Handler
      /\ \A g \in Handlers \ {h} : handler'[g] = handler[g]
  BY <1>1, <1>3 DEF TypeOK, Handler
<1>6. TypeOK'
  <2>1. handler' \in [Handlers -> Handler]
    BY <1>1, <1>5 DEF TypeOK
  <2>2. job' \in [Jobs -> Statuses]
    BY <1>1 DEF TypeOK, Statuses
  <2> QED BY <1>1, <2>1, <2>2 DEF TypeOK
<1>7. LockHeld'
  BY <1>1, <1>2, <1>5 DEF LockHeld
<1>8. SelectedPending'
  BY <1>2, <1>5 DEF SelectedPending
<1>9. HandedClaimed'
  BY <1>1, <1>4 DEF HandedClaimed
<1>10. \A g \in Handlers \ {h} : handler[g].step = "claimed" =>
          /\ handler[g].jobs \subseteq Jobs
          /\ \A j \in handler[g].jobs : j \notin claimed
  BY <1>4 DEF Undelivered, TypeOK, Handler
<1>11. Undelivered'
  <2> SUFFICES ASSUME NEW f \in Handlers, handler'[f].step = "claimed",
                      NEW j \in handler'[f].jobs
               PROVE  /\ handed'[j] = 0 /\ job'[j] \in {"RUNNING", "deleted"}
                      /\ \A g \in Handlers :
                            handler'[g].step = "claimed" /\ j \in handler'[g].jobs => g = f
    BY DEF Undelivered
  <2>1. CASE f = h
    BY <1>1, <1>3, <1>4, <1>5, <1>10, <2>1
  <2>2. CASE f # h
    <3>1. /\ handler[f].step = "claimed" /\ j \in handler[f].jobs
          /\ j \in Jobs /\ j \notin claimed
      BY <1>5, <1>10, <2>2
    <3> QED BY <1>1, <1>5, <2>2, <3>1 DEF Undelivered
  <2> QED BY <2>1, <2>2
<1>12. \A i \in Jobs : job[i] \in SettledStatuses => job'[i] = job[i]
  BY <1>1, <1>4 DEF SettledStatuses
<1> QED BY <1>1, <1>6, <1>7, <1>8, <1>9, <1>11, <1>12 DEF HandedOutOnce

LEMMA DeliverStep ==
    ASSUME ClaimInv, NEW h \in Handlers, Deliver(h)
    PROVE  ClaimInv' /\ UNCHANGED job
<1> USE DEF ClaimInv
<1> DEFINE given == handler[h].jobs
<1>1. /\ handler[h].step = "claimed"
      /\ handed' = [j \in Jobs |-> IF j \in given THEN handed[j] + 1 ELSE handed[j]]
      /\ handler' = [handler EXCEPT ![h] = IdleHandler]
      /\ UNCHANGED <<device, job, locked, aborts, socket, registered, newest>>
  BY DEF Deliver, connections
<1>2. \A j \in given : handed[j] = 0 /\ job[j] \in {"RUNNING", "deleted"}
  BY <1>1 DEF Undelivered
<1>3. /\ handler'[h].step = "idle"
      /\ \A g \in Handlers \ {h} : handler'[g] = handler[g]
  BY <1>1 DEF TypeOK, IdleHandler
<1>4. TypeOK'
  BY <1>1 DEF TypeOK, IdleHandler, Handler
<1>5. LockHeld' /\ SelectedPending'
  BY <1>1, <1>3 DEF LockHeld, SelectedPending
<1>6. HandedClaimed' /\ HandedOutOnce'
  BY <1>1, <1>2 DEF HandedClaimed, HandedOutOnce, TypeOK
<1>7. Undelivered'
  <2>1. \A g \in Handlers \ {h} : handler[g].step = "claimed" =>
           \A j \in handler[g].jobs : j \in Jobs /\ j \notin given
    BY <1>1 DEF Undelivered, TypeOK, Handler
  <2> QED BY <1>1, <1>3, <2>1 DEF Undelivered
<1> QED BY <1>1, <1>4, <1>5, <1>6, <1>7

-----------------------------------------------------------------------------
(* The connections.                                                        *)

\* The newest connection has registered, and is found while it is open.
ConnectionInv ==
    /\ registered \subseteq Sockets /\ newest \subseteq Sockets
    /\ socket \in [Sockets -> Connection]
    /\ \A s \in newest : socket[s].stage \notin {"none", "connecting"}
    /\ OpenConnectionIsFound

LEMMA ConnectionStep ==
    ASSUME ConnectionInv, NEW s \in Sockets,
           Connect(s) \/ Register(s) \/ Attach(s) \/ FailSetup(s) \/ Close(s)
    PROVE  ConnectionInv' /\ UNCHANGED claims
<1> USE DEF ConnectionInv
<1>0. socket[s] \in Connection
  OBVIOUS
<1>1. CASE Connect(s)
  <2>1. /\ socket[s].stage = "none"
        /\ socket' = [socket EXCEPT ![s] = [stage |-> "connecting", open |-> TRUE]]
        /\ UNCHANGED <<claims, registered, newest>>
    BY <1>1 DEF Connect
  <2> QED BY <2>1 DEF OpenConnectionIsFound, Connection
<1>2. CASE Register(s)
  <2>1. CASE device = "linked"
    <3>1. /\ socket' = [socket EXCEPT ![s].stage = "registered"]
          /\ registered' = {s} /\ newest' = {s} /\ UNCHANGED claims
      BY <1>2, <2>1 DEF Register
    <3> QED BY <1>0, <3>1 DEF OpenConnectionIsFound, Connection
  <2>2. CASE device # "linked"
    <3>1. /\ socket[s].stage = "connecting"
          /\ socket' = [socket EXCEPT ![s] = [stage |-> "refused", open |-> FALSE]]
          /\ UNCHANGED <<claims, registered, newest>>
      BY <1>2, <2>2 DEF Register
    <3> QED BY <3>1 DEF OpenConnectionIsFound, Connection
  <2> QED BY <2>1, <2>2
<1>3. CASE Attach(s)
  <2>1. /\ socket' = [socket EXCEPT ![s].stage = "attached"]
        /\ UNCHANGED <<claims, registered, newest>>
    BY <1>3 DEF Attach
  <2> QED BY <1>0, <2>1 DEF OpenConnectionIsFound, Connection
<1>4. CASE FailSetup(s)
  <2>1. /\ socket' = [socket EXCEPT ![s] = [stage |-> "refused", open |-> FALSE]]
        /\ UNCHANGED <<claims, registered, newest>>
    BY <1>4 DEF FailSetup
  <2> QED BY <2>1 DEF OpenConnectionIsFound, Connection
<1>5. CASE Close(s)
  <2>1. /\ socket' = [socket EXCEPT ![s].open = FALSE]
        /\ registered' \in {registered, registered \ {s}}
        /\ UNCHANGED <<claims, newest>>
    BY <1>5 DEF Close
  <2>2. socket'[s].open = FALSE /\ socket'[s].stage = socket[s].stage
        /\ \A t \in Sockets \ {s} : socket'[t] = socket[t]
    BY <1>0, <2>1 DEF Connection
  <2>3. socket' \in [Sockets -> Connection]
    BY <1>0, <2>1 DEF Connection
  <2>4. OpenConnectionIsFound'
    BY <2>1, <2>2 DEF OpenConnectionIsFound
  <2> QED BY <2>1, <2>2, <2>3, <2>4
<1> QED BY <1>1, <1>2, <1>3, <1>4, <1>5

LEMMA ForceStep ==
    ASSUME ConnectionInv, ForceDisconnect
    PROVE  ConnectionInv' /\ UNCHANGED claims
<1> USE DEF ConnectionInv
<1>1. /\ socket' = [s \in Sockets |->
            IF s \in registered THEN [socket[s] EXCEPT !.open = FALSE] ELSE socket[s]]
      /\ registered' = {} /\ UNCHANGED <<claims, newest>>
  BY DEF ForceDisconnect
<1>2. ASSUME NEW s \in Sockets
      PROVE  /\ socket'[s] \in Connection /\ socket'[s].stage = socket[s].stage
             /\ socket'[s].open => socket[s].open /\ s \notin registered
  BY <1>1 DEF Connection
<1>3. OpenConnectionIsFound'
  BY <1>1, <1>2 DEF OpenConnectionIsFound
<1> QED BY <1>1, <1>2, <1>3

-----------------------------------------------------------------------------
RelayInv == ClaimInv /\ ConnectionInv

\* One step per action; what the theorems say of a step comes with it.
LEMMA StepHolds ==
    ASSUME RelayInv, [Next]_vars
    PROVE  /\ RelayInv'
           /\ \A j \in Jobs : job[j] \in SettledStatuses =>
                 job'[j] \in SettledStatuses \cup {"deleted"}
<1> USE DEF RelayInv
<1>1. ASSUME NEW j \in Jobs, Enqueue(j) PROVE RelayInv' /\ \A i \in Jobs :
          job[i] \in SettledStatuses => job'[i] = job[i]
  <2>1. UNCHANGED connections
    BY <1>1 DEF Enqueue
  <2> QED
    BY <1>1, <2>1, EnqueueStep DEF connections, ConnectionInv, OpenConnectionIsFound
<1>2. CASE RemoveDevice
  <2>1. UNCHANGED connections
    BY <1>2 DEF RemoveDevice
  <2> QED
    BY <1>2, <2>1, RemoveStep DEF connections, ConnectionInv, OpenConnectionIsFound
<1>3. ASSUME NEW j \in Jobs, NEW o \in SettledStatuses, Report(j, o)
      PROVE RelayInv' /\ \A i \in Jobs :
          job[i] \in SettledStatuses => job'[i] \in SettledStatuses
  <2>1. UNCHANGED connections
    BY <1>3 DEF Report
  <2> QED
    BY <1>3, <2>1, ReportStep DEF connections, ConnectionInv, OpenConnectionIsFound
<1>4. CASE Unlink
  <2>1. UNCHANGED <<claims, connections>> /\ device' = "unlinked"
    BY <1>4 DEF Unlink
  <2>2. TypeOK'
    BY <2>1 DEF claims, connections, ClaimInv, TypeOK
  <2> QED
    BY <2>1, <2>2, AsideStep DEF connections, ConnectionInv, OpenConnectionIsFound
<1>5. ASSUME NEW h \in Handlers,
             \/ StartPoll(h) \/ Dispatch(h)
             \/ LockDevice(h) \/ SelectJobs(h) \/ RollBack(h) \/ LoseDelivery(h)
             \/ Deliver(h)
      PROVE  RelayInv' /\ UNCHANGED job
  <2>1. UNCHANGED connections
    BY <1>5 DEF StartPoll, Dispatch, Check, LockDevice, SelectJobs, RollBack,
                LoseDelivery, Deliver
  <2>2. ConnectionInv'
    BY <2>1 DEF connections, ConnectionInv, OpenConnectionIsFound
  <2>3. ClaimInv' /\ UNCHANGED job
    <3>1. CASE StartPoll(h)
      BY <3>1, CheckStep DEF StartPoll
    <3>2. CASE Dispatch(h)
      BY <3>2, CheckStep DEF Dispatch, ConnectionInv
    <3> QED
      BY <1>5, <3>1, <3>2, LockStep, SelectStep, RollBackStep, LoseStep, DeliverStep
  <2> QED BY <2>2, <2>3
<1>6. ASSUME NEW h \in Handlers, CommitClaim(h)
      PROVE  RelayInv' /\ \A i \in Jobs : job[i] \in SettledStatuses => job'[i] = job[i]
  <2>1. UNCHANGED connections
    BY <1>6 DEF CommitClaim
  <2> QED
    BY <1>6, <2>1, CommitStep DEF connections, ConnectionInv, OpenConnectionIsFound
<1>7. ASSUME ConnectionInv', UNCHANGED claims, UNCHANGED device
      PROVE  RelayInv' /\ UNCHANGED job
  <2>1. TypeOK'
    BY <1>7 DEF claims, ClaimInv, TypeOK, ConnectionInv
  <2> QED BY <1>7, <2>1, AsideStep DEF claims
<1>8. ASSUME NEW s \in Sockets,
             Connect(s) \/ Register(s) \/ Attach(s) \/ FailSetup(s) \/ Close(s)
      PROVE  RelayInv' /\ UNCHANGED job
  <2>1. UNCHANGED device
    BY <1>8 DEF Connect, Register, Attach, FailSetup, Close
  <2> QED BY <1>7, <1>8, <2>1, ConnectionStep
<1>9. CASE ForceDisconnect
  <2>1. UNCHANGED device
    BY <1>9 DEF ForceDisconnect
  <2> QED BY <1>7, <1>9, <2>1, ForceStep
<1>10. CASE UNCHANGED vars
  <2>1. UNCHANGED claims /\ UNCHANGED device /\ UNCHANGED <<socket, registered, newest>>
    BY <1>10 DEF vars, claims
  <2> QED
    BY <1>7, <2>1 DEF ConnectionInv, OpenConnectionIsFound
<1> QED
  BY <1>1, <1>2, <1>3, <1>4, <1>5, <1>6, <1>8, <1>9, <1>10
  DEF Next, ClaimStep, SettledStatuses, claims

LEMMA AlwaysHolds == Spec => []RelayInv
<1>1. Init => RelayInv
  BY InitHolds DEF RelayInv, ConnectionInv, OpenConnectionIsFound, Init, Connection
<1>2. RelayInv /\ [Next]_vars => RelayInv'
  BY StepHolds
<1> QED BY <1>1, <1>2, PTL DEF Spec

\* No job is handed to its device twice, whichever polls and dispatches claim
\* at the same time and however often claims are rolled back.
THEOREM HandedOutOnceHolds == Spec => []HandedOutOnce
<1>1. RelayInv => HandedOutOnce
  BY DEF RelayInv, ClaimInv
<1> QED BY <1>1, AlwaysHolds, PTL

\* A reported outcome is never undone by a claim that began before it.
THEOREM OutcomesStayHolds == Spec => OutcomesStay
<1> DEFINE Stay == \A j \in Jobs : job[j] \in SettledStatuses =>
                       job'[j] \in SettledStatuses \cup {"deleted"}
<1>1. RelayInv /\ [Next]_vars => [Stay]_vars
  BY StepHolds
<1>2. Spec => [][Stay]_vars
  BY <1>1, AlwaysHolds, PTL DEF Spec
<1> QED BY <1>2 DEF OutcomesStay

\* Whatever opens, fails and closes, dispatches find the newest connection
\* for as long as it is open.
THEOREM OpenConnectionIsFoundHolds == Spec => []OpenConnectionIsFound
<1>1. RelayInv => OpenConnectionIsFound
  BY DEF RelayInv, ConnectionInv
<1> QED BY <1>1, AlwaysHolds, PTL

-----------------------------------------------------------------------------
(* The tunnels.  A stake is what a row or a request says of a tunnel: that  *)
(* it is the device's, and the numbers of its two names.                   *)

PairingRequest == [step : {"claim"}, op : {"pair"}, code : Codes]
Provision == [step : RemoteSteps \cup {"save"}, op : {"provision"}, of : Devices,
              run : Nat, tunnel : Nat, gateway : Nat, libp2p : Nat]
Revocation == [step : {"gateway", "libp2p", "tunnel", "save"}, op : {"revoke"},
               of : Devices, tunnel : Nat, gateway : Nat, libp2p : Nat]
Desktop == [link : {"absent", "linked", "unlinked", "removed"},
            code : Codes \cup {NoCode}, on : BOOLEAN,
            tunnel : Nat, gateway : Nat, libp2p : Nat]

DesktopTypeOK ==
    /\ setting \in Settings
    /\ pairing \in [Codes -> {"open", "expired", "claimed"}]
    /\ desktop \in [Devices -> Desktop]
    /\ cloud.tunnels \subseteq [id : Nat, of : Devices, rules : Nat \X Nat]
    /\ cloud = [tunnels |-> cloud.tunnels, records |-> cloud.records]
    /\ request \in [setting.requests ->
                      {NoRequest} \cup PairingRequest \cup Provision \cup Revocation]
    /\ runs \in Nat

Working(c) == request[c].step \notin {"idle", "claim"}
Target(c) == IF request[c].step = "create" THEN request[c].run ELSE request[c].tunnel

Stake(d, n, gateway, libp2p) ==
    [of |-> d, on |-> n, gateway |-> gateway, libp2p |-> libp2p]
RowStakes ==
    {Stake(d, desktop[d].tunnel, desktop[d].gateway, desktop[d].libp2p) :
        d \in {e \in Devices : desktop[e].tunnel # 0}}
RequestStakes ==
    {Stake(request[c].of, Target(c), request[c].gateway, request[c].libp2p) :
        c \in {b \in setting.requests : Working(b) /\ Target(b) # 0}}
Stakes == RowStakes \cup RequestStakes

\* A tunnel is staked for one device, and a name leads to one tunnel.
StakesFit ==
    /\ \A x \in Stakes : /\ x.on \in 1..runs /\ x.gateway = x.on
                         /\ x.libp2p \in 0..runs
                         /\ \A t \in cloud.tunnels : t.id = x.on => t.of = x.of
    /\ \A x, y \in Stakes : /\ x.on = y.on => x.of = y.of
                            /\ x.libp2p = y.libp2p /\ x.libp2p # 0 => x.on = y.on
    /\ \A t \in cloud.tunnels : t.id \in 1..runs

IsNamed(name, n, tunnel) == Record(name, n, tunnel) \in cloud.records

\* What a row says is there, unless somebody worked on its tunnel.
RowHolds(d) ==
    LET row == desktop[d] IN
    /\ IF row.tunnel = 0 THEN row.gateway = 0 /\ row.libp2p = 0 ELSE row.on
    /\ row.tunnel # 0 /\ row.tunnel \notin contested =>
          /\ IsThere(row.tunnel) /\ IsNamed("gateway", row.gateway, row.tunnel)
          /\ row.libp2p # 0 =>
                /\ Tunnel(row.tunnel, d, row.gateway, row.libp2p) \in cloud.tunnels
                /\ IsNamed("libp2p", row.libp2p, row.tunnel)

\* Nobody else works on the tunnel of c, and no row is finished with it.
Alone(c) ==
    /\ \A b \in setting.requests \ {c} : Working(b) => Target(b) # Target(c)
    /\ \A d \in Devices : desktop[d].tunnel = Target(c) => desktop[d].libp2p = 0

\* A provision that has its tunnel to itself has done what it is past.
ProvisionHolds(c) ==
    LET r == request[c] IN
    r \in Provision =>
        /\ r.libp2p = r.run /\ r.run # 0 /\ Target(c) # 0
        /\ r.step = "create" =>
              /\ r.tunnel = 0 /\ r.gateway = r.run /\ Alone(c)
              /\ ~IsThere(r.run) /\ \A d \in Devices : desktop[d].tunnel # r.run
        /\ r.step # "create" /\ r.tunnel \notin contested =>
              /\ IsThere(r.tunnel) /\ Alone(c)
              /\ r.step # "ingress" =>
                    Tunnel(r.tunnel, r.of, r.gateway, r.libp2p) \in cloud.tunnels
              /\ r.gateway # r.run \/ r.step \in {"libp2p", "save"} =>
                    IsNamed("gateway", r.gateway, r.tunnel)
              /\ r.step = "save" => IsNamed("libp2p", r.libp2p, r.tunnel)

RevocationHolds(c) ==
    LET r == request[c] IN
    r \in Revocation => IF r.tunnel = 0 THEN r.gateway = 0 /\ r.libp2p = 0
                                        ELSE r.tunnel \in contested

TunnelInv ==
    /\ DesktopTypeOK /\ StakesFit
    /\ \A d \in Devices : RowHolds(d)
    /\ \A c \in setting.requests : ProvisionHolds(c) /\ RevocationHolds(c)

\* Who has a code has claimed it.
CodesClaimed ==
    \A d \in Devices : desktop[d].code # NoCode => pairing[desktop[d].code] = "claimed"

-----------------------------------------------------------------------------
(* Frames: what a step leaves as it was.                                   *)

LEMMA StakesFrom ==
    ASSUME NEW S, setting' = setting,
           \A d \in Devices : desktop'[d].tunnel # 0 =>
              Stake(d, desktop'[d].tunnel, desktop'[d].gateway, desktop'[d].libp2p) \in S,
           \A c \in setting.requests : Working(c)' /\ Target(c)' # 0 =>
              Stake(request'[c].of, Target(c)', request'[c].gateway,
                    request'[c].libp2p) \in S
    PROVE  Stakes' \subseteq S
<1>1. RowStakes' \subseteq S
  BY DEF RowStakes
<1>2. RequestStakes' \subseteq S
  BY DEF RequestStakes
<1> QED BY <1>1, <1>2 DEF Stakes

LEMMA RowStaked ==
    ASSUME NEW d \in Devices, desktop[d].tunnel # 0
    PROVE  Stake(d, desktop[d].tunnel, desktop[d].gateway, desktop[d].libp2p) \in Stakes
BY DEF Stakes, RowStakes

LEMMA RequestStaked ==
    ASSUME NEW c \in setting.requests, Working(c), Target(c) # 0
    PROVE  Stake(request[c].of, Target(c), request[c].gateway, request[c].libp2p)
              \in Stakes
BY DEF Stakes, RequestStakes

\* The shape of a request follows from its step and its operation.
LEMMA RequestShapes ==
    ASSUME DesktopTypeOK, NEW c \in setting.requests
    PROVE  /\ request[c] = NoRequest <=> request[c].step = "idle"
           /\ request[c].step = "claim" => request[c] \in PairingRequest
           /\ Working(c) <=> request[c] \in Provision \cup Revocation
           /\ Working(c) /\ request[c].op = "provision" <=> request[c] \in Provision
           /\ Working(c) /\ request[c].op = "revoke" <=> request[c] \in Revocation
<1>1. request[c] \in {NoRequest} \cup PairingRequest \cup Provision \cup Revocation
  BY DEF DesktopTypeOK
<1>2. CASE request[c] = NoRequest
  BY <1>2 DEF NoRequest, PairingRequest, Provision, Revocation, RemoteSteps, Working
<1>3. CASE request[c] \in PairingRequest
  BY <1>3 DEF NoRequest, PairingRequest, Provision, Revocation, RemoteSteps, Working
<1>4. CASE request[c] \in Provision
  BY <1>4 DEF NoRequest, PairingRequest, Provision, Revocation, RemoteSteps, Working
<1>5. CASE request[c] \in Revocation
  BY <1>5 DEF NoRequest, PairingRequest, Provision, Revocation, RemoteSteps, Working
<1> QED BY <1>1, <1>2, <1>3, <1>4, <1>5

\* A step of c that keeps its hands off what is not its own: the tunnels of
\* others stay as they are, and no stake that is not contested is lost.
Cautious(c) ==
    /\ contested \subseteq contested'
    /\ \A x \in Stakes : x.on \notin contested' =>
          /\ IsThere(x.on) => IsThere(x.on)'
          /\ IsNamed("gateway", x.gateway, x.on) => IsNamed("gateway", x.gateway, x.on)'
          /\ x.libp2p # 0 /\ IsNamed("libp2p", x.libp2p, x.on) =>
                IsNamed("libp2p", x.libp2p, x.on)'
    /\ \A t \in cloud.tunnels :
          t.id \notin contested' /\ ~(Working(c) /\ t.id = Target(c)) =>
             t \in cloud'.tunnels
    /\ \A t \in cloud'.tunnels :
          t \notin cloud.tunnels => Working(c) /\ t.id = Target(c)

LEMMA IdleCloudIsCautious ==
    ASSUME UNCHANGED cloud, contested \subseteq contested', NEW c
    PROVE  Cautious(c)
BY DEF Cautious, IsThere, IsNamed

\* A row that says what it said still holds.
LEMMA RowKept ==
    ASSUME TunnelInv, NEW c \in setting.requests, Cautious(c), NEW d \in Devices,
           desktop'[d].tunnel = desktop[d].tunnel, desktop'[d].on = desktop[d].on,
           desktop'[d].gateway = desktop[d].gateway,
           desktop'[d].libp2p = desktop[d].libp2p
    PROVE  RowHolds(d)'
<1> DEFINE n == desktop[d].tunnel
<1>1. RowHolds(d)
  BY DEF TunnelInv
<1>2. CASE n = 0 \/ n \in contested'
  BY <1>1, <1>2 DEF RowHolds
<1>3. CASE n # 0 /\ n \notin contested'
  <2>1. n \notin contested
    BY <1>3 DEF Cautious
  <2>2. Stake(d, n, desktop[d].gateway, desktop[d].libp2p) \in Stakes
    BY <1>3, RowStaked
  <2>3. /\ IsThere(n)' /\ IsNamed("gateway", desktop[d].gateway, n)'
        /\ desktop[d].libp2p # 0 => IsNamed("libp2p", desktop[d].libp2p, n)'
    BY <1>1, <1>3, <2>1, <2>2 DEF Cautious, RowHolds, Stake
  <2>4. desktop[d].libp2p # 0 => ~(Working(c) /\ n = Target(c))
    <3>1. ProvisionHolds(c) /\ RevocationHolds(c) /\ DesktopTypeOK
      BY DEF TunnelInv
    <3>2. CASE request[c] \in Provision
      BY <1>3, <2>1, <3>1, <3>2 DEF ProvisionHolds, Alone, Target
    <3>3. CASE request[c] \in Revocation
      BY <1>3, <2>1, <3>1, <3>3 DEF RevocationHolds, Target, Revocation
    <3> QED BY <3>1, <3>2, <3>3, RequestShapes
  <2>5. desktop[d].libp2p # 0 =>
          Tunnel(n, d, desktop[d].gateway, desktop[d].libp2p) \in cloud'.tunnels
    BY <1>1, <1>3, <2>1, <2>4 DEF RowHolds, Cautious, Tunnel
  <2> QED BY <1>1, <1>3, <2>3, <2>5 DEF RowHolds
<1> QED BY <1>2, <1>3

\* The requests of others still hold, if c does not turn to their tunnel
\* without contesting it and only saves what it has worked on.
LEMMA OthersKept ==
    ASSUME TunnelInv, NEW c \in setting.requests, Cautious(c), setting' = setting,
           NEW b \in setting.requests, request'[b] = request[b], b # c,
           \A a \in setting.requests \ {c} : request'[a] = request[a],
           Working(c)' => \/ Target(c)' = 0
                          \/ Working(c) /\ Target(c)' = Target(c)
                          \/ Target(c)' \in contested'
                             /\ \E d \in Devices : Target(c)' = desktop[d].tunnel
                          \/ \A a \in setting.requests \ {c} :
                                Working(a) => Target(a) # Target(c)',
           \A d \in Devices :
              \/ desktop'[d].tunnel = 0
              \/ /\ desktop'[d].tunnel = desktop[d].tunnel
                 /\ desktop'[d].libp2p = desktop[d].libp2p
              \/ Working(c) /\ desktop'[d].tunnel = Target(c)
    PROVE  ProvisionHolds(b)' /\ RevocationHolds(b)'
<1>1. ProvisionHolds(b) /\ RevocationHolds(b) /\ DesktopTypeOK
  BY DEF TunnelInv
<1>2. Target(b)' = Target(b) /\ (Working(b)' <=> Working(b))
  BY DEF Target, Working
<1>3. RevocationHolds(b)'
  BY <1>1 DEF RevocationHolds, Cautious
<1>4. ProvisionHolds(b)'
  <2> SUFFICES ASSUME request[b] \in Provision PROVE ProvisionHolds(b)'
    BY DEF ProvisionHolds
  <2> DEFINE r == request[b]
  <2>1. Working(b) /\ Target(b) # 0 /\ r.libp2p = r.run /\ r.run # 0
    BY <1>1, RequestShapes DEF ProvisionHolds
  <2>2. Stake(r.of, Target(b), r.gateway, r.libp2p) \in Stakes
    BY <2>1, RequestStaked
  <2>3. CASE r.step = "create"
    <3>1. /\ r.tunnel = 0 /\ r.gateway = r.run /\ Alone(b) /\ ~IsThere(r.run)
          /\ \A d \in Devices : desktop[d].tunnel # r.run
          /\ Target(b) = r.run
      BY <1>1, <2>3 DEF ProvisionHolds, Target
    <3>2. ~(Working(c) /\ Target(c) = r.run)
      BY <3>1 DEF Alone
    <3>3. ~(Working(c)' /\ Target(c)' = r.run)
      BY <2>1, <3>1, <3>2
    <3>4. ~IsThere(r.run)'
      BY <3>1, <3>2 DEF Cautious, IsThere
    <3>5. \A d \in Devices : desktop'[d].tunnel # r.run
      BY <2>1, <3>1, <3>2
    <3>6. Alone(b)'
      BY <1>2, <3>1, <3>3, <3>5 DEF Alone, Working, Target
    <3> QED BY <2>1, <2>3, <3>1, <3>4, <3>5, <3>6 DEF ProvisionHolds, Target
  <2>4. CASE r.step # "create" /\ r.tunnel \in contested'
    BY <2>1, <2>4 DEF ProvisionHolds, Target
  <2>5. CASE r.step # "create" /\ r.tunnel \notin contested'
    <3>1. r.tunnel \notin contested /\ Target(b) = r.tunnel
      BY <2>5 DEF Cautious, Target
    <3>2. /\ IsThere(r.tunnel) /\ Alone(b)
          /\ r.step # "ingress" =>
                Tunnel(r.tunnel, r.of, r.gateway, r.libp2p) \in cloud.tunnels
          /\ r.gateway # r.run \/ r.step \in {"libp2p", "save"} =>
                IsNamed("gateway", r.gateway, r.tunnel)
          /\ r.step = "save" => IsNamed("libp2p", r.libp2p, r.tunnel)
      BY <1>1, <2>5, <3>1 DEF ProvisionHolds
    <3>3. ~(Working(c) /\ Target(c) = r.tunnel)
      BY <3>1, <3>2 DEF Alone
    <3>4. ~(Working(c)' /\ Target(c)' = r.tunnel)
      BY <2>1, <2>5, <3>1, <3>3
    <3>5. Alone(b)'
      BY <1>2, <2>1, <3>1, <3>2, <3>3, <3>4 DEF Alone, Working, Target
    <3>6. /\ IsThere(r.tunnel)'
          /\ IsNamed("gateway", r.gateway, r.tunnel) =>
                IsNamed("gateway", r.gateway, r.tunnel)'
          /\ IsNamed("libp2p", r.libp2p, r.tunnel) =>
                IsNamed("libp2p", r.libp2p, r.tunnel)'
      BY <2>1, <2>2, <2>5, <3>1, <3>2 DEF Cautious, Stake
    <3>7. r.step # "ingress" =>
            Tunnel(r.tunnel, r.of, r.gateway, r.libp2p) \in cloud'.tunnels
      BY <2>5, <3>2, <3>3 DEF Cautious, Tunnel
    <3> QED BY <2>1, <2>5, <3>2, <3>5, <3>6, <3>7, <1>2 DEF ProvisionHolds
  <2> QED BY <2>3, <2>4, <2>5
<1> QED BY <1>3, <1>4

\* No new stake: nothing to show but where a new tunnel stands.
LEMMA StakesKept ==
    ASSUME TunnelInv, Stakes' \subseteq Stakes, runs' = runs,
           \A t \in cloud'.tunnels :
              \/ \E u \in cloud.tunnels : t.id = u.id /\ t.of = u.of
              \/ \E x \in Stakes : t.id = x.on /\ t.of = x.of
    PROVE  StakesFit'
BY DEF TunnelInv, StakesFit

\* Of a step of c, what is left to show is about c and the rows it wrote.
LEMMA ActorStep ==
    ASSUME TunnelInv, NEW c \in setting.requests, Cautious(c), DesktopTypeOK',
           setting' = setting, StakesFit',
           \A b \in setting.requests \ {c} : request'[b] = request[b],
           Working(c)' => \/ Target(c)' = 0
                          \/ Working(c) /\ Target(c)' = Target(c)
                          \/ Target(c)' \in contested'
                             /\ \E d \in Devices : Target(c)' = desktop[d].tunnel
                          \/ \A a \in setting.requests \ {c} :
                                Working(a) => Target(a) # Target(c)',
           \A d \in Devices :
              \/ /\ desktop'[d].tunnel = desktop[d].tunnel
                 /\ desktop'[d].on = desktop[d].on
                 /\ desktop'[d].gateway = desktop[d].gateway
                 /\ desktop'[d].libp2p = desktop[d].libp2p
              \/ /\ desktop'[d].tunnel = 0 /\ desktop'[d].gateway = 0
                 /\ desktop'[d].libp2p = 0
              \/ Working(c) /\ desktop'[d].tunnel = Target(c) /\ RowHolds(d)',
           ProvisionHolds(c)', RevocationHolds(c)'
    PROVE  TunnelInv'
<1>1. \A b \in setting.requests : ProvisionHolds(b)' /\ RevocationHolds(b)'
  BY OthersKept
<1>2. \A d \in Devices : RowHolds(d)'
  <2> SUFFICES ASSUME NEW d \in Devices PROVE RowHolds(d)'
    OBVIOUS
  <2>1. CASE /\ desktop'[d].tunnel = 0 /\ desktop'[d].gateway = 0
             /\ desktop'[d].libp2p = 0
    BY <2>1 DEF RowHolds
  <2> QED BY <2>1, RowKept
<1> QED BY <1>1, <1>2 DEF TunnelInv

\* The row of d says nothing of a tunnel, or what it said before.
SaysLess(d) ==
    \/ /\ desktop'[d].tunnel = desktop[d].tunnel /\ desktop'[d].on = desktop[d].on
       /\ desktop'[d].gateway = desktop[d].gateway
       /\ desktop'[d].libp2p = desktop[d].libp2p
    \/ /\ desktop'[d].tunnel = 0 /\ desktop'[d].gateway = 0
       /\ desktop'[d].libp2p = 0

\* A request ends and writes no tunnel into a row.
LEMMA LeaveStep ==
    ASSUME TunnelInv, NEW c \in setting.requests, Cautious(c), DesktopTypeOK',
           setting' = setting, runs' = runs,
           request' = [request EXCEPT ![c] = NoRequest],
           \A t \in cloud'.tunnels :
              \/ \E u \in cloud.tunnels : t.id = u.id /\ t.of = u.of
              \/ \E x \in Stakes : t.id = x.on /\ t.of = x.of,
           \A d \in Devices : SaysLess(d)
    PROVE  TunnelInv'
<1>1. /\ request'[c] = NoRequest
      /\ \A b \in setting.requests \ {c} : request'[b] = request[b]
  BY DEF TunnelInv, DesktopTypeOK
<1>2. ~Working(c)' /\ request'[c] \notin Provision \cup Revocation
  BY <1>1 DEF Working, NoRequest, Provision, Revocation
<1>3. Stakes' \subseteq Stakes
  <2>1. \A d \in Devices : desktop'[d].tunnel # 0 =>
          Stake(d, desktop'[d].tunnel, desktop'[d].gateway, desktop'[d].libp2p)
             \in Stakes
    BY RowStaked DEF SaysLess
  <2>2. \A b \in setting.requests : Working(b)' /\ Target(b)' # 0 =>
          Stake(request'[b].of, Target(b)', request'[b].gateway,
                request'[b].libp2p) \in Stakes
    <3> SUFFICES ASSUME NEW b \in setting.requests, Working(b)', Target(b)' # 0
                 PROVE  Stake(request'[b].of, Target(b)', request'[b].gateway,
                              request'[b].libp2p) \in Stakes
      OBVIOUS
    <3>1. request'[b] = request[b]
      BY <1>1, <1>2
    <3> QED BY <3>1, RequestStaked DEF Working, Target
  <2> QED BY <2>1, <2>2, StakesFrom
<1>4. StakesFit'
  BY <1>3, StakesKept
<1> QED BY <1>1, <1>2, <1>4, ActorStep
        DEF ProvisionHolds, RevocationHolds, SaysLess

\* A request goes on with the tunnel it has.
LEMMA GoOnStep ==
    ASSUME TunnelInv, NEW c \in setting.requests, Cautious(c), DesktopTypeOK',
           setting' = setting, runs' = runs, UNCHANGED desktop,
           \A b \in setting.requests \ {c} : request'[b] = request[b],
           Working(c), Working(c)', Target(c)' = Target(c),
           request'[c].of = request[c].of, request'[c].gateway = request[c].gateway,
           request'[c].libp2p = request[c].libp2p,
           \A t \in cloud'.tunnels :
              \/ \E u \in cloud.tunnels : t.id = u.id /\ t.of = u.of
              \/ \E x \in Stakes : t.id = x.on /\ t.of = x.of,
           ProvisionHolds(c)', RevocationHolds(c)'
    PROVE  TunnelInv'
<1>1. Stakes' \subseteq Stakes
  <2>1. \A d \in Devices : desktop'[d].tunnel # 0 =>
          Stake(d, desktop'[d].tunnel, desktop'[d].gateway, desktop'[d].libp2p)
             \in Stakes
    BY RowStaked
  <2>2. \A b \in setting.requests : Working(b)' /\ Target(b)' # 0 =>
          Stake(request'[b].of, Target(b)', request'[b].gateway,
                request'[b].libp2p) \in Stakes
    <3> SUFFICES ASSUME NEW b \in setting.requests, Working(b)', Target(b)' # 0
                 PROVE  Stake(request'[b].of, Target(b)', request'[b].gateway,
                              request'[b].libp2p) \in Stakes
      OBVIOUS
    <3>1. CASE b = c
      BY <3>1, RequestStaked
    <3>2. CASE b # c
      <4>1. request'[b] = request[b]
        BY <3>2
      <4> QED BY <4>1, RequestStaked DEF Working, Target
    <3> QED BY <3>1, <3>2
  <2> QED BY <2>1, <2>2, StakesFrom
<1>2. StakesFit'
  BY <1>1, StakesKept
<1> QED BY <1>2, ActorStep

\* Steps of nobody's request.
LEMMA AsideDesktopStep ==
    ASSUME TunnelInv, DesktopTypeOK', \A d \in Devices : SaysLess(d),
           UNCHANGED <<setting, cloud, request, runs, contested>>
    PROVE  TunnelInv'
<1>1. /\ cloud' = cloud /\ request' = request /\ contested' = contested
      /\ setting' = setting /\ runs' = runs
  OBVIOUS
<1>2. \A c \in setting.requests :
        (Working(c)' <=> Working(c)) /\ Target(c)' = Target(c)
  BY <1>1 DEF Working, Target
<1>3. Stakes' \subseteq Stakes
  <2>1. \A d \in Devices : desktop'[d].tunnel # 0 =>
          Stake(d, desktop'[d].tunnel, desktop'[d].gateway, desktop'[d].libp2p)
             \in Stakes
    BY RowStaked DEF SaysLess
  <2>2. \A b \in setting.requests : Working(b)' /\ Target(b)' # 0 =>
          Stake(request'[b].of, Target(b)', request'[b].gateway,
                request'[b].libp2p) \in Stakes
    BY <1>1, <1>2, RequestStaked
  <2> QED BY <1>1, <2>1, <2>2, StakesFrom
<1>4. StakesFit'
  BY <1>1, <1>3, StakesKept
<1>5. \A d \in Devices : RowHolds(d)'
  BY <1>1 DEF TunnelInv, RowHolds, SaysLess, IsThere, IsNamed
<1>6. \A c \in setting.requests : Alone(c) => Alone(c)'
  BY <1>1, <1>2 DEF Alone, SaysLess, TunnelInv, RowHolds, StakesFit
<1>7. \A c \in setting.requests : ProvisionHolds(c)' /\ RevocationHolds(c)'
  <2> SUFFICES ASSUME NEW c \in setting.requests
               PROVE  ProvisionHolds(c)' /\ RevocationHolds(c)'
    OBVIOUS
  <2>1. ProvisionHolds(c) /\ RevocationHolds(c)
    BY DEF TunnelInv
  <2>2. RevocationHolds(c)'
    BY <1>1, <2>1 DEF RevocationHolds
  <2>3. request[c] \in Provision => request[c].run # 0
    BY <2>1 DEF ProvisionHolds
  <2>4. ProvisionHolds(c)'
    BY <1>1, <1>2, <1>6, <2>1, <2>3
       DEF ProvisionHolds, SaysLess, IsThere, IsNamed
  <2> QED BY <2>2, <2>4
<1> QED BY <1>1, <1>4, <1>5, <1>7 DEF TunnelInv

-----------------------------------------------------------------------------
(* Pairing, unlinking and removal.                                         *)

LEMMA PairingSteps ==
    ASSUME TunnelInv, NEW c \in setting.requests,
           \/ \E k \in Codes : BeginClaim(c, k)
           \/ \E d \in Devices : CommitPairing(c, d)
           \/ RefusePairing(c) \/ BreakOff(c)
    PROVE  TunnelInv'
<1>1. DesktopTypeOK /\ contested' = contested /\ cloud' = cloud
        /\ setting' = setting /\ runs' = runs
  BY DEF TunnelInv, BeginClaim, CommitPairing, RefusePairing, BreakOff
<1>2. Cautious(c)
  BY <1>1, IdleCloudIsCautious
<1>3. ASSUME NEW k \in Codes, BeginClaim(c, k) PROVE TunnelInv'
  <2> DEFINE v == [step |-> "claim", op |-> "pair", code |-> k]
  <2>1. /\ v \in PairingRequest /\ v \notin Provision \cup Revocation
        /\ v.step = "claim"
    BY DEF PairingRequest, Provision, Revocation, RemoteSteps
  <2>2. /\ request' = [request EXCEPT ![c] = v] /\ desktop' = desktop
        /\ pairing' = pairing
    BY <1>3 DEF BeginClaim
  <2> HIDE DEF v
  <2>3. /\ request'[c] = v
        /\ \A b \in setting.requests \ {c} : request'[b] = request[b]
    BY <1>1, <2>2 DEF DesktopTypeOK
  <2>4. DesktopTypeOK'
    BY <1>1, <2>1, <2>2 DEF DesktopTypeOK
  <2>5. ~Working(c)'
    BY <2>1, <2>3 DEF Working
  <2>6. Stakes' \subseteq Stakes
    <3>1. \A d \in Devices : desktop'[d].tunnel # 0 =>
            Stake(d, desktop'[d].tunnel, desktop'[d].gateway, desktop'[d].libp2p)
               \in Stakes
      BY <2>2, RowStaked
    <3>2. \A b \in setting.requests : Working(b)' /\ Target(b)' # 0 =>
            Stake(request'[b].of, Target(b)', request'[b].gateway,
                  request'[b].libp2p) \in Stakes
      <4> SUFFICES ASSUME NEW b \in setting.requests, Working(b)', Target(b)' # 0
                   PROVE  Stake(request'[b].of, Target(b)', request'[b].gateway,
                                request'[b].libp2p) \in Stakes
        OBVIOUS
      <4>1. request'[b] = request[b]
        BY <2>3, <2>5
      <4> QED BY <4>1, RequestStaked DEF Working, Target
    <3> QED BY <1>1, <3>1, <3>2, StakesFrom
  <2>7. StakesFit'
    BY <1>1, <2>6, StakesKept
  <2> QED BY <1>1, <1>2, <2>1, <2>2, <2>3, <2>4, <2>5, <2>7, ActorStep
          DEF ProvisionHolds, RevocationHolds
<1>4. ASSUME NEW d \in Devices, CommitPairing(c, d) PROVE TunnelInv'
  <2>1. request[c] \in PairingRequest
    BY <1>1, <1>4, RequestShapes DEF CommitPairing, At
  <2>2. NewDesktop(request[c].code) \in Desktop
    BY <2>1 DEF NewDesktop, NoDesktop, Desktop, PairingRequest
  <2>3. /\ desktop' = [desktop EXCEPT ![d] = NewDesktop(request[c].code)]
        /\ pairing' = [pairing EXCEPT ![request[c].code] = "claimed"]
        /\ request' = [request EXCEPT ![c] = NoRequest]
    BY <1>4 DEF CommitPairing, Leave
  <2>4. DesktopTypeOK'
    BY <1>1, <2>1, <2>2, <2>3 DEF DesktopTypeOK, PairingRequest
  <2>5. \A e \in Devices : SaysLess(e)
    BY <1>1, <2>3 DEF SaysLess, DesktopTypeOK, NewDesktop, NoDesktop
  <2> QED BY <1>1, <1>2, <2>3, <2>4, <2>5, LeaveStep
<1>5. CASE RefusePairing(c) \/ BreakOff(c)
  <2>1. /\ request' = [request EXCEPT ![c] = NoRequest] /\ desktop' = desktop
        /\ pairing' = pairing
    BY <1>5 DEF RefusePairing, BreakOff, Leave
  <2>2. DesktopTypeOK' /\ \A e \in Devices : SaysLess(e)
    BY <1>1, <2>1 DEF DesktopTypeOK, SaysLess
  <2> QED BY <1>1, <1>2, <2>1, <2>2, LeaveStep
<1> QED BY <1>3, <1>4, <1>5

LEMMA OwnerSteps ==
    ASSUME TunnelInv,
           \/ \E k \in Codes : Expire(k)
           \/ \E d \in Devices : Disconnect(d) \/ RemoveByOwner(d)
    PROVE  TunnelInv'
<1>1. DesktopTypeOK /\ UNCHANGED <<setting, cloud, request, runs, contested>>
  BY DEF TunnelInv, Expire, Disconnect, RemoveByOwner
<1>2. DesktopTypeOK' /\ \A d \in Devices : SaysLess(d)
  <2>1. ASSUME NEW k \in Codes, Expire(k)
        PROVE  DesktopTypeOK' /\ \A d \in Devices : SaysLess(d)
    BY <1>1, <2>1 DEF Expire, DesktopTypeOK, SaysLess
  <2>2. ASSUME NEW d \in Devices, Disconnect(d) \/ RemoveByOwner(d)
        PROVE  DesktopTypeOK' /\ \A e \in Devices : SaysLess(e)
    <3>1. PICK new \in Desktop :
            /\ desktop' = [desktop EXCEPT ![d] = new]
            /\ \/ /\ new.tunnel = desktop[d].tunnel /\ new.on = desktop[d].on
                  /\ new.gateway = desktop[d].gateway
                  /\ new.libp2p = desktop[d].libp2p
               \/ new.tunnel = 0 /\ new.gateway = 0 /\ new.libp2p = 0
      <4>1. desktop[d] \in Desktop
        BY <1>1 DEF DesktopTypeOK
      <4>2. CASE Disconnect(d)
        <5> DEFINE new == [desktop[d] EXCEPT !.link = "unlinked"]
        <5>1. new \in Desktop /\ desktop' = [desktop EXCEPT ![d] = new]
          BY <1>1, <4>1, <4>2 DEF Disconnect, Desktop, DesktopTypeOK
        <5>2. /\ new.tunnel = desktop[d].tunnel /\ new.on = desktop[d].on
              /\ new.gateway = desktop[d].gateway /\ new.libp2p = desktop[d].libp2p
          BY <4>1 DEF Desktop
        <5> QED BY <5>1, <5>2
      <4>3. CASE RemoveByOwner(d)
        <5> DEFINE new == [NoDesktop EXCEPT !.link = "removed", !.code = desktop[d].code]
        <5>1. new \in Desktop /\ new.tunnel = 0 /\ new.gateway = 0 /\ new.libp2p = 0
          BY <4>1 DEF Desktop, NoDesktop
        <5>2. desktop' = [desktop EXCEPT ![d] = new]
          BY <4>3 DEF RemoveByOwner
        <5> QED BY <5>1, <5>2
      <4> QED BY <2>2, <4>2, <4>3
    <3>2. pairing' = pairing
      BY <2>2 DEF Disconnect, RemoveByOwner
    <3> QED BY <1>1, <3>1, <3>2 DEF DesktopTypeOK, SaysLess
  <2> QED BY <2>1, <2>2
<1> QED BY <1>1, <1>2, AsideDesktopStep

-----------------------------------------------------------------------------
(* A provision.                                                            *)

\* The request c is a provision that has v of its tunnel.
LEMMA ProvisionTyped ==
    ASSUME DesktopTypeOK, NEW c \in setting.requests, request[c] \in Provision,
           NEW v \in {NoRequest} \cup PairingRequest \cup Provision \cup Revocation,
           request' = [request EXCEPT ![c] = v],
           UNCHANGED <<setting, pairing, desktop, runs>>,
           cloud' = [tunnels |-> cloud'.tunnels, records |-> cloud'.records],
           cloud'.tunnels \subseteq [id : Nat, of : Devices, rules : Nat \X Nat]
    PROVE  DesktopTypeOK'
BY DEF DesktopTypeOK

LEMMA EffectIsSafe ==
    ASSUME TunnelInv, NEW c \in setting.requests, request[c] \in Provision,
           request[c].step # "save", Possible(c), cloud' = Effect(c),
           contested' = contested
    PROVE  /\ Cautious(c)
           /\ \A t \in cloud'.tunnels :
                 \/ \E u \in cloud.tunnels : t.id = u.id /\ t.of = u.of
                 \/ \E x \in Stakes : t.id = x.on /\ t.of = x.of
           /\ cloud'.tunnels \subseteq [id : Nat, of : Devices, rules : Nat \X Nat]
           /\ cloud' = [tunnels |-> cloud'.tunnels, records |-> cloud'.records]
<1> DEFINE r == request[c]
<1>1. /\ DesktopTypeOK /\ StakesFit /\ ProvisionHolds(c)
      /\ r.run \in Nat /\ r.of \in Devices /\ r.tunnel \in Nat
      /\ r.gateway \in Nat /\ r.libp2p \in Nat /\ r.step \in RemoteSteps
  BY DEF TunnelInv, Provision
<1>2. Working(c) /\ Target(c) # 0
  BY <1>1, RequestShapes DEF ProvisionHolds
<1>3. Stake(r.of, Target(c), r.gateway, r.libp2p) \in Stakes
  BY <1>2, RequestStaked
<1>4. CASE r.step = "create"
  <2>1. /\ cloud' = [cloud EXCEPT !.tunnels = cloud.tunnels
                                     \cup {Tunnel(r.run, r.of, 0, 0)}]
        /\ Target(c) = r.run
    BY <1>4 DEF Effect, Target
  <2>2. /\ cloud'.tunnels = cloud.tunnels \cup {Tunnel(r.run, r.of, 0, 0)}
        /\ cloud'.records = cloud.records
        /\ cloud' = [tunnels |-> cloud'.tunnels, records |-> cloud'.records]
    BY <1>1, <2>1 DEF DesktopTypeOK
  <2>3. Tunnel(r.run, r.of, 0, 0) \in [id : Nat, of : Devices, rules : Nat \X Nat]
    BY <1>1 DEF Tunnel
  <2>4. Cautious(c)
    BY <1>2, <2>1, <2>2 DEF Cautious, IsThere, IsNamed, Tunnel
  <2> QED BY <1>1, <1>3, <2>1, <2>2, <2>3, <2>4 DEF DesktopTypeOK, Tunnel, Stake
<1>5. CASE r.step = "ingress"
  <2> DEFINE set(t) == [t EXCEPT !.rules = <<r.gateway, r.libp2p>>]
  <2>1. /\ cloud' = [cloud EXCEPT !.tunnels =
               {IF t.id = r.tunnel THEN set(t) ELSE t : t \in cloud.tunnels}]
        /\ Target(c) = r.tunnel
    BY <1>5 DEF Effect, Target
  <2>2. /\ cloud'.tunnels =
              {IF t.id = r.tunnel THEN set(t) ELSE t : t \in cloud.tunnels}
        /\ cloud'.records = cloud.records
        /\ cloud' = [tunnels |-> cloud'.tunnels, records |-> cloud'.records]
    BY <1>1, <2>1 DEF DesktopTypeOK
  <2>3. \A t \in cloud.tunnels :
          /\ set(t) \in [id : Nat, of : Devices, rules : Nat \X Nat]
          /\ set(t).id = t.id /\ set(t).of = t.of
    BY <1>1 DEF DesktopTypeOK
  <2> HIDE DEF set
  <2>4. \A t \in cloud'.tunnels :
          \/ t \in cloud.tunnels
          \/ \E u \in cloud.tunnels : t = set(u) /\ u.id = r.tunnel
    BY <2>2
  <2>5. \A u \in cloud.tunnels : \E t \in cloud'.tunnels : t.id = u.id
    BY <2>2, <2>3
  <2>6. \A u \in cloud.tunnels : u.id # r.tunnel => u \in cloud'.tunnels
    BY <2>2
  <2>7. Cautious(c)
    BY <1>2, <2>1, <2>2, <2>3, <2>4, <2>5, <2>6 DEF Cautious, IsThere, IsNamed
  <2>8. cloud'.tunnels \subseteq [id : Nat, of : Devices, rules : Nat \X Nat]
    BY <1>1, <2>3, <2>4 DEF DesktopTypeOK
  <2> QED BY <2>2, <2>3, <2>4, <2>7, <2>8
<1>6. CASE r.step \in {"gateway", "libp2p"}
  <2>1. \/ cloud' = cloud
        \/ \E x : cloud' = [cloud EXCEPT !.records = cloud.records \cup {x}]
    BY <1>6 DEF Effect
  <2>2. /\ cloud'.tunnels = cloud.tunnels /\ cloud.records \subseteq cloud'.records
        /\ cloud' = [tunnels |-> cloud'.tunnels, records |-> cloud'.records]
    BY <1>1, <2>1 DEF DesktopTypeOK
  <2>3. Cautious(c)
    BY <2>2 DEF Cautious, IsThere, IsNamed
  <2> QED BY <1>1, <2>2, <2>3 DEF DesktopTypeOK
<1> QED BY <1>1, <1>4, <1>5, <1>6 DEF RemoteSteps

LEMMA CallSteps ==
    ASSUME TunnelInv, NEW c \in setting.requests,
           CallCloudflare(c) \/ FailProvision(c) \/ LoseAnswer(c)
    PROVE  TunnelInv'
<1> DEFINE r == request[c]
<1>1. /\ DesktopTypeOK /\ UNCHANGED <<setting, pairing, desktop, contested, runs>>
      /\ r.step \in RemoteSteps /\ r.op = "provision"
  BY DEF TunnelInv, CallCloudflare, FailProvision, LoseAnswer
<1>2. r \in Provision /\ Working(c) /\ r.step # "save"
  BY <1>1, RequestShapes DEF Working, RemoteSteps
<1>3. CASE FailProvision(c)
  <2>1. request' = [request EXCEPT ![c] = NoRequest] /\ cloud' = cloud
    BY <1>3 DEF FailProvision, Leave
  <2>2. DesktopTypeOK' /\ \A d \in Devices : SaysLess(d)
    BY <1>1, <2>1 DEF DesktopTypeOK, SaysLess
  <2>3. Cautious(c)
    BY <1>1, <2>1, IdleCloudIsCautious
  <2> QED BY <1>1, <2>1, <2>2, <2>3, LeaveStep
<1>4. CASE LoseAnswer(c)
  <2>1. /\ request' = [request EXCEPT ![c] = NoRequest]
        /\ cloud' = Effect(c) /\ Possible(c)
    BY <1>4 DEF LoseAnswer, Leave
  <2>2. /\ Cautious(c)
        /\ \A t \in cloud'.tunnels :
              \/ \E u \in cloud.tunnels : t.id = u.id /\ t.of = u.of
              \/ \E x \in Stakes : t.id = x.on /\ t.of = x.of
        /\ cloud'.tunnels \subseteq [id : Nat, of : Devices, rules : Nat \X Nat]
        /\ cloud' = [tunnels |-> cloud'.tunnels, records |-> cloud'.records]
    BY <1>1, <1>2, <2>1, EffectIsSafe
  <2>3. DesktopTypeOK' /\ \A d \in Devices : SaysLess(d)
    BY <1>1, <1>2, <2>1, <2>2, ProvisionTyped DEF SaysLess
  <2> QED BY <1>1, <2>1, <2>2, <2>3, LeaveStep
<1>5. CASE CallCloudflare(c)
  <2> DEFINE n == IF r.step = "create" THEN r.run ELSE r.tunnel
             v == [r EXCEPT !.step = After(r.step), !.tunnel = n]
  <2>1. cloud' = Effect(c) /\ Possible(c)
    BY <1>5 DEF CallCloudflare
  <2>2. request' = [request EXCEPT ![c] = v]
    BY <1>1, <1>2, <1>5 DEF CallCloudflare, DesktopTypeOK, Provision
  <2>3. /\ Cautious(c)
        /\ \A t \in cloud'.tunnels :
              \/ \E u \in cloud.tunnels : t.id = u.id /\ t.of = u.of
              \/ \E x \in Stakes : t.id = x.on /\ t.of = x.of
        /\ cloud'.tunnels \subseteq [id : Nat, of : Devices, rules : Nat \X Nat]
        /\ cloud' = [tunnels |-> cloud'.tunnels, records |-> cloud'.records]
    BY <1>1, <1>2, <2>1, EffectIsSafe
  <2>4. After(r.step) \in {"ingress", "gateway", "libp2p", "save"}
    BY <1>1 DEF After, RemoteSteps
  <2>5. /\ v \in Provision /\ v.step = After(r.step) /\ v.tunnel = n
        /\ v.of = r.of /\ v.gateway = r.gateway /\ v.libp2p = r.libp2p
        /\ v.run = r.run /\ v.op = "provision"
    BY <1>2, <2>4 DEF Provision, RemoteSteps
  <2>6. n = Target(c) /\ n \in Nat
    BY <1>2 DEF Target, Provision
  <2> HIDE DEF v, n
  <2>7. /\ request'[c] = v
        /\ \A b \in setting.requests \ {c} : request'[b] = request[b]
    BY <1>1, <2>2 DEF DesktopTypeOK
  <2>8. Working(c)' /\ Target(c)' = Target(c)
    BY <2>4, <2>5, <2>6, <2>7 DEF Working, Target
  <2>9. DesktopTypeOK'
    BY <1>1, <1>2, <2>2, <2>3, <2>5, ProvisionTyped
  <2>10. RevocationHolds(c)'
    BY <2>5, <2>7 DEF RevocationHolds, Revocation
  <2>11. ProvisionHolds(c)'
    <3>1. /\ ProvisionHolds(c) /\ StakesFit /\ Target(c) # 0
          /\ r.run # 0 /\ r.libp2p = r.run
      BY <1>2 DEF TunnelInv, ProvisionHolds
    <3>2. SUFFICES ASSUME n \notin contested'
                   PROVE  /\ (\E t \in cloud'.tunnels : t.id = n) /\ Alone(c)'
                          /\ After(r.step) # "ingress" =>
                                Tunnel(n, r.of, r.gateway, r.libp2p) \in cloud'.tunnels
                          /\ r.gateway # r.run \/ After(r.step) \in {"libp2p", "save"} =>
                                Record("gateway", r.gateway, n) \in cloud'.records
                          /\ After(r.step) = "save" => Record("libp2p", r.libp2p, n) \in cloud'.records
      BY <2>4, <2>5, <2>6, <2>7, <2>8, <3>1 DEF ProvisionHolds, IsThere, IsNamed
    <3>3. n \notin contested
      BY <1>1, <3>2
    <3>4. Stake(r.of, n, r.gateway, r.libp2p) \in Stakes
      BY <1>2, <2>6, <3>1, RequestStaked
    <3>5. Alone(c)
      BY <1>2, <2>6, <3>1, <3>3 DEF ProvisionHolds, Target
    <3>6. Alone(c)'
      BY <1>1, <2>7, <2>8, <3>5 DEF Alone, Working, Target
    <3>7. /\ IsThere(n) => (\E t \in cloud'.tunnels : t.id = n)
          /\ IsNamed("gateway", r.gateway, n) => Record("gateway", r.gateway, n) \in cloud'.records
          /\ IsNamed("libp2p", r.libp2p, n) => Record("libp2p", r.libp2p, n) \in cloud'.records
      BY <2>3, <3>1, <3>2, <3>4 DEF Cautious, Stake, IsThere, IsNamed
    <3>8. CASE r.step = "create"
      <4>1. cloud' = [cloud EXCEPT !.tunnels = cloud.tunnels
                                       \cup {Tunnel(r.run, r.of, 0, 0)}]
        BY <2>1, <3>8 DEF Effect
      <4>2. Tunnel(r.run, r.of, 0, 0) \in cloud'.tunnels
        BY <1>1, <4>1 DEF DesktopTypeOK
      <4>3. (\E t \in cloud'.tunnels : t.id = n) /\ r.gateway = r.run /\ After(r.step) = "ingress"
        BY <3>1, <3>8, <4>2, <1>2 DEF Tunnel, n, After, ProvisionHolds
      <4> QED BY <3>6, <4>3
    <3>9. CASE r.step = "ingress"
      <4>1. IsThere(n)
        BY <2>1, <3>9 DEF Possible, n
      <4>2. cloud' = [cloud EXCEPT !.tunnels = {IF t.id = n
              THEN [t EXCEPT !.rules = <<r.gateway, r.libp2p>>]
              ELSE t : t \in cloud.tunnels}]
        BY <2>1, <3>9 DEF Effect, n
      <4>3. PICK t \in cloud.tunnels : t.id = n
        BY <4>1 DEF IsThere
      <4>4. t.of = r.of /\ t \in [id : Nat, of : Devices, rules : Nat \X Nat]
        BY <1>1, <3>1, <3>4, <4>3 DEF StakesFit, Stake, DesktopTypeOK
      <4>5. [t EXCEPT !.rules = <<r.gateway, r.libp2p>>]
              = Tunnel(n, r.of, r.gateway, r.libp2p)
        BY <4>3, <4>4 DEF Tunnel
      <4>6. Tunnel(n, r.of, r.gateway, r.libp2p) \in cloud'.tunnels
        BY <1>1, <4>2, <4>3, <4>5 DEF DesktopTypeOK
      <4>7. r.gateway # r.run => IsNamed("gateway", r.gateway, n)
        BY <1>2, <3>1, <3>3, <3>9 DEF ProvisionHolds, n
      <4> QED BY <3>6, <3>7, <3>9, <4>1, <4>6, <4>7 DEF After
    <3>10. CASE r.step \in {"gateway", "libp2p"}
      <4>1. /\ IsThere(n) /\ Tunnel(n, r.of, r.gateway, r.libp2p) \in cloud.tunnels
            /\ r.gateway # r.run \/ r.step = "libp2p" =>
                  IsNamed("gateway", r.gateway, n)
        BY <1>2, <3>1, <3>3, <3>10 DEF ProvisionHolds, n
      <4>2. cloud'.tunnels = cloud.tunnels
        BY <1>1, <2>1, <3>10 DEF Effect, DesktopTypeOK
      <4>3. r.step = "gateway" /\ r.gateway = r.run => Record("gateway", r.gateway, n) \in cloud'.records
        BY <1>1, <2>1, <3>10 DEF Effect, DesktopTypeOK, IsNamed, n
      <4>4. r.step = "libp2p" => Record("libp2p", r.libp2p, n) \in cloud'.records
        BY <1>1, <2>1, <3>1, <3>10 DEF Effect, DesktopTypeOK, IsNamed, n
      <4> QED BY <3>6, <3>7, <3>10, <4>1, <4>2, <4>3, <4>4 DEF After
    <3> QED BY <1>1, <3>8, <3>9, <3>10 DEF RemoteSteps
  <2> QED BY <1>1, <1>2, <2>3, <2>5, <2>7, <2>8, <2>9, <2>10, <2>11, GoOnStep
<1> QED BY <1>3, <1>4, <1>5

LEMMA SaveProvisionStep ==
    ASSUME TunnelInv, NEW c \in setting.requests, SaveProvision(c)
    PROVE  TunnelInv'
<1> DEFINE r == request[c]
           old == desktop[r.of]
           new == [old EXCEPT !.on = TRUE, !.tunnel = r.tunnel,
                              !.gateway = r.gateway, !.libp2p = r.libp2p]
<1>1. /\ DesktopTypeOK /\ StakesFit /\ ProvisionHolds(c)
      /\ UNCHANGED <<setting, pairing, cloud, contested, runs>>
      /\ request' = [request EXCEPT ![c] = NoRequest]
      /\ r.step = "save" /\ r.op = "provision"
  BY DEF TunnelInv, SaveProvision, At, Leave
<1>2. r \in Provision /\ Working(c) /\ Target(c) = r.tunnel
  BY <1>1, RequestShapes DEF Working, Target
<1>3. Cautious(c)
  BY <1>1, IdleCloudIsCautious
<1>4. CASE ~Exists(r.of)
  <2>1. desktop' = desktop
    BY <1>4 DEF SaveProvision
  <2>2. DesktopTypeOK' /\ \A d \in Devices : SaysLess(d)
    BY <1>1, <2>1 DEF DesktopTypeOK, SaysLess
  <2> QED BY <1>1, <1>3, <2>2, LeaveStep
<1>5. CASE Exists(r.of)
  <2>1. desktop' = [desktop EXCEPT ![r.of] = new]
    BY <1>5 DEF SaveProvision
  <2>2. /\ new \in Desktop /\ new.on = TRUE /\ new.tunnel = r.tunnel
        /\ new.gateway = r.gateway /\ new.libp2p = r.libp2p
    <3>1. /\ old \in Desktop /\ r.tunnel \in Nat /\ r.gateway \in Nat
          /\ r.libp2p \in Nat
      BY <1>1, <1>2 DEF Provision, DesktopTypeOK
    <3> HIDE DEF old, r
    <3> QED BY <3>1 DEF Desktop, new
  <2>3. r.of \in Devices /\ Target(c) # 0
    BY <1>1, <1>2 DEF Provision, ProvisionHolds
  <2> HIDE DEF new
  <2>4. /\ desktop'[r.of] = new
        /\ \A d \in Devices \ {r.of} : desktop'[d] = desktop[d]
    BY <1>1, <2>1, <2>3 DEF DesktopTypeOK
  <2>5. DesktopTypeOK'
    BY <1>1, <2>1, <2>2 DEF DesktopTypeOK
  <2>6. /\ request'[c] = NoRequest
        /\ \A b \in setting.requests \ {c} : request'[b] = request[b]
    BY <1>1 DEF DesktopTypeOK
  <2>7. ~Working(c)' /\ request'[c] \notin Provision \cup Revocation
    BY <2>6 DEF Working, NoRequest, Provision, Revocation
  <2>8. Stakes' \subseteq Stakes
    <3>1. \A d \in Devices : desktop'[d].tunnel # 0 =>
            Stake(d, desktop'[d].tunnel, desktop'[d].gateway, desktop'[d].libp2p)
               \in Stakes
      <4> SUFFICES ASSUME NEW d \in Devices, desktop'[d].tunnel # 0
                   PROVE  Stake(d, desktop'[d].tunnel, desktop'[d].gateway,
                                desktop'[d].libp2p) \in Stakes
        OBVIOUS
      <4>1. CASE d = r.of
        BY <1>2, <2>2, <2>3, <2>4, <4>1, RequestStaked
      <4>2. CASE d # r.of
        BY <2>4, <4>2, RowStaked
      <4> QED BY <4>1, <4>2
    <3>2. \A b \in setting.requests : Working(b)' /\ Target(b)' # 0 =>
            Stake(request'[b].of, Target(b)', request'[b].gateway,
                  request'[b].libp2p) \in Stakes
      <4> SUFFICES ASSUME NEW b \in setting.requests, Working(b)', Target(b)' # 0
                   PROVE  Stake(request'[b].of, Target(b)', request'[b].gateway,
                                request'[b].libp2p) \in Stakes
        OBVIOUS
      <4>1. request'[b] = request[b]
        BY <2>6, <2>7
      <4> QED BY <4>1, RequestStaked DEF Working, Target
    <3> QED BY <1>1, <3>1, <3>2, StakesFrom
  <2>9. StakesFit'
    BY <1>1, <2>8, StakesKept
  <2>10. \A d \in Devices : d = r.of => RowHolds(d)'
    BY <1>1, <1>2, <2>2, <2>3, <2>4
       DEF RowHolds, ProvisionHolds, IsThere, IsNamed, Target
  <2>11. \A d \in Devices :
           \/ d # r.of /\ desktop'[d] = desktop[d]
           \/ d = r.of /\ desktop'[d].tunnel = Target(c) /\ RowHolds(d)'
    BY <1>2, <2>2, <2>4, <2>10
  <2> QED BY <1>1, <1>2, <1>3, <2>5, <2>6, <2>7, <2>9, <2>11, ActorStep
          DEF ProvisionHolds, RevocationHolds
<1> QED BY <1>4, <1>5

\* A request begins: what it stakes, on tunnel n, fits what others stake.
LEMMA BeginStep ==
    ASSUME TunnelInv, NEW c \in setting.requests, request[c] = NoRequest,
           NEW v \in Provision \cup Revocation, request' = [request EXCEPT ![c] = v],
           UNCHANGED <<setting, pairing, desktop, cloud>>,
           contested \subseteq contested', runs' \in Nat, runs <= runs',
           NEW n, n = IF v.step = "create" THEN v.run ELSE v.tunnel,
           n # 0 => /\ n \in 1..runs' /\ v.gateway = n /\ v.libp2p \in 0..runs'
                    /\ \A t \in cloud.tunnels : t.id = n => t.of = v.of
                    /\ \A y \in Stakes :
                          /\ n = y.on => v.of = y.of
                          /\ v.libp2p = y.libp2p /\ v.libp2p # 0 => n = y.on,
           \/ n = 0
           \/ n \in contested' /\ \E d \in Devices : n = desktop[d].tunnel
           \/ \A b \in setting.requests : Working(b) => Target(b) # n,
           ProvisionHolds(c)', RevocationHolds(c)'
    PROVE  TunnelInv'
<1> DEFINE x == Stake(v.of, n, v.gateway, v.libp2p)
<1>1. DesktopTypeOK /\ StakesFit
  BY DEF TunnelInv
<1>2. /\ request'[c] = v
      /\ \A b \in setting.requests \ {c} : request'[b] = request[b]
  BY <1>1 DEF DesktopTypeOK
<1>3. DesktopTypeOK'
  BY <1>1 DEF DesktopTypeOK
<1>4. Target(c)' = n
  BY <1>2 DEF Target
<1>5. Stakes' \subseteq Stakes \cup {y \in {x} : n # 0}
  <2>1. \A d \in Devices : desktop'[d].tunnel # 0 =>
          Stake(d, desktop'[d].tunnel, desktop'[d].gateway, desktop'[d].libp2p)
             \in Stakes
    BY RowStaked
  <2>2. \A b \in setting.requests : Working(b)' /\ Target(b)' # 0 =>
          Stake(request'[b].of, Target(b)', request'[b].gateway,
                request'[b].libp2p) \in Stakes \cup {y \in {x} : n # 0}
    <3> SUFFICES ASSUME NEW b \in setting.requests, Working(b)', Target(b)' # 0
                 PROVE  Stake(request'[b].of, Target(b)', request'[b].gateway,
                              request'[b].libp2p) \in Stakes \cup {y \in {x} : n # 0}
      OBVIOUS
    <3>1. CASE b = c
      BY <1>2, <1>4, <3>1
    <3>2. CASE b # c
      <4>1. request'[b] = request[b]
        BY <1>2, <3>2
      <4> QED BY <4>1, RequestStaked DEF Working, Target
    <3> QED BY <3>1, <3>2
  <2> QED BY <2>1, <2>2, StakesFrom
<1>6. n # 0 => /\ x.on \in 1..runs' /\ x.gateway = x.on
                /\ x.libp2p \in 0..runs'
                /\ \A t \in cloud.tunnels : t.id = x.on => t.of = x.of
                /\ \A y \in Stakes :
                      /\ x.on = y.on => x.of = y.of
                      /\ x.libp2p = y.libp2p /\ x.libp2p # 0 => x.on = y.on
  BY DEF Stake
<1>9. ASSUME n # 0, NEW y \in Stakes
      PROVE  /\ y.on = x.on => y.of = x.of
             /\ y.libp2p = x.libp2p /\ y.libp2p # 0 => y.on = x.on
  BY <1>9 DEF Stake
<1> HIDE DEF x
<1>7. StakesFit'
  <2>1. runs \in Nat
    BY <1>1 DEF DesktopTypeOK
  <2>2. \A y \in Stakes' : y \in Stakes \/ (y = x /\ n # 0)
    BY <1>5
  <2>3. cloud' = cloud
    OBVIOUS
  <2>4. \A y \in Stakes' : /\ y.on \in 1..runs' /\ y.gateway = y.on
                           /\ y.libp2p \in 0..runs'
                           /\ \A t \in cloud'.tunnels : t.id = y.on => t.of = y.of
    BY <1>1, <1>6, <2>1, <2>2, <2>3 DEF StakesFit
  <2>5. \A y, z \in Stakes' : /\ y.on = z.on => y.of = z.of
                              /\ y.libp2p = z.libp2p /\ y.libp2p # 0 => y.on = z.on
    <3>1. \A y, z \in Stakes :
            /\ y.on = z.on => y.of = z.of
            /\ y.libp2p = z.libp2p /\ y.libp2p # 0 => y.on = z.on
      BY <1>1 DEF StakesFit
    <3>2. ASSUME n # 0, NEW y \in Stakes
          PROVE  /\ x.on = y.on => x.of = y.of
                 /\ x.libp2p = y.libp2p /\ x.libp2p # 0 => x.on = y.on
      BY <1>9, <3>2
    <3> SUFFICES ASSUME NEW y \in Stakes', NEW z \in Stakes'
                 PROVE  /\ y.on = z.on => y.of = z.of
                        /\ y.libp2p = z.libp2p /\ y.libp2p # 0 => y.on = z.on
      OBVIOUS
    <3>3. CASE y \in Stakes /\ z \in Stakes
      BY <3>1, <3>3
    <3>4. CASE y \in Stakes /\ z = x /\ n # 0
      BY <1>9, <3>4
    <3>5. CASE y = x /\ n # 0 /\ z \in Stakes
      BY <3>2, <3>5
    <3>6. CASE y = x /\ z = x
      BY <3>6
    <3> QED BY <2>2, <3>3, <3>4, <3>5, <3>6
  <2> QED BY <1>1, <2>1, <2>3, <2>4, <2>5 DEF StakesFit
<1>8. Cautious(c)
  BY IdleCloudIsCautious
<1> QED BY <1>2, <1>3, <1>4, <1>6, <1>7, <1>8, ActorStep

LEMMA BeginProvisionStep ==
    ASSUME TunnelInv, NEW c \in setting.requests, NEW d \in Devices,
           BeginProvision(c, d)
    PROVE  TunnelInv'
<1> DEFINE rw == desktop[d]
           first == [step |-> IF rw.tunnel = 0 THEN "create" ELSE "ingress",
                 op |-> "provision", of |-> d, run |-> runs + 1,
                 tunnel |-> rw.tunnel, gateway |-> NamedAnew(rw.gateway, runs + 1),
                 libp2p |-> NamedAnew(rw.libp2p, runs + 1)]
<1>1. /\ DesktopTypeOK /\ StakesFit /\ RowHolds(d) /\ runs \in Nat /\ rw \in Desktop
      /\ request[c] = NoRequest /\ ~Complete(rw)
      /\ UNCHANGED <<setting, pairing, desktop, cloud>> /\ runs' = runs + 1
      /\ contested \subseteq contested'
  BY DEF TunnelInv, DesktopTypeOK, BeginProvision
<1>2. request' = [request EXCEPT ![c] = first]
  BY <1>1 DEF BeginProvision
<1>3. /\ rw.tunnel = 0 => rw.gateway = 0 /\ rw.libp2p = 0
      /\ rw.tunnel # 0 => rw.libp2p = 0
  BY <1>1 DEF RowHolds, Complete
<1>4. rw.tunnel # 0 => /\ rw.tunnel \in 1..runs /\ rw.gateway = rw.tunnel
                       /\ Stake(d, rw.tunnel, rw.gateway, rw.libp2p) \in Stakes
  BY <1>1, RowStaked DEF StakesFit, Stake
<1>5. PICK v \in Provision :
      /\ v = first /\ v.step = (IF rw.tunnel = 0 THEN "create" ELSE "ingress")
      /\ v.of = d /\ v.run = runs + 1 /\ v.tunnel = rw.tunnel
      /\ v.libp2p = runs + 1 /\ v.op = "provision"
      /\ v.gateway = IF rw.tunnel = 0 THEN runs + 1 ELSE rw.tunnel
  <2>1. NamedAnew(rw.libp2p, runs + 1) = runs + 1
    BY <1>3 DEF NamedAnew
  <2>2. NamedAnew(rw.gateway, runs + 1) = IF rw.tunnel = 0 THEN runs + 1 ELSE rw.tunnel
    BY <1>3, <1>4 DEF NamedAnew
  <2>3. runs + 1 \in Nat /\ rw.tunnel \in Nat
    BY <1>1 DEF Desktop
  <2>4. first \in Provision
    BY <1>1, <2>1, <2>2, <2>3, <1>4 DEF Provision, RemoteSteps
  <2>5. /\ first.step = (IF rw.tunnel = 0 THEN "create" ELSE "ingress")
        /\ first.of = d /\ first.run = runs + 1 /\ first.tunnel = rw.tunnel
        /\ first.libp2p = runs + 1 /\ first.op = "provision"
        /\ first.gateway = IF rw.tunnel = 0 THEN runs + 1 ELSE rw.tunnel
    BY <2>1, <2>2
  <2> HIDE DEF first
  <2> QED BY <2>4, <2>5
<1> HIDE DEF first
<1>6. /\ request'[c] = v
      /\ \A b \in setting.requests \ {c} : request'[b] = request[b]
  BY <1>1, <1>2, <1>5 DEF DesktopTypeOK
<1>7. RevocationHolds(c)'
  BY <1>5, <1>6 DEF RevocationHolds, Revocation
<1>8. \A b \in setting.requests \ {c} :
        (Working(b)' <=> Working(b)) /\ Target(b)' = Target(b)
  BY <1>6 DEF Working, Target
<1>9. \A x \in Stakes : /\ x.on \in 1..runs /\ x.libp2p \in 0..runs
  BY <1>1 DEF StakesFit
<1>10. CASE rw.tunnel = 0
  <2>1. \A b \in setting.requests : Working(b) => Target(b) # runs + 1
    <3> SUFFICES ASSUME NEW b \in setting.requests, Working(b), Target(b) = runs + 1
                 PROVE  FALSE
      OBVIOUS
    <3>1. Target(b) # 0
      BY <1>1
    <3>2. Stake(request[b].of, Target(b), request[b].gateway, request[b].libp2p)
             \in Stakes
      BY <3>1, RequestStaked
    <3> QED BY <1>1, <1>9, <3>2 DEF Stake
  <2>2. \A e \in Devices : desktop[e].tunnel # runs + 1
    <3> SUFFICES ASSUME NEW e \in Devices, desktop[e].tunnel = runs + 1
                 PROVE  FALSE
      OBVIOUS
    <3>1. Stake(e, desktop[e].tunnel, desktop[e].gateway, desktop[e].libp2p) \in Stakes
      BY <1>1, RowStaked
    <3> QED BY <1>1, <1>9, <3>1 DEF Stake
  <2>3. \A t \in cloud.tunnels : t.id # runs + 1
    BY <1>1 DEF StakesFit
  <2>4. Target(c)' = runs + 1 /\ Alone(c)'
    <3>1. Target(c)' = runs + 1
      BY <1>5, <1>6, <1>10 DEF Target
    <3> QED BY <1>1, <1>8, <2>1, <2>2, <3>1 DEF Alone
  <2>5. ProvisionHolds(c)'
    BY <1>1, <1>5, <1>6, <1>10, <2>2, <2>3, <2>4 DEF ProvisionHolds, IsThere
  <2>6. PICK n : n = runs + 1
    OBVIOUS
  <2>7. n = IF v.step = "create" THEN v.run ELSE v.tunnel
    BY <1>5, <1>10, <2>6
  <2>8. /\ n \in 1..runs' /\ v.gateway = n /\ v.libp2p \in 0..runs'
        /\ \A t \in cloud.tunnels : t.id # n
        /\ \A y \in Stakes : n # y.on /\ v.libp2p # y.libp2p
    BY <1>1, <1>5, <1>9, <1>10, <2>3, <2>6
  <2>9. \A b \in setting.requests : Working(b) => Target(b) # n
    BY <2>1, <2>6
  <2>10. runs' \in Nat /\ runs <= runs' /\ request' = [request EXCEPT ![c] = v]
    BY <1>1, <1>2, <1>5
  <2> QED BY <1>1, <1>7, <2>5, <2>7, <2>8, <2>9, <2>10, BeginStep
<1>11. CASE rw.tunnel # 0
  <2>1. Stake(d, rw.tunnel, rw.gateway, rw.libp2p) \in Stakes /\ rw.tunnel \in 1..runs
    BY <1>4, <1>11
  <2>2. \A t \in cloud.tunnels : t.id = rw.tunnel => t.of = d
    BY <1>1, <2>1 DEF StakesFit, Stake
  <2>3. \A y \in Stakes : y.on = rw.tunnel => y.of = d
    BY <1>1, <2>1 DEF StakesFit, Stake
  <2>4. Target(c)' = rw.tunnel
    BY <1>5, <1>6, <1>11 DEF Target
  <2>5. rw.tunnel \notin contested' =>
          \A b \in setting.requests : Working(b) => Target(b) # rw.tunnel
    <3> SUFFICES ASSUME rw.tunnel \notin contested', NEW b \in setting.requests,
                        Working(b), Target(b) = rw.tunnel
                 PROVE  FALSE
      OBVIOUS
    <3>1. ~WorkedOn(rw.tunnel)
      BY <1>11 DEF BeginProvision
    <3>2. CASE request[b].step = "create"
      <4>1. \A e \in Devices : desktop[e].tunnel # request[b].run
        BY <1>1, <3>2, RequestShapes
           DEF TunnelInv, ProvisionHolds, Provision, Revocation
      <4> QED BY <3>2, <4>1 DEF Target
    <3>3. CASE request[b].step # "create"
      <4>1. /\ request[b].tunnel = rw.tunnel
            /\ request[b].op \in {"provision", "revoke"}
            /\ request[b].step # "idle"
        BY <1>1, <3>3, RequestShapes DEF Target, Working, Provision, Revocation
      <4> QED BY <3>1, <4>1 DEF WorkedOn
    <3> QED BY <3>2, <3>3
  <2>6. \A e \in Devices : desktop[e].tunnel = rw.tunnel => desktop[e].libp2p = 0
    <3> SUFFICES ASSUME NEW e \in Devices, desktop[e].tunnel = rw.tunnel
                 PROVE  desktop[e].libp2p = 0
      OBVIOUS
    <3>1. Stake(e, desktop[e].tunnel, desktop[e].gateway, desktop[e].libp2p) \in Stakes
      BY <1>11, RowStaked
    <3>2. e = d
      BY <2>3, <3>1 DEF Stake
    <3> QED BY <1>3, <1>11, <3>2
  <2>7. ProvisionHolds(c)'
    <3>1. rw.tunnel \notin contested' => Alone(c)'
      BY <1>1, <1>8, <2>4, <2>5, <2>6 DEF Alone
    <3>2. rw.tunnel \notin contested' =>
            IsThere(rw.tunnel) /\ IsNamed("gateway", rw.gateway, rw.tunnel)
      BY <1>1, <1>11 DEF RowHolds
    <3>3. rw.gateway = rw.tunnel
      BY <1>4, <1>11
    <3> QED BY <1>1, <1>5, <1>6, <1>11, <2>4, <3>1, <3>2, <3>3
            DEF ProvisionHolds, IsThere, IsNamed
  <2>8. PICK n : n = rw.tunnel
    OBVIOUS
  <2>9. n = IF v.step = "create" THEN v.run ELSE v.tunnel
    BY <1>5, <1>11, <2>8
  <2>10. /\ n \in 1..runs' /\ v.gateway = n /\ v.libp2p \in 0..runs'
         /\ \A t \in cloud.tunnels : t.id = n => t.of = v.of
         /\ \A y \in Stakes : /\ n = y.on => v.of = y.of
                              /\ v.libp2p = y.libp2p /\ v.libp2p # 0 => n = y.on
    BY <1>1, <1>5, <1>9, <1>11, <2>1, <2>2, <2>3, <2>8
  <2>11. \/ n \in contested' /\ \E dd \in Devices : n = desktop[dd].tunnel
         \/ \A b \in setting.requests : Working(b) => Target(b) # n
    BY <2>5, <2>8
  <2>12. runs' \in Nat /\ runs <= runs' /\ request' = [request EXCEPT ![c] = v]
    BY <1>1, <1>2, <1>5
  <2> QED BY <1>1, <1>7, <2>7, <2>9, <2>10, <2>11, <2>12, BeginStep
<1> QED BY <1>10, <1>11

-----------------------------------------------------------------------------
(* A revocation.                                                           *)

LEMMA BeginRevokeStep ==
    ASSUME TunnelInv, NEW c \in setting.requests, NEW d \in Devices, BeginRevoke(c, d)
    PROVE  TunnelInv'
<1> DEFINE rw == desktop[d]
           first == [step |-> "gateway", op |-> "revoke", of |-> d,
                     tunnel |-> rw.tunnel, gateway |-> rw.gateway,
                     libp2p |-> rw.libp2p]
<1>1. /\ DesktopTypeOK /\ StakesFit /\ RowHolds(d) /\ runs \in Nat /\ rw \in Desktop
      /\ request[c] = NoRequest /\ request' = [request EXCEPT ![c] = first]
      /\ UNCHANGED <<setting, pairing, desktop, cloud, runs>>
      /\ contested \subseteq contested'
      /\ rw.tunnel # 0 => rw.tunnel \in contested'
  BY DEF TunnelInv, DesktopTypeOK, BeginRevoke
<1>2. PICK v \in Revocation :
      /\ v = first /\ v.step = "gateway" /\ v.of = d /\ v.tunnel = rw.tunnel
      /\ v.gateway = rw.gateway /\ v.libp2p = rw.libp2p
  <2>1. first \in Revocation
    <3>1. rw.tunnel \in Nat /\ rw.gateway \in Nat /\ rw.libp2p \in Nat
      BY <1>1 DEF Desktop
    <3> HIDE DEF rw
    <3> QED BY <3>1 DEF Revocation
  <2> QED BY <2>1
<1> HIDE DEF first
<1>3. request' = [request EXCEPT ![c] = v] /\ request'[c] = v
  BY <1>1, <1>2 DEF DesktopTypeOK
<1>4. PICK n : n = rw.tunnel
  OBVIOUS
<1>5. n = IF v.step = "create" THEN v.run ELSE v.tunnel
  BY <1>2, <1>4
<1>6. RevocationHolds(c)' /\ ProvisionHolds(c)'
  <2>1. v \notin Provision
    BY DEF Provision, Revocation
  <2>2. rw.tunnel = 0 => rw.gateway = 0 /\ rw.libp2p = 0
    BY <1>1 DEF RowHolds
  <2> QED BY <1>1, <1>2, <1>3, <2>1, <2>2 DEF RevocationHolds, ProvisionHolds
<1>7. n # 0 => /\ n \in 1..runs' /\ v.gateway = n /\ v.libp2p \in 0..runs'
               /\ \A t \in cloud.tunnels : t.id = n => t.of = v.of
               /\ \A y \in Stakes :
                     /\ n = y.on => v.of = y.of
                     /\ v.libp2p = y.libp2p /\ v.libp2p # 0 => n = y.on
  <2> SUFFICES ASSUME n # 0
               PROVE  /\ n \in 1..runs' /\ v.gateway = n /\ v.libp2p \in 0..runs'
                      /\ \A t \in cloud.tunnels : t.id = n => t.of = v.of
                      /\ \A y \in Stakes :
                            /\ n = y.on => v.of = y.of
                            /\ v.libp2p = y.libp2p /\ v.libp2p # 0 => n = y.on
    OBVIOUS
  <2>1. PICK x \in Stakes : x = Stake(d, rw.tunnel, rw.gateway, rw.libp2p)
    BY <1>4, RowStaked
  <2>2. x.of = v.of /\ x.on = n /\ x.gateway = v.gateway /\ x.libp2p = v.libp2p
    BY <1>2, <1>4, <2>1 DEF Stake
  <2> QED BY <1>1, <2>2 DEF StakesFit
<1>8. \/ n = 0
      \/ n \in contested' /\ \E e \in Devices : n = desktop[e].tunnel
  BY <1>1, <1>4
<1>9. /\ runs' \in Nat /\ runs <= runs' /\ v \in Provision \cup Revocation
      /\ request[c] = NoRequest /\ contested \subseteq contested'
      /\ UNCHANGED <<setting, pairing, desktop, cloud>>
  BY <1>1
<1> HIDE DEF rw
<1>10. CASE n = 0
  BY <1>3, <1>5, <1>6, <1>9, <1>10, BeginStep
<1>11. CASE n # 0
  <2>1. /\ n \in 1..runs' /\ v.gateway = n /\ v.libp2p \in 0..runs'
        /\ \A t \in cloud.tunnels : t.id = n => t.of = v.of
        /\ \A y \in Stakes :
              /\ n = y.on => v.of = y.of
              /\ v.libp2p = y.libp2p /\ v.libp2p # 0 => n = y.on
    BY <1>7, <1>11
  <2>2. n \in contested' /\ \E e \in Devices : n = desktop[e].tunnel
    BY <1>8, <1>11
  <2> QED BY <1>3, <1>5, <1>6, <1>9, <2>1, <2>2, BeginStep
<1> QED BY <1>10, <1>11

LEMMA DeleteRemoteStep ==
    ASSUME TunnelInv, NEW c \in setting.requests, DeleteRemote(c)
    PROVE  TunnelInv'
<1> DEFINE r == request[c]
<1>1. /\ DesktopTypeOK /\ StakesFit /\ RevocationHolds(c)
      /\ UNCHANGED <<setting, pairing, desktop, contested, runs>>
      /\ r.step \in {"gateway", "libp2p", "tunnel"} /\ r.op = "revoke"
  BY DEF TunnelInv, DeleteRemote
<1>2. r \in Revocation /\ Working(c) /\ Target(c) = r.tunnel
  BY <1>1, RequestShapes DEF Working, Target
<1>3. PICK step \in {"libp2p", "tunnel", "save"} :
        request' = [request EXCEPT ![c].step = step]
  BY <1>1 DEF DeleteRemote, Enter
<1>4. /\ request'[c] = [r EXCEPT !.step = step]
      /\ \A b \in setting.requests \ {c} : request'[b] = request[b]
      /\ request' \in [setting.requests -> {NoRequest} \cup PairingRequest
                                               \cup Provision \cup Revocation]
  <2>1. [r EXCEPT !.step = step] \in Revocation
    BY <1>2, <1>3 DEF Revocation
  <2> QED BY <1>1, <1>3, <2>1 DEF DesktopTypeOK
<1>5. PICK v \in Revocation :
        /\ request'[c] = v /\ v.step = step /\ v.of = r.of /\ v.tunnel = r.tunnel
        /\ v.gateway = r.gateway /\ v.libp2p = r.libp2p
  BY <1>2, <1>3, <1>4 DEF Revocation
<1>6. Working(c)' /\ Target(c)' = Target(c)
  BY <1>2, <1>3, <1>5 DEF Working, Target
<1>7. RevocationHolds(c)' /\ ProvisionHolds(c)'
  <2>1. v \notin Provision
    BY DEF Provision, Revocation
  <2> QED BY <1>1, <1>2, <1>5, <2>1 DEF RevocationHolds, ProvisionHolds
<1>8. /\ cloud'.tunnels \subseteq cloud.tunnels
      /\ \A t \in cloud.tunnels : t.id # r.tunnel => t \in cloud'.tunnels
      /\ \A x \in cloud.records :
            \/ x \in cloud'.records
            \/ x.name \in {<<"gateway", r.gateway>>, <<"libp2p", r.libp2p>>}
      /\ cloud' = [tunnels |-> cloud'.tunnels, records |-> cloud'.records]
  BY <1>1 DEF DeleteRemote, DesktopTypeOK
<1>9. Cautious(c)
  <2>1. ASSUME NEW x \in Stakes, x.on \notin contested'
        PROVE  /\ x.on # r.tunnel /\ x.on # 0
               /\ x.gateway # r.gateway /\ (x.libp2p # 0 => x.libp2p # r.libp2p)
    <3>1. x.on \in 1..runs /\ x.gateway = x.on /\ x.libp2p \in 0..runs /\ runs \in Nat
      BY <1>1 DEF StakesFit, DesktopTypeOK
    <3>2. CASE r.tunnel = 0
      BY <1>1, <1>2, <3>1, <3>2 DEF RevocationHolds
    <3>3. CASE r.tunnel # 0
      <4>1. x.on # r.tunnel
        BY <1>1, <1>2, <2>1, <3>3 DEF RevocationHolds
      <4>2. PICK y \in Stakes : y = Stake(r.of, r.tunnel, r.gateway, r.libp2p)
        BY <1>2, <3>3, RequestStaked
      <4>3. y.on = r.tunnel /\ y.gateway = r.gateway /\ y.libp2p = r.libp2p
        BY <4>2 DEF Stake
      <4> QED BY <1>1, <3>1, <4>1, <4>3 DEF StakesFit
    <3> QED BY <3>2, <3>3
  <2>2. ASSUME NEW x \in Stakes, x.on \notin contested'
        PROVE  /\ IsThere(x.on) => IsThere(x.on)'
               /\ IsNamed("gateway", x.gateway, x.on) =>
                     IsNamed("gateway", x.gateway, x.on)'
               /\ x.libp2p # 0 /\ IsNamed("libp2p", x.libp2p, x.on) =>
                     IsNamed("libp2p", x.libp2p, x.on)'
    BY <1>8, <2>1, <2>2 DEF IsThere, IsNamed, Record
  <2> QED BY <1>1, <1>2, <1>8, <2>2 DEF Cautious
<1>10. DesktopTypeOK'
  BY <1>1, <1>4, <1>8 DEF DesktopTypeOK
<1>11. /\ setting' = setting /\ runs' = runs /\ UNCHANGED desktop
       /\ request'[c].of = request[c].of /\ request'[c].gateway = request[c].gateway
       /\ request'[c].libp2p = request[c].libp2p
       /\ \A t \in cloud'.tunnels :
             \E u \in cloud.tunnels : t.id = u.id /\ t.of = u.of
  BY <1>1, <1>5, <1>8
<1> QED BY <1>2, <1>4, <1>6, <1>7, <1>9, <1>10, <1>11, GoOnStep

LEMMA SaveRevokeStep ==
    ASSUME TunnelInv, NEW c \in setting.requests, SaveRevoke(c)
    PROVE  TunnelInv'
<1> DEFINE d == request[c].of
           new == [desktop[d] EXCEPT !.on = FALSE, !.tunnel = 0,
                                     !.gateway = 0, !.libp2p = 0]
<1>1. /\ DesktopTypeOK /\ UNCHANGED <<setting, pairing, cloud, contested, runs>>
      /\ request' = [request EXCEPT ![c] = NoRequest]
      /\ desktop' = IF ~Exists(d) THEN desktop ELSE [desktop EXCEPT ![d] = new]
      /\ request[c].step = "save" /\ request[c].op = "revoke"
  BY DEF TunnelInv, SaveRevoke, At, Leave
<1>2. d \in Devices
  BY <1>1, RequestShapes DEF Working, Revocation
<1>3. new \in Desktop /\ new.tunnel = 0 /\ new.gateway = 0 /\ new.libp2p = 0
  <2>1. desktop[d] \in Desktop
    BY <1>1, <1>2 DEF DesktopTypeOK
  <2> HIDE DEF d
  <2> QED BY <2>1 DEF Desktop
<1> HIDE DEF new
<1>4. DesktopTypeOK' /\ \A e \in Devices : SaysLess(e)
  BY <1>1, <1>2, <1>3 DEF DesktopTypeOK, SaysLess
<1>5. Cautious(c)
  BY <1>1, IdleCloudIsCautious
<1> QED BY <1>1, <1>4, <1>5, LeaveStep

-----------------------------------------------------------------------------
LEMMA TunnelInvInit ==
    ASSUME DesktopInit
    PROVE  TunnelInv
<1>1. /\ setting \in Settings /\ pairing = [k \in Codes |-> "open"]
      /\ request = [c \in setting.requests |-> NoRequest] /\ contested = {}
  BY DEF DesktopInit
<1>2. \A c \in setting.requests :
        /\ request[c] = NoRequest /\ ~Working(c)
        /\ request[c] \notin Provision \cup Revocation
  BY <1>1 DEF NoRequest, Working, Provision, Revocation
<1>3. NoDesktop \in Desktop /\ NoDesktop.tunnel = 0 /\ NoDesktop.gateway = 0
      /\ NoDesktop.libp2p = 0
  BY DEF NoDesktop, Desktop
<1>4. OldDesktop \in Desktop /\ OldDesktop.tunnel = 1 /\ OldDesktop.gateway = 1
      /\ OldDesktop.libp2p = 0 /\ OldDesktop.on = TRUE
  BY DEF OldDesktop, NoDesktop, Desktop
<1>5. PICK S \in SUBSET Devices :
        /\ \A d, e \in S : d = e
        /\ desktop = [d \in Devices |-> IF d \in S THEN OldDesktop ELSE NoDesktop]
        /\ cloud = [tunnels |-> {Tunnel(1, d, 1, 0) : d \in S},
                    records |-> {Record("gateway", 1, 1) : d \in S}]
        /\ runs = IF S = {} THEN 0 ELSE 1
  <2>1. CASE setting.old
    <3>1. PICK d \in Devices :
            /\ desktop = [e \in Devices |-> IF e = d THEN OldDesktop ELSE NoDesktop]
            /\ cloud = [tunnels |-> {Tunnel(1, d, 1, 0)},
                        records |-> {Record("gateway", 1, 1)}]
            /\ runs = 1
      BY <2>1 DEF DesktopInit
    <3> WITNESS {d} \in SUBSET Devices
    <3> QED BY <3>1
  <2>2. CASE ~setting.old
    <3> WITNESS {} \in SUBSET Devices
    <3> QED BY <2>2 DEF DesktopInit
  <2> QED BY <2>1, <2>2
<1>6. DesktopTypeOK
  BY <1>1, <1>3, <1>4, <1>5 DEF DesktopTypeOK, Tunnel
<1>7. \A x \in Stakes : \E d \in S : x = Stake(d, 1, 1, 0)
  <2>1. RequestStakes = {}
    BY <1>2 DEF RequestStakes
  <2> QED BY <1>3, <1>4, <1>5, <2>1 DEF Stakes, RowStakes
<1>8. \A t \in cloud.tunnels : \E d \in S : t = Tunnel(1, d, 1, 0)
  BY <1>5
<1>9. StakesFit
  <2>1. \A x \in Stakes : /\ x.on = 1 /\ x.gateway = 1 /\ x.libp2p = 0
                          /\ x.of \in S /\ runs = 1
    BY <1>5, <1>7 DEF Stake
  <2>2. \A t \in cloud.tunnels : t.id = 1 /\ t.of \in S /\ runs = 1
    BY <1>5, <1>8 DEF Tunnel
  <2> QED BY <1>5, <2>1, <2>2 DEF StakesFit
<1>10. \A d \in Devices : RowHolds(d)
  <2> SUFFICES ASSUME NEW d \in Devices PROVE RowHolds(d)
    OBVIOUS
  <2>1. CASE d \in S
    <3>1. /\ Tunnel(1, d, 1, 0) \in cloud.tunnels
          /\ Record("gateway", 1, 1) \in cloud.records
      BY <1>5, <2>1
    <3> QED BY <1>4, <1>5, <2>1, <3>1 DEF RowHolds, IsThere, IsNamed, Tunnel
  <2>2. CASE d \notin S
    BY <1>3, <1>5, <2>2 DEF RowHolds
  <2> QED BY <2>1, <2>2
<1> QED BY <1>2, <1>6, <1>9, <1>10 DEF TunnelInv, ProvisionHolds, RevocationHolds

LEMMA TunnelInvStep ==
    ASSUME TunnelInv, [DesktopNext]_desktopVars
    PROVE  TunnelInv'
<1>1. ASSUME NEW c \in setting.requests,
             \E d \in Devices : BeginProvision(c, d) \/ BeginRevoke(c, d)
      PROVE  TunnelInv'
  BY <1>1, BeginProvisionStep, BeginRevokeStep
<1>2. ASSUME NEW c \in setting.requests,
             \/ \E k \in Codes : BeginClaim(c, k)
             \/ \E d \in Devices : CommitPairing(c, d)
             \/ RefusePairing(c) \/ BreakOff(c)
      PROVE  TunnelInv'
  BY <1>2, PairingSteps
<1>3. ASSUME NEW c \in setting.requests,
             \/ CallCloudflare(c) \/ FailProvision(c) \/ LoseAnswer(c)
             \/ SaveProvision(c) \/ DeleteRemote(c) \/ SaveRevoke(c)
      PROVE  TunnelInv'
  BY <1>3, CallSteps, SaveProvisionStep, DeleteRemoteStep, SaveRevokeStep
<1>4. CASE UNCHANGED desktopVars
  <2>1. /\ UNCHANGED <<setting, pairing, desktop, cloud, request, contested, runs>>
    BY <1>4 DEF desktopVars
  <2>2. DesktopTypeOK' /\ \A d \in Devices : SaysLess(d)
    BY <2>1 DEF TunnelInv, DesktopTypeOK, SaysLess
  <2> QED BY <2>1, <2>2, AsideDesktopStep
<1> QED BY <1>1, <1>2, <1>3, <1>4, OwnerSteps DEF DesktopNext

LEMMA TunnelInvariant == DesktopSpec => []TunnelInv
BY TunnelInvInit, TunnelInvStep, PTL DEF DesktopSpec

\* A device that is shown with a finished tunnel has one, and both names lead
\* to it, whatever failed, was lost or overlapped before; unless a revocation
\* or a second provision worked on that tunnel (provisionTunnelForDevice,
\* revokeTunnelForDevice).
THEOREM EnabledTunnelsWorkHolds == DesktopSpec => []EnabledTunnelsWork
<1>1. TunnelInv => EnabledTunnelsWork
  BY DEF TunnelInv, RowHolds, EnabledTunnelsWork, Complete, IsNamed
<1> QED BY <1>1, TunnelInvariant, PTL

-----------------------------------------------------------------------------
(* Pairing.                                                                *)

PairingInv == DesktopTypeOK /\ CodesClaimed /\ PairingClaimedOnce

\* What becomes of the rows and the codes: a row keeps its code, or gets one
\* that was not claimed and is now.
CodesKept ==
    /\ \A k \in Codes : pairing[k] = "claimed" => pairing'[k] = "claimed"
    /\ \A d \in Devices : desktop'[d].code = desktop[d].code

LEMMA PairingInvStep ==
    ASSUME PairingInv, DesktopTypeOK', [DesktopNext]_desktopVars
    PROVE  PairingInv'
<1>1. CASE CodesKept
  BY <1>1 DEF PairingInv, CodesKept, CodesClaimed, PairingClaimedOnce, DesktopTypeOK,
              Desktop
<1>2. ASSUME NEW c \in setting.requests, NEW d \in Devices, CommitPairing(c, d)
      PROVE  PairingInv'
  <2> DEFINE k == request[c].code
  <2>1. k \in Codes /\ DesktopTypeOK
    BY <1>2, RequestShapes DEF PairingInv, CommitPairing, At, PairingRequest
  <2>2. /\ desktop' = [desktop EXCEPT ![d] = NewDesktop(k)]
        /\ pairing' = [pairing EXCEPT ![k] = "claimed"] /\ pairing[k] # "claimed"
    BY <1>2 DEF CommitPairing
  <2> HIDE DEF k
  <2>3. /\ desktop'[d].code = k /\ \A e \in Devices \ {d} : desktop'[e] = desktop[e]
        /\ pairing'[k] = "claimed"
        /\ \A j \in Codes : pairing[j] = "claimed" => pairing'[j] = "claimed"
    BY <2>1, <2>2 DEF NewDesktop, NoDesktop, DesktopTypeOK
  <2>4. \A e \in Devices : desktop[e].code \in Codes \cup {NoCode}
    BY <2>1 DEF DesktopTypeOK, Desktop
  <2>5. \A e \in Devices : desktop[e].code # k
    BY <2>1, <2>2, DevicesAssumption DEF PairingInv, CodesClaimed
  <2> QED BY <2>3, <2>4, <2>5 DEF PairingInv, CodesClaimed, PairingClaimedOnce
<1>3. ASSUME NEW k \in Codes, Expire(k)
      PROVE  CodesKept
  BY <1>3 DEF Expire, CodesKept, PairingInv, DesktopTypeOK
<1>4. ASSUME NEW d \in Devices, Disconnect(d) \/ RemoveByOwner(d)
      PROVE  CodesKept
  <2>1. desktop[d] \in Desktop /\ desktop \in [Devices -> Desktop]
    BY DEF PairingInv, DesktopTypeOK
  <2>2. PICK new : desktop' = [desktop EXCEPT ![d] = new] /\ new.code = desktop[d].code
    <3>1. CASE Disconnect(d)
      <4> DEFINE new == [desktop[d] EXCEPT !.link = "unlinked"]
      <4>1. desktop' = [desktop EXCEPT ![d] = new]
        BY <2>1, <3>1 DEF Disconnect
      <4>2. new.code = desktop[d].code
        BY <2>1 DEF Desktop
      <4> QED BY <4>1, <4>2
    <3>2. CASE RemoveByOwner(d)
      <4> DEFINE new == [NoDesktop EXCEPT !.link = "removed", !.code = desktop[d].code]
      <4>1. desktop' = [desktop EXCEPT ![d] = new]
        BY <3>2 DEF RemoveByOwner
      <4>2. new.code = desktop[d].code
        BY DEF NoDesktop
      <4> QED BY <4>1, <4>2
    <3> QED BY <1>4, <3>1, <3>2
  <2> QED BY <1>4, <2>1, <2>2 DEF Disconnect, RemoveByOwner, CodesKept
<1>5. ASSUME NEW c \in setting.requests, SaveProvision(c) \/ SaveRevoke(c)
      PROVE  CodesKept
  <2>1. \A e \in Devices : desktop[e] \in Desktop
    BY DEF PairingInv, DesktopTypeOK
  <2>2. pairing' = pairing
    BY <1>5 DEF SaveProvision, SaveRevoke
  <2>3. \A e \in Devices : desktop'[e].code = desktop[e].code
    <3> SUFFICES ASSUME NEW e \in Devices PROVE desktop'[e].code = desktop[e].code
      OBVIOUS
    <3>1. CASE SaveProvision(c)
      <4>1. \/ desktop'[e] = desktop[e]
            \/ desktop'[e] = [desktop[e] EXCEPT !.on = TRUE,
                    !.tunnel = request[c].tunnel, !.gateway = request[c].gateway,
                    !.libp2p = request[c].libp2p]
        BY <3>1 DEF SaveProvision, PairingInv, DesktopTypeOK
      <4> QED BY <2>1, <4>1 DEF Desktop
    <3>2. CASE SaveRevoke(c)
      <4>1. \/ desktop'[e] = desktop[e]
            \/ desktop'[e] = [desktop[e] EXCEPT !.on = FALSE, !.tunnel = 0,
                                                !.gateway = 0, !.libp2p = 0]
        BY <3>2 DEF SaveRevoke, PairingInv, DesktopTypeOK
      <4> QED BY <2>1, <4>1 DEF Desktop
    <3> QED BY <1>5, <3>1, <3>2
  <2> QED BY <2>2, <2>3 DEF CodesKept
<1>6. ASSUME UNCHANGED <<pairing, desktop>>
      PROVE  CodesKept
  BY <1>6 DEF CodesKept
<1>7. ASSUME NEW c \in setting.requests,
             \/ \E k \in Codes : BeginClaim(c, k)
             \/ \E d \in Devices : BeginProvision(c, d) \/ BeginRevoke(c, d)
             \/ RefusePairing(c) \/ CallCloudflare(c) \/ FailProvision(c)
             \/ LoseAnswer(c) \/ DeleteRemote(c) \/ BreakOff(c)
      PROVE  UNCHANGED <<pairing, desktop>>
  BY <1>7 DEF BeginClaim, BeginProvision, BeginRevoke, RefusePairing, CallCloudflare,
              FailProvision, LoseAnswer, DeleteRemote, BreakOff
<1> QED BY <1>1, <1>2, <1>3, <1>4, <1>5, <1>6, <1>7 DEF DesktopNext, desktopVars

\* A pairing code links one device, however claims of it overlap and however
\* its device fares later (claimRelayPairing).
THEOREM PairingClaimedOnceHolds == DesktopSpec => []PairingClaimedOnce
<1>1. DesktopInit => CodesClaimed /\ PairingClaimedOnce
  <2>1. NoDesktop.code = NoCode /\ OldDesktop.code = NoCode
    BY DEF NoDesktop, OldDesktop
  <2>2. DesktopInit => \A d \in Devices : desktop[d] \in {NoDesktop, OldDesktop}
    BY DEF DesktopInit
  <2> QED BY <2>1, <2>2 DEF CodesClaimed, PairingClaimedOnce
<1>2. TunnelInv => DesktopTypeOK
  BY DEF TunnelInv
<1>3. DesktopInit => PairingInv
  BY <1>1, <1>2, TunnelInvInit DEF PairingInv
<1>4. PairingInv /\ TunnelInv' /\ [DesktopNext]_desktopVars => PairingInv'
  BY PairingInvStep DEF TunnelInv
<1>5. PairingInv => PairingClaimedOnce
  BY DEF PairingInv
<1> QED BY <1>3, <1>4, <1>5, TunnelInvariant, PTL DEF DesktopSpec

-----------------------------------------------------------------------------
(* Works saved on an owner's machines.  Nothing depends on the hosts that a *)
(* save goes through, only on what has been done for the current one.       *)

SaveSteps == {"idle", "find", "upsert", "call", "pinned", "failed", "host",
              "answer", "answered"}
AtRoots == {"upsert", "call", "pinned", "failed"}

IsSaving(q) ==
    q \in [step : SaveSteps, hosts : {q.hosts}, root : Nat \ {0}, failed : Nat,
           copy : {q.copy}, results : Seq(ToSet(q.results))]

SaveTypes ==
    /\ plan.work \in [Saves -> Seq(Roots)]
    /\ service \in [Hosts -> Services]
    /\ pin \in [Hosts -> [Roots -> {"none", "PENDING", "PINNED", "FAILED"}]]
    /\ DOMAIN saving = Saves /\ DOMAIN shown = Saves
    /\ DOMAIN desk = Saves /\ DOMAIN taken = Saves
    /\ \A s \in Saves :
          /\ IsSaving(saving[s])
          /\ DOMAIN shown[s] = Hosts

\* All roots of the work have been accepted by one service for the host.
IsKept(s, h) == h \in Hosts =>
    \E v \in Services : \A r \in ToSet(plan.work[s]) : <<h, v, r>> \in accepted

\* The service of the current host has accepted a root.
HasAccepted(s, r) ==
    Current(s) \in Hosts => <<Current(s), CurrentService(s), r>> \in accepted

\* Every recorded pin was accepted.
PinsAccepted ==
    \A h \in Hosts, r \in Roots :
        pin[h][r] = "PINNED" => \E v \in Services : <<h, v, r>> \in accepted

\* What the request of a save is about to record, and to answer.
SaveHolds(s) ==
    /\ saving[s].step \in {"idle", "find"} =>
          saving[s].root = 1 /\ saving[s].failed = 0 /\ saving[s].results = <<>>
    /\ saving[s].step = "host" => saving[s].root = 1
    /\ saving[s].step \in AtRoots \cup {"host"} => saving[s].copy \in [Hosts -> Services]
    /\ saving[s].step = "pinned" => HasAccepted(s, CurrentRoot(s))
    /\ saving[s].step \in AtRoots /\ saving[s].failed = 0 =>
          \A i \in DOMAIN plan.work[s] :
              i < saving[s].root => HasAccepted(s, plan.work[s][i])
    /\ saving[s].step = "host" /\ saving[s].failed = 0 => IsKept(s, Current(s))
    /\ \A x \in ToSet(saving[s].results) : x[2] = "saved" => IsKept(s, x[1])

SaveInv == SaveTypes /\ SavedWasAccepted /\ \A s \in Saves : SaveHolds(s)

\* A save is shown as done on a host if a service has accepted all its roots.
ShownIsKept(s) == \A h \in Hosts : shown[s][h] = "saved" => IsKept(s, h)

\* One save goes on: what the others hold stays, for no acceptance is
\* forgotten.
LEMMA SaveFrame ==
    ASSUME SaveInv, SaveTypes', NEW s \in Saves, plan' = plan, accepted \subseteq accepted',
           \A t \in Saves \ {s} : saving'[t] = saving[t] /\ shown'[t] = shown[t],
           PinsAccepted',
           \A t \in Saves : desk'[t] = "saved" => taken'[t] # {},
           SaveHolds(s)', ShownIsKept(s)'
    PROVE  SaveInv'
<1>1. \A t \in Saves : \A h : IsKept(t, h) => IsKept(t, h)'
  BY DEF IsKept
<1>6. ASSUME NEW t \in Saves, NEW r, HasAccepted(t, r), Current(t)' = Current(t),
             CurrentService(t)' = CurrentService(t)
      PROVE  HasAccepted(t, r)'
  BY <1>6 DEF HasAccepted
<1>2. ASSUME NEW t \in Saves \ {s} PROVE SaveHolds(t)'
  <2>1. SaveHolds(t) /\ saving'[t] = saving[t]
    BY DEF SaveInv
  <2>2. /\ Current(t)' = Current(t) /\ CurrentRoot(t)' = CurrentRoot(t)
        /\ CurrentService(t)' = CurrentService(t)
    BY <2>1 DEF Current, CurrentRoot, CurrentService
  <2> QED BY <1>1, <1>6, <2>1, <2>2 DEF SaveHolds
<1>3. ASSUME NEW t \in Saves \ {s} PROVE ShownIsKept(t)'
  BY <1>1 DEF SaveInv, SavedWasAccepted, ShownIsKept, IsKept
<1>4. \A t \in Saves : SaveHolds(t)' /\ ShownIsKept(t)'
  BY <1>2, <1>3
<1>5. SavedWasAccepted'
  BY <1>4 DEF SavedWasAccepted, PinsAccepted, ShownIsKept, IsKept
<1> QED BY <1>4, <1>5 DEF SaveInv

\* The catch block of the page marks hosts as failed, and as nothing else.
LEMMA RejectKeeps ==
    ASSUME SaveInv, NEW s \in Saves, RejectSave(s), plan' = plan, accepted' = accepted
    PROVE  /\ saving' = [saving EXCEPT ![s] = NoSave("answered")]
           /\ \A t \in Saves \ {s} : saving'[t] = saving[t] /\ shown'[t] = shown[t]
           /\ DOMAIN shown' = Saves /\ \A t \in Saves : DOMAIN shown'[t] = Hosts
           /\ SaveHolds(s)' /\ ShownIsKept(s)'
<1> USE DEF SaveInv, SaveTypes, RejectSave, NoSave
<1>1. saving'[s].step = "answered" /\ saving'[s].results = <<>>
  OBVIOUS
<1>2. SaveHolds(s)'
  BY <1>1 DEF SaveHolds, AtRoots, ToSet
<1>3. \A h \in Hosts : shown'[s][h] = "saved" => shown[s][h] = "saved"
  BY DEF Show, Told, Awaited
<1>4. ShownIsKept(s)'
  BY <1>3 DEF ShownIsKept, IsKept, SavedWasAccepted
<1>5. /\ \A t \in Saves \ {s} : saving'[t] = saving[t] /\ shown'[t] = shown[t]
      /\ DOMAIN shown' = Saves /\ \A t \in Saves : DOMAIN shown'[t] = Hosts
  BY DEF Show
<1> QED BY <1>2, <1>4, <1>5

LEMMA RejectTypes ==
    ASSUME SaveInv, NEW s \in Saves, RejectSave(s),
           UNCHANGED <<plan, service, accepted, pin, desk, taken>>
    PROVE  SaveTypes' /\ SaveInv'
<1>1. SaveTypes'
  <2>1. <<>> \in Seq(ToSet(<<>>))
    OBVIOUS
  <2>2. IsSaving(NoSave("answered"))
    BY <2>1 DEF IsSaving, NoSave, SaveSteps
  <2> QED BY <2>2, RejectKeeps DEF SaveInv, SaveTypes
<1>2. PinsAccepted'
  BY DEF SaveInv, SavedWasAccepted, PinsAccepted
<1>3. \A t \in Saves : desk'[t] = "saved" => taken'[t] # {}
  BY DEF SaveInv, SavedWasAccepted
<1> QED BY <1>1, <1>2, <1>3, RejectKeeps, SaveFrame

\* Only the saving of one save changes.
LEMMA OneSaveMoves ==
    ASSUME SaveInv, NEW s \in Saves, NEW q, saving' = [saving EXCEPT ![s] = q],
           IsSaving(q),
           UNCHANGED <<plan, service, shown, desk, taken>>, accepted \subseteq accepted',
           pin' \in [Hosts -> [Roots -> {"none", "PENDING", "PINNED", "FAILED"}]],
           PinsAccepted',
           SaveHolds(s)'
    PROVE  SaveInv'
<1>1. SaveTypes'
  BY DEF SaveInv, SaveTypes
<1>2. \A t \in Saves \ {s} : saving'[t] = saving[t] /\ shown'[t] = shown[t]
  BY DEF SaveInv, SaveTypes
<1>3. ShownIsKept(s)'
  BY DEF SaveInv, SavedWasAccepted, ShownIsKept, IsKept
<1>4. \A t \in Saves : desk'[t] = "saved" => taken'[t] # {}
  BY DEF SaveInv, SavedWasAccepted
<1> QED BY <1>1, <1>2, <1>3, <1>4, SaveFrame

LEMMA UpsertStep ==
    ASSUME SaveInv, NEW s \in Saves, UpsertPending(s)
    PROVE  SaveInv'
<1>1. CASE ~Here(Current(s))
  BY <1>1, RejectTypes DEF UpsertPending, requestVars
<1>2. CASE Here(Current(s))
  <2> DEFINE q == [saving[s] EXCEPT !.step = "call"]
  <2>1. /\ saving' = [saving EXCEPT ![s] = q] /\ saving[s].step = "upsert"
        /\ UNCHANGED <<plan, service, shown, desk, taken, accepted>>
        /\ pin' = [pin EXCEPT ![Current(s)][CurrentRoot(s)] = "PENDING"]
    BY <1>2 DEF UpsertPending, requestVars
  <2>2. IsSaving(saving[s])
    BY DEF SaveInv, SaveTypes
  <2>3. /\ IsSaving(q)
        /\ q.step = "call" /\ q.hosts = saving[s].hosts /\ q.root = saving[s].root
        /\ q.failed = saving[s].failed /\ q.results = saving[s].results
        /\ q.copy = saving[s].copy
    BY <2>2 DEF IsSaving, SaveSteps
  <2>4. saving'[s] = q
    BY <2>1 DEF SaveInv, SaveTypes
  <2>5. SaveHolds(s)
    BY DEF SaveInv
  <2> HIDE DEF q
  <2>6. SaveHolds(s)'
    BY <2>1, <2>3, <2>4, <2>5
    DEF SaveHolds, AtRoots, Current, CurrentRoot, CurrentService, HasAccepted, IsKept
  <2>7. /\ pin' \in [Hosts -> [Roots -> {"none", "PENDING", "PINNED", "FAILED"}]]
        /\ \A h \in Hosts, r \in Roots : pin'[h][r] = "PINNED" => pin[h][r] = "PINNED"
    BY <2>1 DEF SaveInv, SaveTypes
  <2> QED BY <2>1, <2>3, <2>6, <2>7, OneSaveMoves DEF SaveInv, SavedWasAccepted, PinsAccepted
<1> QED BY <1>1, <1>2

LEMMA WorkIsSeq ==
    ASSUME SaveInv, NEW s \in Saves
    PROVE  plan.work[s] \in Seq(Roots) /\ DOMAIN plan.work[s] = 1..Len(plan.work[s])
                                      /\ Len(plan.work[s]) \in Nat
<1>1. plan.work[s] \in Seq(Roots)
  BY DEF SaveInv, SaveTypes
<1> QED BY <1>1

LEMMA FindStep ==
    ASSUME SaveInv, NEW s \in Saves, FindHosts(s)
    PROVE  SaveInv'
<1> DEFINE wanted(h) == host[h] = "enabled" /\ h \in Awaited(s)
           found == SelectSeq(HostOrder, wanted)
<1>1. CASE found = <<>>
  <2>1. RejectSave(s)
    BY <1>1 DEF FindHosts
  <2> QED BY <2>1, RejectTypes DEF FindHosts, requestVars
<1>2. CASE found # <<>>
  <2> DEFINE q == [saving[s] EXCEPT !.step = "upsert", !.hosts = found, !.copy = service]
  <2>1. /\ saving' = [saving EXCEPT ![s].step = "upsert", ![s].hosts = found,
                                   ![s].copy = service]
        /\ saving[s].step = "find"
        /\ UNCHANGED <<plan, service, shown, desk, taken, accepted, pin>>
    BY <1>2 DEF FindHosts, requestVars
  <2> HIDE DEF found
  <2>2. IsSaving(saving[s]) /\ DOMAIN saving = Saves
    BY DEF SaveInv, SaveTypes
  <2>3. saving' = [saving EXCEPT ![s] = q]
    BY <2>1, <2>2
  <2>4. /\ IsSaving(q) /\ q.step = "upsert" /\ q.root = saving[s].root /\ q.copy = service
        /\ q.failed = saving[s].failed /\ q.results = saving[s].results
    BY <2>2 DEF IsSaving, SaveSteps
  <2>5. saving'[s] = q
    BY <2>2, <2>3
  <2> HIDE DEF q
  <2>6. saving[s].root = 1 /\ saving[s].results = <<>>
    BY <2>1 DEF SaveInv, SaveHolds
  <2>7. /\ \A i \in DOMAIN plan.work[s] : ~(i < 1)
        /\ ToSet(<<>>) = {}
    BY WorkIsSeq DEF ToSet
  <2>8. SaveHolds(s)'
    BY <2>1, <2>4, <2>5, <2>6, <2>7 DEF SaveHolds, AtRoots, SaveInv, SaveTypes
  <2> QED BY <2>1, <2>3, <2>4, <2>8, OneSaveMoves DEF SaveInv, SavedWasAccepted, PinsAccepted, SaveTypes
<1> QED BY <1>1, <1>2

LEMMA CallStep ==
    ASSUME SaveInv, NEW s \in Saves, CallHost(s)
    PROVE  SaveInv'
<1>1. PICK told \in BOOLEAN :
        /\ accepted' = IF told
              THEN accepted \cup {<<Current(s), CurrentService(s), CurrentRoot(s)>>}
              ELSE accepted
        /\ saving' = [saving EXCEPT ![s].step = IF told THEN "pinned" ELSE "failed"]
  BY DEF CallHost
<1> DEFINE next == IF told THEN "pinned" ELSE "failed"
           q == [saving[s] EXCEPT !.step = next]
<1>2. saving[s].step = "call" /\ UNCHANGED <<plan, service, shown, desk, taken, pin>>
  BY DEF CallHost, requestVars
<1>3. IsSaving(saving[s]) /\ DOMAIN saving = Saves
  BY DEF SaveInv, SaveTypes
<1>4. /\ IsSaving(q) /\ q.step = next /\ q.root = saving[s].root
      /\ q.failed = saving[s].failed /\ q.results = saving[s].results
      /\ q.hosts = saving[s].hosts /\ q.copy = saving[s].copy
  BY <1>3 DEF IsSaving, SaveSteps
<1>5. saving' = [saving EXCEPT ![s] = q] /\ saving'[s] = q
  BY <1>1, <1>3
<1> HIDE DEF q
<1>6. /\ accepted \subseteq accepted'
      /\ next = "pinned" =>
            <<Current(s), CurrentService(s), CurrentRoot(s)>> \in accepted'
  BY <1>1
<1>7. SaveHolds(s)
  BY DEF SaveInv
<1>8. SaveHolds(s)'
  BY <1>2, <1>4, <1>5, <1>6, <1>7
  DEF SaveHolds, AtRoots, Current, CurrentRoot, CurrentService, HasAccepted, IsKept
<1>9. PinsAccepted'
  BY <1>2, <1>6 DEF SaveInv, SavedWasAccepted, PinsAccepted
<1> QED BY <1>2, <1>4, <1>5, <1>6, <1>8, <1>9, OneSaveMoves DEF SaveInv, SaveTypes

LEMMA OutcomeStep ==
    ASSUME SaveInv, NEW s \in Saves, RecordOutcome(s)
    PROVE  SaveInv'
<1>1. CASE ~Here(Current(s))
  BY <1>1, RejectTypes DEF RecordOutcome, requestVars
<1>2. CASE Here(Current(s))
  <2> DEFINE ok == saving[s].step = "pinned"
             last == saving[s].root = Len(plan.work[s])
             next == IF last THEN "host" ELSE "upsert"
             root == IF last THEN 1 ELSE saving[s].root + 1
             bad == IF ok THEN saving[s].failed ELSE saving[s].failed + 1
             q == [saving[s] EXCEPT !.step = next, !.root = root, !.failed = bad]
  <2>1. /\ saving' = [saving EXCEPT ![s].step = next, ![s].root = root, ![s].failed = bad]
        /\ pin' = RecordHostPin(s, IF ok THEN "PINNED" ELSE "FAILED")
        /\ saving[s].step \in {"pinned", "failed"}
        /\ UNCHANGED <<plan, service, shown, desk, taken, accepted>>
    BY <1>2 DEF RecordOutcome, requestVars
  <2>2. IsSaving(saving[s]) /\ DOMAIN saving = Saves
    BY DEF SaveInv, SaveTypes
  <2>3. saving' = [saving EXCEPT ![s] = q] /\ saving'[s] = q
    BY <2>1, <2>2
  <2>12. saving[s].root \in Nat \ {0} /\ saving[s].failed \in Nat
    BY <2>2 DEF IsSaving
  <2>13. next \in SaveSteps /\ root \in Nat \ {0} /\ bad \in Nat
    BY <2>12 DEF SaveSteps
  <2> HIDE DEF next, root, bad
  <2>4. /\ IsSaving(q) /\ q.step = next /\ q.root = root /\ q.failed = bad
        /\ q.results = saving[s].results /\ q.hosts = saving[s].hosts
        /\ q.copy = saving[s].copy
    BY <2>2, <2>13 DEF IsSaving
  <2> HIDE DEF q
  <2>5. SaveHolds(s)
    BY DEF SaveInv
  <2>6. bad = 0 => ok /\ saving[s].failed = 0
    BY <2>12 DEF bad
  <2>7. ASSUME bad = 0, NEW i \in DOMAIN plan.work[s], i <= saving[s].root
        PROVE  HasAccepted(s, plan.work[s][i])
    <3>1. CASE i = saving[s].root
      BY <2>5, <2>6, <2>7, <3>1 DEF SaveHolds, CurrentRoot
    <3>2. CASE i # saving[s].root
      <4>1. i < saving[s].root
        BY <2>7, <2>12, <3>2, WorkIsSeq
      <4> QED BY <2>1, <2>5, <2>6, <2>7, <4>1 DEF SaveHolds, AtRoots
    <3> QED BY <3>1, <3>2
  <2>8. bad = 0 /\ last => IsKept(s, Current(s))
    <3>1. last => \A i \in DOMAIN plan.work[s] : i <= saving[s].root
      BY WorkIsSeq
    <3>2. Current(s) \in Hosts => CurrentService(s) \in Services
      BY <2>1, <2>5 DEF SaveHolds, AtRoots, CurrentService
    <3> QED BY <2>7, <3>1, <3>2 DEF IsKept, HasAccepted, ToSet
  <2>14. /\ next \in {"host", "upsert"} /\ (next = "host" => last /\ root = 1)
         /\ next = "upsert" => root = saving[s].root + 1
    BY DEF next, root
  <2>15. next = "upsert" /\ bad = 0 =>
             \A i \in DOMAIN plan.work[s] :
                i < root => HasAccepted(s, plan.work[s][i])
    <3>1. next = "upsert" => \A i \in DOMAIN plan.work[s] : i < root => i <= saving[s].root
      BY <2>12, <2>14, WorkIsSeq
    <3> QED BY <2>7, <3>1
  <2>16. /\ Current(s)' = Current(s)
         /\ \A h : IsKept(s, h)' = IsKept(s, h)
         /\ \A r : HasAccepted(s, r)' = HasAccepted(s, r)
    BY <2>1, <2>3, <2>4 DEF Current, CurrentService, HasAccepted, IsKept
  <2> HIDE DEF last, ok
  <2>9. SaveHolds(s)'
    BY <2>1, <2>3, <2>4, <2>5, <2>8, <2>14, <2>15, <2>16 DEF SaveHolds, AtRoots
  <2> USE DEF ok
  <2>10. ok /\ Current(s) \in Hosts =>
             \E v \in Services : <<Current(s), v, CurrentRoot(s)>> \in accepted
    BY <2>5 DEF SaveHolds, AtRoots, HasAccepted, CurrentService
  <2>11. /\ pin' \in [Hosts -> [Roots -> {"none", "PENDING", "PINNED", "FAILED"}]]
         /\ PinsAccepted'
    BY <2>1, <2>10 DEF SaveInv, SaveTypes, SavedWasAccepted, PinsAccepted, RecordHostPin
  <2> QED BY <2>1, <2>3, <2>4, <2>9, <2>11, OneSaveMoves
<1> QED BY <1>1, <1>2

LEMMA SeqOfItsOwn ==
    ASSUME NEW S, NEW z \in Seq(S)
    PROVE  z \in Seq(ToSet(z))
<1>1. Len(z) \in Nat /\ z \in [1..Len(z) -> ToSet(z)]
  BY DEF ToSet
<1> QED BY <1>1

LEMMA NextStep ==
    ASSUME NEW r, IsSaving(r), NEW step \in SaveSteps,
           NEW p, p = [r EXCEPT !.step = step]
    PROVE  /\ IsSaving(p) /\ p.step = step /\ p.root = r.root /\ p.hosts = r.hosts
           /\ p.failed = r.failed /\ p.results = r.results /\ p.copy = r.copy
BY DEF IsSaving

LEMMA AppendedResult ==
    ASSUME NEW q, q \in Seq(ToSet(q)), NEW x
    PROVE  /\ Append(q, x) \in Seq(ToSet(Append(q, x)))
           /\ \A y \in ToSet(Append(q, x)) : y = x \/ y \in ToSet(q)
<1> DEFINE S == ToSet(q) \cup {x}
<1>1. q \in Seq(S)
  BY SMT
<1> HIDE DEF S
<1>2. x \in S /\ \A y \in S : y = x \/ y \in ToSet(q)
  BY DEF S
<1>3. Append(q, x) \in Seq(S)
  BY <1>1, <1>2
<1>4. \A y \in ToSet(Append(q, x)) : y \in S
  BY <1>3 DEF ToSet
<1>5. Append(q, x) \in Seq(ToSet(Append(q, x)))
  BY <1>3, SeqOfItsOwn
<1> QED BY <1>2, <1>4, <1>5

LEMMA FinishStep ==
    ASSUME SaveInv, NEW s \in Saves, FinishHost(s)
    PROVE  SaveInv'
<1>1. CASE ~Here(Current(s))
  BY <1>1, RejectTypes DEF FinishHost, requestVars
<1>2. CASE Here(Current(s))
  <2> DEFINE x == <<Current(s), resultOfHost(s)>>
             longer == Append(saving[s].results, x)
             rest == Tail(saving[s].hosts)
             p == [saving[s] EXCEPT !.results = longer, !.hosts = rest, !.failed = 0]
             next == IF p.hosts = <<>> THEN "answer" ELSE "upsert"
             q == [p EXCEPT !.step = next]
  <2>1. /\ saving' = [saving EXCEPT ![s] = q] /\ saving[s].step = "host"
        /\ UNCHANGED <<plan, service, shown, desk, taken, accepted, pin>>
    BY <1>2 DEF FinishHost, requestVars
  <2>2. IsSaving(saving[s]) /\ DOMAIN saving = Saves /\ SaveHolds(s)
    BY DEF SaveInv, SaveTypes
  <2>3. saving[s].results \in Seq(ToSet(saving[s].results))
    BY <2>2 DEF IsSaving
  <2>4. /\ longer \in Seq(ToSet(longer))
        /\ \A y \in ToSet(longer) : y = x \/ y \in ToSet(saving[s].results)
    BY <2>3, AppendedResult
  <2> HIDE DEF longer, rest
  <2>5. p = [saving[s] EXCEPT !.results = longer, !.hosts = rest, !.failed = 0]
    OBVIOUS
  <2>6. next \in SaveSteps /\ next \in {"answer", "upsert"} /\ q = [p EXCEPT !.step = next]
    BY DEF SaveSteps
  <2> HIDE DEF p, next, q
  <2>9. /\ IsSaving(p) /\ p.results = longer /\ p.failed = 0 /\ p.root = saving[s].root
        /\ p.copy = saving[s].copy
    BY <2>2, <2>4, <2>5 DEF IsSaving
  <2>7. /\ IsSaving(q) /\ q.step = next /\ q.results = longer /\ q.failed = 0
        /\ q.root = saving[s].root /\ q.copy = saving[s].copy
    BY <2>6, <2>9, NextStep
  <2>8. saving[s].root = 1
    BY <2>1, <2>2 DEF SaveHolds
  <2>10. saving'[s] = q
    BY <2>1, <2>2
  <2>11. resultOfHost(s) = "saved" => IsKept(s, Current(s))
    <3>1. saving[s].failed \in Nat
      BY <2>2 DEF IsSaving
    <3>2. resultOfHost(s) = "saved" => saving[s].failed = 0
      BY <3>1 DEF resultOfHost
    <3> QED BY <2>1, <2>2, <3>2 DEF SaveHolds
  <2>12. x[1] = Current(s) /\ x[2] = resultOfHost(s)
    OBVIOUS
  <2> HIDE DEF x
  <2>17. saving[s].copy \in [Hosts -> Services]
    BY <2>1, <2>2 DEF SaveHolds
  <2>13. \A y \in ToSet(longer) : y[2] = "saved" => IsKept(s, y[1])
    BY <2>2, <2>4, <2>11, <2>12 DEF SaveHolds
  <2>14. \A h : IsKept(s, h)' = IsKept(s, h)
    BY <2>1 DEF IsKept
  <2>15. \A i \in DOMAIN plan'.work[s] : ~(i < 1)
    BY <2>1, WorkIsSeq
  <2>16. SaveHolds(s)'
    BY <2>6, <2>7, <2>8, <2>10, <2>13, <2>14, <2>15, <2>17
    DEF SaveHolds, AtRoots
  <2> QED BY <2>1, <2>7, <2>16, OneSaveMoves DEF SaveInv, SavedWasAccepted, PinsAccepted, SaveTypes
<1> QED BY <1>1, <1>2

LEMMA AnswerStep ==
    ASSUME SaveInv, NEW s \in Saves, AnswerSave(s)
    PROVE  SaveInv'
<1> DEFINE results == ToSet(saving[s].results)
           of(h) == CHOOSE x \in results : x[1] = h
           told == [h \in {x[1] : x \in results} |-> of(h)[2]]
<1>1. /\ saving' = [saving EXCEPT ![s] = NoSave("answered")]
      /\ shown' = [shown EXCEPT ![s] = Show(s, told)]
      /\ UNCHANGED <<plan, service, desk, taken, accepted, pin>>
  BY DEF AnswerSave, requestVars
<1>2. ASSUME NEW h \in DOMAIN told, told[h] = "saved"
      PROVE  IsKept(s, h)
  <2>1. \E x \in results : x[1] = h
    BY <1>2
  <2>2. of(h) \in results /\ of(h)[1] = h
    BY <2>1
  <2>3. of(h)[2] = "saved"
    BY <1>2
  <2> QED BY <2>2, <2>3 DEF SaveInv, SaveHolds
<1> HIDE DEF told
<1>3. DOMAIN shown = Saves /\ DOMAIN saving = Saves /\ \A t \in Saves : DOMAIN shown[t] = Hosts
  BY DEF SaveInv, SaveTypes
<1>4. shown'[s] = Show(s, told)
  BY <1>1, <1>3
<1>5. \A h \in Hosts : shown'[s][h] = "saved" => IsKept(s, h)
  BY <1>2, <1>4 DEF Show, SaveInv, SavedWasAccepted, IsKept
<1>6. ShownIsKept(s)'
  BY <1>1, <1>5 DEF ShownIsKept, IsKept
<1>7. \A t \in Saves \ {s} : saving'[t] = saving[t] /\ shown'[t] = shown[t]
  BY <1>1, <1>3
<1>8. <<>> \in Seq(ToSet(<<>>)) /\ ToSet(<<>>) = {}
  BY DEF ToSet
<1>9. IsSaving(NoSave("answered"))
  BY <1>8 DEF IsSaving, NoSave, SaveSteps
<1>10. DOMAIN shown'[s] = Hosts
  BY <1>4 DEF Show
<1>11. SaveTypes'
  BY <1>1, <1>3, <1>7, <1>9, <1>10 DEF SaveInv, SaveTypes
<1>12. saving'[s].step = "answered" /\ saving'[s].results = <<>>
  BY <1>1, <1>3 DEF NoSave
<1>13. SaveHolds(s)'
  BY <1>8, <1>12 DEF SaveHolds, AtRoots
<1> QED BY <1>1, <1>6, <1>7, <1>11, <1>13, SaveFrame DEF SaveInv, SavedWasAccepted, PinsAccepted

LEMMA ClickStep ==
    ASSUME SaveInv, NEW s \in Saves, SaveEverywhere(s)
    PROVE  SaveInv'
<1> DEFINE hs == {h \in Hosts : listed[h] = "enabled" /\ plan.work[s] # <<>>}
           next == IF hs = {} THEN "answered" ELSE "find"
<1>1. /\ shown' = [shown EXCEPT ![s] = Show(s, Told(hs, "pending"))]
      /\ saving' = [saving EXCEPT ![s].step = next] /\ saving[s].step = "idle"
      /\ desk' = [desk EXCEPT ![s] = IF plan.reachable THEN "direct"
                                     ELSE IF plan.paired THEN "relay" ELSE @]
      /\ UNCHANGED <<plan, service, pin, accepted, taken>>
  BY DEF SaveEverywhere
<1>2. /\ IsSaving(saving[s]) /\ DOMAIN saving = Saves /\ SaveHolds(s)
      /\ DOMAIN shown = Saves /\ \A t \in Saves : DOMAIN shown[t] = Hosts
  BY DEF SaveInv, SaveTypes
<1>3. next \in SaveSteps /\ next \in {"answered", "find"}
  BY DEF SaveSteps
<1>4. PICK q : q = [saving[s] EXCEPT !.step = next]
  OBVIOUS
<1>5. saving'[s] = q
  BY <1>1, <1>2, <1>4
<1> HIDE DEF hs, next
<1>6. /\ IsSaving(q) /\ q.step = next /\ q.root = saving[s].root
      /\ q.failed = saving[s].failed /\ q.results = saving[s].results
  BY <1>2, <1>3, <1>4, NextStep
<1>7. saving[s].root = 1 /\ saving[s].failed = 0 /\ saving[s].results = <<>> /\ ToSet(<<>>) = {}
  BY <1>1, <1>2 DEF SaveHolds, ToSet
<1>8. SaveHolds(s)'
  BY <1>3, <1>5, <1>6, <1>7 DEF SaveHolds, AtRoots
<1>9. \A h \in Hosts : shown'[s][h] = "saved" => shown[s][h] = "saved"
  BY <1>1, <1>2 DEF Show, Told
<1>10. ShownIsKept(s)'
  BY <1>1, <1>9 DEF SaveInv, SavedWasAccepted, ShownIsKept, IsKept
<1>11. /\ \A t \in Saves \ {s} : saving'[t] = saving[t] /\ shown'[t] = shown[t]
       /\ DOMAIN saving' = Saves /\ DOMAIN shown' = Saves
       /\ \A t \in Saves : DOMAIN shown'[t] = Hosts
  BY <1>1, <1>2 DEF Show
<1>12. \A t \in Saves : IsSaving(saving'[t])
  BY <1>5, <1>6, <1>11 DEF SaveInv, SaveTypes
<1>13. DOMAIN desk' = Saves /\ \A t \in Saves : desk'[t] = "saved" => desk[t] = "saved"
  BY <1>1 DEF SaveInv, SaveTypes
<1>14. SaveTypes'
  BY <1>1, <1>11, <1>12, <1>13 DEF SaveInv, SaveTypes
<1> QED BY <1>1, <1>8, <1>10, <1>11, <1>13, <1>14, SaveFrame DEF SaveInv, SavedWasAccepted, PinsAccepted

LEMMA DesktopStep ==
    ASSUME SaveInv, NEW s \in Saves, ShareWork(s) \/ QueueWorkToRelay(s)
    PROVE  SaveInv'
<1> DEFINE Route(took, route, outcome) ==
             /\ UNCHANGED <<plan, service, pin, accepted, saving, shown>>
             /\ taken' = IF took THEN [taken EXCEPT ![s] = @ \cup {route}] ELSE taken
             /\ desk' = [desk EXCEPT ![s] = outcome]
             /\ outcome = "saved" => took
<1>3. \E took \in BOOLEAN : \E route, outcome : Route(took, route, outcome)
  <2>1. CASE ShareWork(s)
    <3>1. PICK took \in BOOLEAN, answered \in BOOLEAN :
            /\ taken' = IF took THEN [taken EXCEPT ![s] = @ \cup {"direct"}] ELSE taken
            /\ desk' = [desk EXCEPT ![s] =
                  IF took /\ answered THEN "saved"
                  ELSE IF shouldTryFallbackRoute(answered) THEN "relay" ELSE "error"]
      BY <2>1 DEF ShareWork
    <3>2. UNCHANGED <<plan, service, pin, accepted, saving, shown>>
      BY <2>1 DEF ShareWork, deskVars
    <3>3. Route(took, "direct", IF took /\ answered THEN "saved"
                  ELSE IF shouldTryFallbackRoute(answered) THEN "relay" ELSE "error")
      BY <3>1, <3>2
    <3> HIDE DEF Route
    <3> QED BY <3>3
  <2>2. CASE QueueWorkToRelay(s)
    <3>1. PICK took \in BOOLEAN, answered \in BOOLEAN :
            /\ taken' = IF took THEN [taken EXCEPT ![s] = @ \cup {"relay"}] ELSE taken
            /\ desk' = [desk EXCEPT ![s] = IF took /\ answered THEN "saved" ELSE "error"]
      BY <2>2 DEF QueueWorkToRelay
    <3>2. UNCHANGED <<plan, service, pin, accepted, saving, shown>>
      BY <2>2 DEF QueueWorkToRelay, deskVars
    <3>3. Route(took, "relay", IF took /\ answered THEN "saved" ELSE "error")
      BY <3>1, <3>2
    <3> HIDE DEF Route
    <3> QED BY <3>3
  <2> QED BY <2>1, <2>2
<1>1. /\ UNCHANGED <<plan, service, pin, accepted, saving, shown>>
      /\ DOMAIN desk' = Saves /\ DOMAIN taken' = Saves
      /\ \A t \in Saves : desk'[t] = "saved" => taken'[t] # {}
  <2>1. PICK took \in BOOLEAN : \E route, outcome : Route(took, route, outcome)
    BY <1>3
  <2>2. /\ DOMAIN desk = Saves /\ DOMAIN taken = Saves
        /\ \A t \in Saves : desk[t] = "saved" => taken[t] # {}
    BY DEF SaveInv, SaveTypes, SavedWasAccepted
  <2> QED BY <2>1, <2>2
<1>2. SaveTypes' /\ \A t \in Saves : SaveHolds(t)'
  BY <1>1 DEF SaveInv, SaveTypes, SaveHolds, Current, CurrentRoot, CurrentService,
               HasAccepted, IsKept, IsSaving
<1> QED BY <1>1, <1>2 DEF SaveInv, SavedWasAccepted

LEMMA EditStep ==
    ASSUME SaveInv, NEW h \in Hosts, EditHost(h)
    PROVE  SaveInv'
<1>1. /\ UNCHANGED <<plan, accepted, saving, shown, desk, taken>>
      /\ pin' \in [Hosts -> [Roots -> {"none", "PENDING", "PINNED", "FAILED"}]]
      /\ \A g \in Hosts, r \in Roots : pin'[g][r] = "PINNED" => pin[g][r] = "PINNED"
  <2>1. pin \in [Hosts -> [Roots -> {"none", "PENDING", "PINNED", "FAILED"}]]
    BY DEF SaveInv, SaveTypes
  <2>2. \/ pin' = pin
        \/ pin' = [pin EXCEPT ![h] = [r \in Roots |-> "none"]]
    BY DEF EditHost
  <2>3. UNCHANGED <<plan, accepted, saving, shown, desk, taken>>
    BY DEF EditHost
  <2> QED BY <2>1, <2>2, <2>3
<1>3. service' \in [Hosts -> Services]
  BY DEF EditHost, SaveInv, SaveTypes
<1>2. SaveTypes' /\ \A t \in Saves : SaveHolds(t)'
  BY <1>1, <1>3 DEF SaveInv, SaveTypes, SaveHolds, Current, CurrentRoot, CurrentService,
                    HasAccepted, IsKept, IsSaving
<1> QED BY <1>1, <1>2 DEF SaveInv, SavedWasAccepted

LEMMA SaveInitHolds == SaveTargetsInit => SaveInv
<1> SUFFICES ASSUME SaveTargetsInit PROVE SaveInv
  OBVIOUS
<1>1. <<>> \in Seq(ToSet(<<>>)) /\ ToSet(<<>>) = {}
  BY DEF ToSet
<1>2. IsSaving(NoSave("idle"))
  BY <1>1 DEF IsSaving, NoSave, SaveSteps
<1>3. plan.work \in [Saves -> Seq(Roots)] /\ plan.serves \in [Hosts -> Services]
  BY SaveTargetsAssumption DEF SaveTargetsInit, Plan
<1>4. SaveTypes
  BY <1>2, <1>3 DEF SaveTargetsInit, SaveTypes
<1>5. \A s \in Saves : SaveHolds(s)
  BY <1>1 DEF SaveTargetsInit, SaveHolds, NoSave, AtRoots
<1> QED BY <1>4, <1>5 DEF SaveInv, SavedWasAccepted, SaveTargetsInit

LEMMA SaveInvariance == SaveTargetsSpec => []SaveInv
<1>1. ASSUME SaveInv, [SaveTargetsNext]_saveVars PROVE SaveInv'
  <2>1. CASE \E s \in Saves : SaveEverywhere(s) \/ ShareWork(s) \/ QueueWorkToRelay(s)
    BY <1>1, <2>1, ClickStep, DesktopStep
  <2>2. ASSUME NEW s \in Saves, SaveStep(s) PROVE SaveInv'
    <3>1. CASE DieInSave(s)
      BY <1>1, <3>1, RejectTypes DEF DieInSave, requestVars
    <3> QED BY <1>1, <2>2, <3>1, FindStep, UpsertStep, CallStep, OutcomeStep, FinishStep,
                AnswerStep DEF SaveStep
  <2>3. CASE \E h \in Hosts : EditHost(h)
    BY <1>1, <2>3, EditStep
  <2>4. CASE RefetchHosts \/ UNCHANGED saveVars
    <3>1. UNCHANGED <<plan, service, pin, accepted, saving, shown, desk, taken>>
      BY <2>4 DEF RefetchHosts, saveVars
    <3>2. SaveTypes' /\ \A t \in Saves : SaveHolds(t)'
      BY <1>1, <3>1 DEF SaveInv, SaveTypes, SaveHolds, Current, CurrentRoot, CurrentService,
               HasAccepted, IsKept, IsSaving
    <3> QED BY <1>1, <3>1, <3>2 DEF SaveInv, SavedWasAccepted
  <2> QED BY <1>1, <2>1, <2>2, <2>3, <2>4 DEF SaveTargetsNext
<1> QED BY <1>1, SaveInitHolds, PTL DEF SaveTargetsSpec

\* A root is recorded as pinned on a host only if a service that the host has
\* led to accepted it, and a work is shown as saved there only if one such
\* service accepted all of its roots, for any number of hosts, services, roots
\* and overlapping saves and edits (pinWorkToHosts, upsertPinHost); a desktop
\* save succeeds only if the app or the relay has the work
\* (saveWorkToDesktop).
THEOREM SavedWasAcceptedHolds == SaveTargetsSpec => []SavedWasAccepted
<1>1. SaveInv => SavedWasAccepted
  BY DEF SaveInv
<1> QED BY <1>1, SaveInvariance, PTL

-----------------------------------------------------------------------------
(* Requests that are under way.                                            *)

\* The request of a save is between the two rows of this root on this host.
AtWork(s, h, r) ==
    /\ saving[s].step \in {"call", "pinned", "failed"}
    /\ Current(s) = h /\ CurrentRoot(s) = r

PendingInv ==
    /\ spent \in Bounds /\ DOMAIN host = Hosts
    /\ spent.deaths = 0 => \A h \in Hosts, r \in Roots : pin[h][r] = "PENDING" =>
          Here(h) /\ \E s \in Saves : AtWork(s, h, r)

LEMMA NobodyDies ==
    ASSUME PendingInv, spent' = spent \/ Spend("mishaps") \/ Spend("edits")
    PROVE  spent' \in Bounds /\ spent'.deaths = spent.deaths
BY DEF PendingInv, Bounds, Spend

\* A step of one save that leaves the others alone.
LEMMA PendingFrame ==
    ASSUME PendingInv, NEW s \in Saves, spent' \in Bounds, spent'.deaths = spent.deaths,
           UNCHANGED <<plan, host>>, \A t \in Saves \ {s} : saving'[t] = saving[t],
           \A h \in Hosts, r \in Roots : pin'[h][r] = "PENDING" =>
              \/ Here(h) /\ AtWork(s, h, r)'
              \/ pin[h][r] = "PENDING" /\ ~(Here(h) /\ AtWork(s, h, r))
    PROVE  PendingInv'
<1>1. \A t \in Saves \ {s} : \A h, r : AtWork(t, h, r)' <=> AtWork(t, h, r)
  BY DEF AtWork, Current, CurrentRoot
<1>2. \A h : Here(h)' <=> Here(h)
  BY DEF Here
<1>3. ASSUME spent'.deaths = 0, NEW h \in Hosts, NEW r \in Roots, pin'[h][r] = "PENDING"
      PROVE  Here(h)' /\ \E t \in Saves : AtWork(t, h, r)'
  <2>1. CASE Here(h) /\ AtWork(s, h, r)'
    BY <1>2, <2>1
  <2>2. CASE pin[h][r] = "PENDING" /\ ~(Here(h) /\ AtWork(s, h, r))
    <3>1. Here(h) /\ \E t \in Saves : AtWork(t, h, r)
      BY <1>3, <2>2 DEF PendingInv
    <3>2. \E t \in Saves \ {s} : AtWork(t, h, r)
      BY <2>2, <3>1
    <3> QED BY <1>1, <1>2, <3>1, <3>2
  <2> QED BY <1>3, <2>1, <2>2
<1> QED BY <1>3 DEF PendingInv

LEMMA PendingSaveStep ==
    ASSUME SaveInv, PendingInv, NEW s \in Saves, SaveStep(s)
    PROVE  PendingInv'
<1> USE DEF requestVars
<1>1. /\ DOMAIN saving = Saves /\ IsSaving(saving[s])
      /\ pin \in [Hosts -> [Roots -> {"none", "PENDING", "PINNED", "FAILED"}]]
  BY DEF SaveInv, SaveTypes
<1>2. UNCHANGED <<plan, host>> /\ \A t \in Saves \ {s} : saving'[t] = saving[t]
  BY <1>1 DEF SaveStep, FindHosts, UpsertPending, CallHost, RecordOutcome, FinishHost,
              AnswerSave, DieInSave, RejectSave
<1>3. CASE FindHosts(s) \/ FinishHost(s) \/ AnswerSave(s)
  <2>1. saving[s].step \notin {"call", "pinned", "failed"} /\ UNCHANGED <<spent, pin>>
    BY <1>3 DEF FindHosts, FinishHost, AnswerSave
  <2> QED BY <1>2, <2>1, PendingFrame DEF AtWork, PendingInv
<1>4. CASE UpsertPending(s)
  <2>1. saving[s].step = "upsert" /\ UNCHANGED spent
    BY <1>4 DEF UpsertPending
  <2>2. CASE Here(Current(s))
    <3>1. /\ pin' = [pin EXCEPT ![Current(s)][CurrentRoot(s)] = "PENDING"]
          /\ saving' = [saving EXCEPT ![s].step = "call"]
      BY <1>4, <2>2 DEF UpsertPending
    <3>2. PICK q : q = [saving[s] EXCEPT !.step = "call"]
      OBVIOUS
    <3>3. /\ saving'[s] = q /\ q.step = "call" /\ q.hosts = saving[s].hosts
          /\ q.root = saving[s].root
      BY <1>1, <3>1, <3>2 DEF IsSaving
    <3>4. AtWork(s, Current(s), CurrentRoot(s))'
      BY <1>2, <3>3 DEF AtWork, Current, CurrentRoot
    <3>5. Current(s)' = Current(s) /\ CurrentRoot(s)' = CurrentRoot(s)
      BY <1>2, <3>3 DEF Current, CurrentRoot
    <3>6. ASSUME NEW h \in Hosts, NEW r \in Roots, pin'[h][r] = "PENDING"
          PROVE  pin[h][r] = "PENDING" \/ (h = Current(s) /\ r = CurrentRoot(s))
      BY <1>1, <3>1, <3>6
    <3>7. \A h, r : ~AtWork(s, h, r)
      BY <2>1 DEF AtWork
    <3> QED BY <1>2, <2>1, <2>2, <3>4, <3>5, <3>6, <3>7, PendingFrame DEF AtWork, PendingInv
  <2>3. CASE ~Here(Current(s))
    BY <1>2, <1>4, <2>1, <2>3, PendingFrame DEF AtWork, PendingInv, UpsertPending
  <2> QED BY <2>2, <2>3
<1>5. CASE CallHost(s)
  <2>1. PICK told \in BOOLEAN :
          /\ saving' = [saving EXCEPT ![s].step = IF told THEN "pinned" ELSE "failed"]
          /\ spent' = spent \/ Spend("mishaps")
    BY <1>5 DEF CallHost
  <2>2. pin' = pin /\ saving[s].step = "call"
    BY <1>5 DEF CallHost
  <2>3. /\ saving'[s].step \in {"pinned", "failed"} /\ saving'[s].hosts = saving[s].hosts
        /\ saving'[s].root = saving[s].root
    BY <1>1, <2>1 DEF IsSaving
  <2>4. \A h, r : AtWork(s, h, r) => AtWork(s, h, r)'
    BY <1>2, <2>3 DEF AtWork, Current, CurrentRoot
  <2> QED BY <1>2, <2>1, <2>2, <2>4, NobodyDies, PendingFrame
<1>6. CASE RecordOutcome(s)
  <2>1. spent' = spent
    BY <1>6 DEF RecordOutcome
  <2>2. CASE Here(Current(s))
    <3>1. /\ pin' = RecordHostPin(s, IF saving[s].step = "pinned" THEN "PINNED" ELSE "FAILED")
      BY <1>6, <2>2 DEF RecordOutcome
    <3>2. ASSUME NEW h \in Hosts, NEW r \in Roots, pin'[h][r] = "PENDING"
          PROVE  pin[h][r] = "PENDING" /\ ~(h = Current(s) /\ r = CurrentRoot(s))
      BY <1>1, <3>1, <3>2 DEF RecordHostPin
    <3> QED BY <1>2, <2>1, <3>2, PendingFrame DEF AtWork, PendingInv
  <2>3. CASE ~Here(Current(s))
    BY <1>2, <1>6, <2>1, <2>3, PendingFrame DEF AtWork, PendingInv, RecordOutcome
  <2> QED BY <2>2, <2>3
<1>7. CASE DieInSave(s)
  <2>1. spent' \in Bounds /\ spent'.deaths # 0 /\ host' = host
    BY <1>7 DEF DieInSave, Spend, PendingInv, Bounds
  <2> QED BY <2>1 DEF PendingInv
<1> QED BY <1>3, <1>4, <1>5, <1>6, <1>7 DEF SaveStep

\* Steps that leave the saves alone: only a host that goes takes rows along.
LEMMA PendingOtherStep ==
    ASSUME PendingInv, spent' \in Bounds, spent'.deaths = spent.deaths,
           plan' = plan, DOMAIN host' = Hosts,
           \A s \in Saves : \A h, r : AtWork(s, h, r) => AtWork(s, h, r)',
           \A h \in Hosts, r \in Roots :
              pin'[h][r] = "PENDING" => pin[h][r] = "PENDING" /\ (Here(h) => Here(h)')
    PROVE  PendingInv'
BY DEF PendingInv

LEMMA PendingEditStep ==
    ASSUME SaveInv, PendingInv, NEW h \in Hosts, EditHost(h)
    PROVE  PendingInv'
<1>1. DOMAIN host = Hosts /\ pin \in [Hosts -> [Roots -> {"none", "PENDING", "PINNED", "FAILED"}]]
  BY DEF SaveInv, SaveTypes, PendingInv
<1>2. spent' \in Bounds /\ spent'.deaths = spent.deaths
  BY NobodyDies DEF EditHost
<1>3. plan' = plan /\ saving' = saving /\ DOMAIN host' = Hosts
  BY <1>1 DEF EditHost
<1>4. \A s \in Saves : \A g, r : AtWork(s, g, r) => AtWork(s, g, r)'
  BY <1>3 DEF AtWork, Current, CurrentRoot
<1>5. ASSUME NEW g \in Hosts, NEW r \in Roots, pin'[g][r] = "PENDING"
      PROVE  pin[g][r] = "PENDING" /\ (Here(g) => Here(g)')
  BY <1>1, <1>5 DEF EditHost, Here
<1> QED BY <1>2, <1>3, <1>4, <1>5, PendingOtherStep

LEMMA PendingClickStep ==
    ASSUME SaveInv, PendingInv, NEW s \in Saves, SaveEverywhere(s)
    PROVE  PendingInv'
<1>1. /\ saving[s].step = "idle" /\ UNCHANGED <<plan, spent, host, pin>>
      /\ \A t \in Saves \ {s} : saving'[t] = saving[t]
  BY DEF SaveEverywhere, SaveInv, SaveTypes
<1>2. \A h, r : ~AtWork(s, h, r)
  BY <1>1 DEF AtWork
<1> QED BY <1>1, <1>2, PendingFrame DEF PendingInv

LEMMA PendingDesktopStep ==
    ASSUME PendingInv, NEW s \in Saves, ShareWork(s) \/ QueueWorkToRelay(s)
    PROVE  PendingInv'
<1>1. spent' = spent \/ Spend("mishaps")
  BY DEF ShareWork, QueueWorkToRelay
<1>2. UNCHANGED <<plan, host, pin, saving>>
  BY DEF ShareWork, QueueWorkToRelay, deskVars
<1> QED BY <1>1, <1>2, NobodyDies, PendingOtherStep
        DEF PendingInv, AtWork, Current, CurrentRoot, Here

LEMMA PendingInvariance == SaveTargetsSpec => []PendingInv
<1>1. SaveTargetsInit => PendingInv
  <2>1. ASSUME SaveTargetsInit PROVE PendingInv
    <3>1. spent \in Bounds
      BY <2>1 DEF SaveTargetsInit, Bounds
    <3> QED BY <2>1, <3>1 DEF SaveTargetsInit, PendingInv
  <2> QED BY <2>1
<1>2. ASSUME SaveInv, PendingInv, [SaveTargetsNext]_saveVars PROVE PendingInv'
  <2>1. CASE RefetchHosts \/ UNCHANGED saveVars
    <3>1. UNCHANGED <<plan, spent, host, pin, saving>>
      BY <2>1 DEF RefetchHosts, saveVars
    <3> QED BY <1>2, <3>1 DEF PendingInv, AtWork, Current, CurrentRoot, Here
  <2> QED BY <1>2, <2>1, PendingClickStep, PendingSaveStep, PendingDesktopStep,
             PendingEditStep DEF SaveTargetsNext
<1> QED BY <1>1, <1>2, SaveInvariance, PTL DEF SaveTargetsSpec

\* As long as the server lives, a work that the menu shows as being pinned on
\* a host has a request that is about to record the outcome of that very root
\* (getPinnedWorkStates, pinWorkToHosts).
THEOREM PendingIsUnderWayHolds == SaveTargetsSpec => []PendingIsUnderWay
<1>1. ASSUME SaveInv, PendingInv PROVE PendingIsUnderWay
  <2> SUFFICES ASSUME spent.deaths = 0, NEW s \in Saves, NEW h \in Hosts,
                      WorkState(s, h) = "PENDING"
               PROVE  \E t \in Saves, r \in ToSet(plan.work[s]) :
                          pin[h][r] = "PENDING" /\ AtWork(t, h, r)
    BY DEF PendingIsUnderWay, AtWork
  <2>1. PICK r \in ToSet(plan.work[s]) : pin[h][r] = "PENDING"
    <3> DEFINE statuses == {pin[h][r] : r \in ToSet(plan.work[s])} \ {"none"}
    <3>1. WorkState(s, h) = CASE statuses = {} -> "none"
                              [] statuses = {"PINNED"} -> "PINNED"
                              [] "PENDING" \in statuses -> "PENDING"
                              [] statuses = {"FAILED"} -> "FAILED"
                              [] OTHER -> "PARTIAL"
      BY DEF WorkState
    <3> HIDE DEF statuses
    <3>2. "PENDING" \in statuses
      BY <3>1
    <3> QED BY <3>2 DEF statuses
  <2>2. r \in Roots
    BY <1>1, WorkIsSeq DEF ToSet
  <2> QED BY <1>1, <2>1, <2>2 DEF PendingInv
<1> QED BY <1>1, SaveInvariance, PendingInvariance, PTL
=============================================================================
