------------------------- MODULE WorkerCycleProofs -------------------------
(***************************************************************************)
(* A process in the middle of its cycle is shown as RUNNING, for any       *)
(* number of daemons, browsers, jobs, deaths and faults.                   *)
(*                                                                         *)
(* A daemon has a heartbeat row to itself.  The recovery calls share one;  *)
(* what keeps one of them from ending its cycle in that row while another  *)
(* is in the middle of its own is the watchdog lock, which is held from    *)
(* the second look to the end of the cycle.                                *)
(***************************************************************************)
EXTENDS WorkerCycle, FiniteSetTheorems, TLAPS

Procs == Daemons \cup Pages

\* Where a recovery call has the watchdog lock.
GuardedSteps == CycleSteps \cup {"recheck", "recover", "recovering", "begin"}

GuardedHold == \A p \in Pages : proc[p].at \in GuardedSteps => watchdog = p

CycleInv == CycleTypeOK /\ GuardedHold /\ WorkingIsShown

\* Sets of jobs with their attempts, and of queries.
Claims == SUBSET (Jobs \X Nat)
Seen == SUBSET Queries

ProcRecord ==
    [at : CycleSteps \cup {"off", "away", "asleep", "begin", "knock",
                           "recheck", "recover", "recovering"},
     batch : Claims, list : Claims, unread : Seen, found : Seen, room : 0..Limit,
     left : Claims, loose : BOOLEAN, stopping : BOOLEAN]

LEMMA ClaimSets ==
    /\ {} \in Claims
    /\ \A a \in Claims : \A x : a \ {x} \in Claims
    /\ \A a \in Claims, b \in Claims : a \cup b \in Claims
    /\ \A a \in Claims : \A c \in a : c \in Jobs \X Nat /\ c[1] \in Jobs /\ c[2] \in Nat
BY DEF Claims

LEMMA SeenSets ==
    /\ {} \in Seen /\ Queries \in Seen
    /\ \A a \in Seen : \A x : a \ {x} \in Seen
    /\ \A a \in Seen, x \in Queries : a \cup {x} \in Seen
BY DEF Seen

-----------------------------------------------------------------------------
\* Two processes with one heartbeat row are recovery calls.
LEMMA SharedRow ==
    ASSUME NEW p \in Procs, NEW q \in Procs, p # q, Key(p) = Key(q)
    PROVE  p \in Pages /\ q \in Pages
BY CycleAssumption DEF Procs, Key

LEMMA KeysAreRows == \A p \in Procs : Key(p) \in WorkerKeys
BY DEF Procs, Key, WorkerKeys

LEMMA InitHolds == CycleInit => CycleInv
<1> SUFFICES ASSUME CycleInit PROVE CycleInv
  OBVIOUS
<1>1. \A p \in Procs : proc[p] \in {Process("off"), Process("away")}
  BY DEF CycleInit, Procs
<1>2. \A p \in Procs : proc[p].at \in {"off", "away"}
  BY <1>1 DEF Process
<1>3. proc \in [Procs -> ProcRecord]
  <2>1. 0 \in 0..Limit
    BY CycleAssumption
  <2>2. Process("off") \in ProcRecord /\ Process("away") \in ProcRecord
    BY <2>1, ClaimSets, SeenSets DEF Process, ProcRecord
  <2>3. proc = [p \in Procs |-> Process(IF p \in Daemons THEN "off" ELSE "away")]
    BY DEF CycleInit, Procs
  <2> QED BY <2>2, <2>3
<1>4. CycleTypeOK
  BY <1>3 DEF CycleInit, CycleTypeOK, Procs, ProcRecord, Claims, Seen, WorkerKeys
<1> QED BY <1>2, <1>4 DEF CycleInv, GuardedHold, WorkingIsShown, GuardedSteps,
           CycleSteps, InCycle, Procs

\* A step of p that beats with nothing but RUNNING while p or another call is
\* in its cycle, and leaves the places of the others alone.
LEMMA OwnStep ==
    ASSUME CycleInv, CycleTypeOK', NEW p \in Procs,
           \A q \in Procs \ {p} : proc'[q] = proc[q],
           UNCHANGED beat \/ \E status : beat' = [beat EXCEPT ![Key(p)] = status],
           UNCHANGED beat \/ proc[p].at \in GuardedSteps \/ p \in Daemons
              \/ beat'[Key(p)] = "RUNNING",
           InCycle(p)' => beat'[Key(p)] = "RUNNING" \/ proc'[p].stopping,
           UNCHANGED watchdog \/ watchdog = p \/ watchdog = Nobody,
           p \in Pages /\ proc'[p].at \in GuardedSteps => watchdog' = p
    PROVE  CycleInv'
<1>1. ASSUME NEW q \in Pages, q # p, proc'[q].at \in GuardedSteps
      PROVE  watchdog' = q
  <2>1. watchdog = q /\ q # Nobody
    BY <1>1, CycleAssumption DEF CycleInv, GuardedHold, Procs
  <2> QED BY <1>1, <2>1
<1>2. GuardedHold'
  BY <1>1 DEF GuardedHold
<1>3. ASSUME NEW q \in Procs, q # p, InCycle(q)'
      PROVE  beat'[Key(q)] = "RUNNING" \/ proc'[q].stopping
  <2>1. InCycle(q) /\ (beat[Key(q)] = "RUNNING" \/ proc[q].stopping)
    BY <1>3 DEF CycleInv, WorkingIsShown, InCycle, Procs
  <2>2. CASE Key(p) # Key(q)
    BY <1>3, <2>1, <2>2, KeysAreRows DEF CycleInv, CycleTypeOK
  <2>3. CASE Key(p) = Key(q)
    <3>1. p \in Pages /\ q \in Pages /\ p \notin Daemons
      BY <1>3, <2>3, SharedRow, CycleAssumption
    <3>2. watchdog = q
      BY <2>1, <3>1 DEF CycleInv, GuardedHold, GuardedSteps, InCycle
    <3>3. proc[p].at \notin GuardedSteps
      BY <1>3, <3>1, <3>2 DEF CycleInv, GuardedHold
    <3>4. UNCHANGED beat \/ beat'[Key(q)] = "RUNNING"
      BY <2>3, <3>1, <3>3
    <3> QED BY <1>3, <2>1, <3>4
  <2> QED BY <2>2, <2>3
<1>4. WorkingIsShown'
  BY <1>3 DEF WorkingIsShown, Procs
<1> QED BY <1>2, <1>4 DEF CycleInv


-----------------------------------------------------------------------------
(* Types.                                                                  *)

LEMMA TypeParts ==
    ASSUME CycleTypeOK
    PROVE  /\ proc \in [Procs -> ProcRecord]
           /\ \A p \in Procs, status \in {"STARTING", "IDLE", "RUNNING", "ERROR", "STOPPED"} :
                 Beat(p, status) =>
                    /\ beat' \in [WorkerKeys -> {"none", "STARTING", "IDLE", "RUNNING",
                                                 "ERROR", "STOPPED"}]
                    /\ latest' \in WorkerKeys \cup {Nobody} /\ fresh' \in BOOLEAN
<1>1. proc \in [Procs -> ProcRecord]
  BY DEF CycleTypeOK, Procs, ProcRecord, Claims, Seen
<1>2. ASSUME NEW p \in Procs,
             NEW status \in {"STARTING", "IDLE", "RUNNING", "ERROR", "STOPPED"},
             Beat(p, status)
      PROVE  /\ beat' \in [WorkerKeys -> {"none", "STARTING", "IDLE", "RUNNING",
                                          "ERROR", "STOPPED"}]
             /\ latest' \in WorkerKeys \cup {Nobody} /\ fresh' \in BOOLEAN
  BY <1>2, KeysAreRows DEF CycleTypeOK, Beat
<1> QED BY <1>1, <1>2

JobRecord == [status : {"waiting", "delayed", "running", "settled"}, tries : Nat,
              stale : BOOLEAN]

LEMMA FieldTypes ==
    ASSUME NEW r \in ProcRecord, NEW b \in BOOLEAN
    PROVE  /\ [r EXCEPT !.loose = b] \in ProcRecord
           /\ [r EXCEPT !.at = "error", !.loose = b] \in ProcRecord
           /\ [r EXCEPT !.stopping = b] \in ProcRecord
           /\ \A batch \in Claims, room \in 0..Limit, at \in {"working", "finishing"} :
                 [r EXCEPT !.batch = batch, !.room = room, !.at = at] \in ProcRecord
<1>1. r = [at |-> r.at, batch |-> r.batch, list |-> r.list, unread |-> r.unread,
           found |-> r.found, room |-> r.room, left |-> r.left,
           loose |-> r.loose, stopping |-> r.stopping]
  BY DEF ProcRecord
<1>2. [r EXCEPT !.loose = b] \in ProcRecord
  BY DEF ProcRecord
<1>3. [r EXCEPT !.stopping = b] \in ProcRecord
  BY DEF ProcRecord
<1>4. [r EXCEPT !.at = "error", !.loose = b] \in ProcRecord
  <2>1. [r EXCEPT !.at = "error", !.loose = b]
          = [[r EXCEPT !.loose = b] EXCEPT !.at = "error"]
    BY <1>1
  <2>2. \A q \in ProcRecord : [q EXCEPT !.at = "error"] \in ProcRecord
    BY DEF ProcRecord, CycleSteps
  <2> QED BY <1>2, <2>1, <2>2
<1>5. ASSUME NEW batch \in Claims, NEW room \in 0..Limit,
             NEW at \in {"working", "finishing"}
      PROVE  [r EXCEPT !.batch = batch, !.room = room, !.at = at] \in ProcRecord
  <2>1. [r EXCEPT !.batch = batch, !.room = room, !.at = at]
          = [[[r EXCEPT !.batch = batch] EXCEPT !.room = room] EXCEPT !.at = at]
    BY <1>1
  <2>2. \A q \in ProcRecord : /\ [q EXCEPT !.at = at] \in ProcRecord
                              /\ [q EXCEPT !.batch = batch] \in ProcRecord
                              /\ [q EXCEPT !.room = room] \in ProcRecord
    BY DEF ProcRecord, CycleSteps
  <2> QED BY <2>1, <2>2
<1> QED BY <1>2, <1>3, <1>4, <1>5

LEMMA RecoveredType ==
    ASSUME NEW r \in JobRecord, NEW tries
    PROVE  RecoveredJob(r, tries) \in JobRecord
<1>1. \A status \in {"waiting", "settled"}, b \in BOOLEAN :
        [r EXCEPT !.status = status, !.stale = b] \in JobRecord
  BY DEF JobRecord
<1>2. FALSE \in BOOLEAN
  OBVIOUS
<1>3. \A status \in {"waiting", "settled"} :
        [r EXCEPT !.status = status, !.stale = FALSE] \in JobRecord
  BY <1>1, <1>2, Zenon
<1>4. (IF tries >= MaxTries THEN "settled" ELSE "waiting") \in {"waiting", "settled"}
  OBVIOUS
<1> QED BY <1>3, <1>4, Zenon DEF RecoveredJob

LEMMA ClaimedType ==
    ASSUME NEW r \in JobRecord
    PROVE  [r EXCEPT !.status = "running", !.tries = @ + 1] \in JobRecord
<1>1. [r EXCEPT !.status = "running", !.tries = @ + 1]
        = [[r EXCEPT !.tries = r.tries + 1] EXCEPT !.status = "running"]
  BY DEF JobRecord
<1>2. \A q \in JobRecord, n \in Nat : /\ [q EXCEPT !.tries = n] \in JobRecord
                                      /\ [q EXCEPT !.status = "running"] \in JobRecord
  BY DEF JobRecord
<1>3. r.tries + 1 \in Nat
  BY DEF JobRecord
<1> QED BY <1>1, <1>2, <1>3

\* A batch fits in the room that is left.
LEMMA BatchFits ==
    ASSUME CycleTypeOK, NEW p \in Procs, NEW waiting \in SUBSET Jobs,
           NEW batch \in SUBSET waiting, Cardinality(batch) <= proc[p].room
    PROVE  proc[p].room - Cardinality(batch) \in 0..Limit
<1>1. IsFiniteSet(batch)
  BY CycleAssumption, FS_Subset
<1>2. Cardinality(batch) \in Nat
  BY <1>1, FS_CardinalityType
<1>3. proc[p].room \in 0..Limit /\ Limit \in Nat
  BY TypeParts, CycleAssumption DEF ProcRecord
<1> QED BY <1>2, <1>3

LEMMA TakeBatchType ==
    ASSUME CycleTypeOK, NEW p \in Procs, TakeBatch(p)
    PROVE  CycleTypeOK'
<1> DEFINE fallow == [j \in Jobs |-> IF job[j].status = "running" /\ job[j].stale
                                     THEN RecoveredJob(job[j], job[j].tries)
                                     ELSE job[j]]
           waiting == {j \in Jobs : fallow[j].status = "waiting"}
<1>1. fallow \in [Jobs -> JobRecord]
  BY RecoveredType DEF CycleTypeOK, JobRecord
<1>2. PICK batch \in SUBSET waiting :
        /\ Cardinality(batch) <= proc[p].room
        /\ job' = [j \in Jobs |->
              IF j \in batch
              THEN [fallow[j] EXCEPT !.status = "running", !.tries = @ + 1]
              ELSE fallow[j]]
        /\ proc' = [proc EXCEPT
              ![p].batch = {<<j, fallow[j].tries>> : j \in batch},
              ![p].room = @ - Cardinality(batch),
              ![p].at = IF @ = "first" THEN "working" ELSE "finishing"]
  BY DEF TakeBatch, IsBatch
<1>3. job' \in [Jobs -> JobRecord]
  <2>1. \A j \in Jobs : [fallow[j] EXCEPT !.status = "running", !.tries = @ + 1]
                           \in JobRecord
    BY <1>1, ClaimedType
  <2> HIDE DEF fallow
  <2> QED BY <1>1, <1>2, <2>1
<1>4. proc[p].room - Cardinality(batch) \in 0..Limit
  BY <1>2, BatchFits
<1>5. proc' \in [Procs -> ProcRecord]
  <2>1. DEFINE claimed == {<<j, fallow[j].tries>> : j \in batch}
               taken == [proc[p] EXCEPT !.batch = claimed,
              !.room = @ - Cardinality(batch),
              !.at = IF @ = "first" THEN "working" ELSE "finishing"]
  <2>2. proc' = [proc EXCEPT ![p] = taken]
    BY <1>2, TypeParts DEF ProcRecord
  <2>3. \A room \in 0..Limit, at \in {"working", "finishing"} :
          [proc[p] EXCEPT !.batch = claimed, !.room = room, !.at = at] \in ProcRecord
    <3>1. claimed \in Claims
      <4>1. \A j \in batch : j \in Jobs /\ fallow[j].tries \in Nat
        BY <1>1, <1>2 DEF JobRecord
      <4> HIDE DEF fallow
      <4> QED BY <4>1 DEF Claims
    <3> HIDE DEF claimed
    <3> QED BY <3>1, TypeParts, FieldTypes
  <2>4. taken = [proc[p] EXCEPT !.batch = claimed,
                    !.room = proc[p].room - Cardinality(batch),
                    !.at = IF proc[p].at = "first" THEN "working" ELSE "finishing"]
    BY TypeParts DEF ProcRecord
  <2>5. (IF proc[p].at = "first" THEN "working" ELSE "finishing")
           \in {"working", "finishing"}
    OBVIOUS
  <2>6. taken \in ProcRecord
    BY <1>4, <2>3, <2>4, <2>5, Zenon
  <2> QED BY <2>2, <2>6, TypeParts
<1> QED BY <1>3, <1>5 DEF TakeBatch, CycleTypeOK, Procs, ProcRecord, Claims,
           Seen, JobRecord, beatVars, lockVars

LEMMA OthersType ==
    ASSUME CycleTypeOK, NEW p \in Procs
    PROVE  /\ KeepAlive(p) \/ LandKeepAlive(p) => CycleTypeOK'
           /\ BeginCycle(p) => CycleTypeOK'
           /\ EndPass(p) \/ TryIngress(p) \/ LeaveIngress(p) => CycleTypeOK'
           /\ EndCycle(p) => CycleTypeOK'
           /\ EndLooseCallback(p) \/ IngressTimesOut(p) => CycleTypeOK'
           /\ FailCycle(p) => CycleTypeOK'
<1> USE TypeParts DEF Procs, beatVars, lockVars
<1>1. ASSUME KeepAlive(p) \/ LandKeepAlive(p) PROVE CycleTypeOK'
  BY <1>1 DEF KeepAlive, LandKeepAlive, CycleTypeOK
<1>2. ASSUME BeginCycle(p) PROVE CycleTypeOK'
  <2>1. Limit \in 0..Limit
    BY CycleAssumption
  <2>2. proc' \in [Procs -> ProcRecord]
    BY <1>2, <2>1 DEF BeginCycle, ProcRecord, CycleSteps
  <2> QED BY <1>2, <2>2 DEF BeginCycle, CycleTypeOK, ProcRecord, Claims, Seen
<1>3. ASSUME EndPass(p) \/ TryIngress(p) \/ LeaveIngress(p) PROVE CycleTypeOK'
  <2>1. proc' \in [Procs -> ProcRecord]
    BY <1>3 DEF EndPass, TryIngress, LeaveIngress, Goto, ProcRecord, CycleSteps
  <2> QED BY <1>3, <2>1 DEF EndPass, TryIngress, LeaveIngress, CycleTypeOK, ProcRecord,
             Claims, Seen
<1>4. ASSUME EndCycle(p) PROVE CycleTypeOK'
  <2>1. 0 \in 0..Limit
    BY CycleAssumption
  <2>2. proc' \in [Procs -> ProcRecord]
    BY <1>4, <2>1 DEF EndCycle, ProcRecord
  <2> QED BY <1>4, <2>2 DEF EndCycle, CycleTypeOK, ProcRecord, Claims, Seen
<1>5. ASSUME EndLooseCallback(p) \/ IngressTimesOut(p) PROVE CycleTypeOK'
  <2>1. CASE EndLooseCallback(p)
    <3>1. proc' \in [Procs -> ProcRecord]
      <4>1. [proc[p] EXCEPT !.loose = FALSE] \in ProcRecord
        BY FieldTypes, TypeParts, Zenon
      <4>2. proc' = [proc EXCEPT ![p] = [proc[p] EXCEPT !.loose = FALSE]]
        BY <2>1 DEF EndLooseCallback
      <4> QED BY <4>1, <4>2, TypeParts
    <3> QED BY <2>1, <3>1 DEF EndLooseCallback, CycleTypeOK, ProcRecord, Claims, Seen
  <2>2. CASE IngressTimesOut(p)
    <3>1. proc' \in [Procs -> ProcRecord]
      <4>1. [proc[p] EXCEPT !.at = "error", !.loose = TRUE] \in ProcRecord
        BY FieldTypes, TypeParts, Zenon
      <4>2. proc' = [proc EXCEPT ![p].at = "error", ![p].loose = TRUE]
        BY <2>2 DEF IngressTimesOut
      <4>3. proc' = [proc EXCEPT ![p] = [proc[p] EXCEPT !.at = "error", !.loose = TRUE]]
        BY <4>2, TypeParts DEF ProcRecord
      <4> QED BY <4>1, <4>3, TypeParts
    <3> QED BY <2>2, <3>1 DEF IngressTimesOut, CycleTypeOK, ProcRecord, Claims, Seen
  <2> QED BY <1>5, <2>1, <2>2
<1>6. ASSUME FailCycle(p) PROVE CycleTypeOK'
  <2>1. PICK others \in {{}, proc[p].batch} :
          proc' = [proc EXCEPT ![p].at = "error", ![p].batch = {},
                               ![p].left = @ \cup others]
    BY <1>6 DEF FailCycle
  <2>3. proc[p].left \cup others \in Claims /\ {} \in Claims
    BY ClaimSets DEF ProcRecord
  <2>2. proc' \in [Procs -> ProcRecord]
    <3> DEFINE left == proc[p].left \cup others
    <3>1. proc' = [proc EXCEPT ![p] =
             [proc[p] EXCEPT !.at = "error", !.batch = {}, !.left = left]]
      BY <2>1, TypeParts DEF ProcRecord
    <3>2. left \in Claims /\ {} \in Claims
      BY <2>3
    <3> HIDE DEF left
    <3>3. \A r \in ProcRecord : /\ [r EXCEPT !.at = "error"] \in ProcRecord
                               /\ [r EXCEPT !.batch = {}] \in ProcRecord
                               /\ [r EXCEPT !.left = left] \in ProcRecord
      BY <3>2 DEF ProcRecord, CycleSteps
    <3>4. [proc[p] EXCEPT !.at = "error", !.batch = {}, !.left = left]
            = [[[proc[p] EXCEPT !.at = "error"] EXCEPT !.batch = {}] EXCEPT !.left = left]
      BY TypeParts DEF ProcRecord
    <3> QED BY <3>1, <3>3, <3>4, TypeParts
  <2> QED BY <1>6, <2>2 DEF FailCycle, CycleTypeOK, ProcRecord, Claims, Seen
<1> QED BY <1>1, <1>2, <1>3, <1>4, <1>5, <1>6

LEMMA FinishJobType ==
    ASSUME CycleTypeOK, NEW p \in Procs, NEW c, FinishJob(p, c)
    PROVE  CycleTypeOK'
<1>1. proc' \in [Procs -> ProcRecord]
  <2>1. proc' = [proc EXCEPT ![p].batch = @ \ {c}, ![p].left = @ \ {c}]
    BY DEF FinishJob
  <2>4. proc[p].batch \ {c} \in Claims /\ proc[p].left \ {c} \in Claims
    BY TypeParts, ClaimSets DEF ProcRecord
  <2>2. [proc[p] EXCEPT !.batch = @ \ {c}, !.left = @ \ {c}] \in ProcRecord
    BY <2>4, TypeParts DEF ProcRecord
  <2>3. proc' = [proc EXCEPT ![p] = [proc[p] EXCEPT !.batch = @ \ {c}, !.left = @ \ {c}]]
    BY <2>1, TypeParts DEF ProcRecord
  <2> QED BY <2>2, <2>3, TypeParts
<1>2. job' \in [Jobs -> JobRecord]
  <2>1. c \in Jobs \X Nat /\ c[1] \in Jobs /\ c[2] \in Nat
    BY TypeParts, ClaimSets DEF FinishJob, ProcRecord
  <2>2. PICK status \in {"settled", "delayed"}, tries \in {job[c[1]].tries, GivenBack(c[2])} :
          job' = [job EXCEPT ![c[1]] = Outcome(@, status, tries)]
    BY DEF FinishJob
  <2>3. tries \in Nat
    BY <2>1, <2>2 DEF GivenBack, CycleTypeOK
  <2>4. Outcome(job[c[1]], status, tries) \in JobRecord
    BY <2>1, <2>3 DEF Outcome, CycleTypeOK, JobRecord
  <2>5. job \in [Jobs -> JobRecord]
    BY DEF CycleTypeOK, JobRecord
  <2> QED BY <2>1, <2>2, <2>4, <2>5
<1> QED BY <1>1, <1>2 DEF FinishJob, CycleTypeOK, Procs, ProcRecord, Claims,
           Seen, JobRecord, beatVars, lockVars

LEMMA ProcessType ==
    ASSUME CycleTypeOK, NEW p \in Procs, EndProcess(p)
    PROVE  /\ proc' = [proc EXCEPT ![p] = Process(IF p \in Daemons THEN "off" ELSE "away")]
           /\ proc' \in [Procs -> ProcRecord] /\ beating' \subseteq Procs
           /\ {ingress', watchdog'} \subseteq Procs \cup {Nobody}
           /\ proc'[p].at \in {"off", "away"}
<1>1. 0 \in 0..Limit
  BY CycleAssumption
<1>2. Process("off") \in ProcRecord /\ Process("away") \in ProcRecord
  BY <1>1, ClaimSets, SeenSets DEF Process, ProcRecord
<1>3. Process("off").at = "off" /\ Process("away").at = "away"
  BY DEF Process
<1>4. proc' = [proc EXCEPT ![p] = Process(IF p \in Daemons THEN "off" ELSE "away")]
  BY DEF EndProcess
<1>5. proc' \in [Procs -> ProcRecord] /\ proc'[p].at \in {"off", "away"}
  BY <1>2, <1>3, <1>4, TypeParts
<1>6. beating' \subseteq Procs
  BY DEF EndProcess, CycleTypeOK, Procs
<1>7. {ingress', watchdog'} \subseteq Procs \cup {Nobody}
  BY DEF EndProcess, CycleTypeOK, Procs
<1> QED BY <1>4, <1>5, <1>6, <1>7

LEMMA DaemonType ==
    ASSUME CycleTypeOK, NEW p \in Procs,
           StartDaemon(p) \/ WakeUp(p) \/ Stop(p) \/ Exit(p) \/ Kill(p)
    PROVE  CycleTypeOK'
<1> USE TypeParts DEF beatVars, lockVars
<1>1. CASE StartDaemon(p)
  <2>1. proc' \in [Procs -> ProcRecord]
    BY <1>1 DEF StartDaemon, Goto, ProcRecord
  <2> QED BY <1>1, <2>1 DEF StartDaemon, CycleTypeOK, ProcRecord, Claims, Seen, Procs
<1>2. CASE WakeUp(p)
  <2>1. proc' \in [Procs -> ProcRecord]
    BY <1>2 DEF WakeUp, Goto, ProcRecord
  <2> QED BY <1>2, <2>1 DEF WakeUp, CycleTypeOK, ProcRecord, Claims, Seen, Procs
<1>3. CASE Stop(p)
  <2>1. proc' \in [Procs -> ProcRecord]
    <3>1. [proc[p] EXCEPT !.stopping = TRUE] \in ProcRecord
      BY FieldTypes, TypeParts, Zenon
    <3>2. proc' = [proc EXCEPT ![p] = [proc[p] EXCEPT !.stopping = TRUE]]
      BY <1>3 DEF Stop
    <3> QED BY <3>1, <3>2, TypeParts
  <2> QED BY <1>3, <2>1 DEF Stop, CycleTypeOK, ProcRecord, Claims, Seen, Procs
<1>4. CASE Exit(p)
  BY <1>4, ProcessType DEF Exit, CycleTypeOK, ProcRecord, Claims, Seen, Procs
<1>5. CASE Kill(p)
  BY <1>5, ProcessType DEF Kill, CycleTypeOK, ProcRecord, Claims, Seen, Procs
<1> QED BY <1>1, <1>2, <1>3, <1>4, <1>5

LEMMA RecoveryType ==
    ASSUME CycleTypeOK, NEW p \in Procs, Recovery(p)
    PROVE  CycleTypeOK'
<1> USE TypeParts DEF beatVars, lockVars
<1>1. CASE Look(p) \/ StepIn(p)
  <2>1. proc' \in [Procs -> ProcRecord]
    BY <1>1 DEF Look, StepIn, Goto, ProcRecord
  <2> QED BY <1>1, <2>1 DEF Look, StepIn, CycleTypeOK, ProcRecord, Claims, Seen, Procs
<1>4. CASE TakeWatchdogLock(p)
  <2>1. proc' \in [Procs -> ProcRecord]
    <3>1. LookAgain(p) => proc' = [proc EXCEPT ![p] =
             [proc[p] EXCEPT !.at = "recheck", !.unread = Queries]]
      BY TypeParts DEF LookAgain, ProcRecord
    <3>2. [proc[p] EXCEPT !.at = "recheck", !.unread = Queries] \in ProcRecord
      BY TypeParts, SeenSets DEF ProcRecord
    <3>3. Goto(p, "away") => proc' \in [Procs -> ProcRecord]
      BY TypeParts DEF Goto, ProcRecord
    <3> QED BY <1>4, <3>1, <3>2, <3>3, TypeParts DEF TakeWatchdogLock
  <2> QED BY <1>4, <2>1 DEF TakeWatchdogLock, CycleTypeOK, ProcRecord, Claims, Seen, Procs
<1>5. ASSUME NEW query \in Queries, Query(p, query) PROVE CycleTypeOK'
  <2>1. proc' \in [Procs -> ProcRecord]
    <3> DEFINE found == IF Finds(query) THEN proc[p].found \cup {query}
                                        ELSE proc[p].found
    <3>1. proc' = [proc EXCEPT ![p] =
             [proc[p] EXCEPT !.unread = @ \ {query}, !.found = found]]
      BY <1>5, TypeParts DEF Query, ProcRecord
    <3>2. proc[p].unread \ {query} \in Seen /\ found \in Seen
      BY TypeParts, SeenSets DEF ProcRecord
    <3> HIDE DEF found
    <3>3. [proc[p] EXCEPT !.unread = @ \ {query}, !.found = found] \in ProcRecord
      BY <3>2, TypeParts DEF ProcRecord
    <3> QED BY <3>1, <3>3, TypeParts
  <2> QED BY <1>5, <2>1 DEF Query, CycleTypeOK, ProcRecord, Claims, Seen, Procs
<1>6. CASE EndRecheck(p)
  <2>1. proc' \in [Procs -> ProcRecord]
    <3>1. PICK at \in {"recover", "begin", "away"} : proc' = [proc EXCEPT ![p] =
             [proc[p] EXCEPT !.at = at, !.found = {}]]
      BY <1>6, TypeParts DEF EndRecheck, Conclude, ProcRecord
    <3>2. [proc[p] EXCEPT !.at = at, !.found = {}] \in ProcRecord
      BY TypeParts, SeenSets DEF ProcRecord
    <3> QED BY <3>1, <3>2, TypeParts
  <2> QED BY <1>6, <2>1 DEF EndRecheck, CycleTypeOK, ProcRecord, Claims, Seen, Procs
<1>2. CASE ListRunning(p)
  <2>1. {<<j, job[j].tries>> : j \in {i \in Jobs : job[i].status = "running"}}
          \in Claims
    BY DEF CycleTypeOK, Claims
  <2> DEFINE running == {<<j, job[j].tries>> : j \in {i \in Jobs : job[i].status = "running"}}
  <2>3. proc' = [proc EXCEPT ![p].at = "recovering", ![p].list = running]
    BY <1>2 DEF ListRunning
  <2> HIDE DEF running
  <2>4. [proc[p] EXCEPT !.at = "recovering", !.list = running] \in ProcRecord
    BY <2>1, TypeParts DEF ProcRecord, running
  <2>5. proc' = [proc EXCEPT ![p] = [proc[p] EXCEPT !.at = "recovering", !.list = running]]
    BY <2>3, TypeParts DEF ProcRecord
  <2>2. proc' \in [Procs -> ProcRecord]
    BY <2>4, <2>5, TypeParts
  <2> QED BY <1>2, <2>2 DEF ListRunning, CycleTypeOK, ProcRecord, Claims, Seen, Procs
<1>3. ASSUME NEW c \in proc[p].list, RecoverJob(p, c) PROVE CycleTypeOK'
  <2>1. proc' \in [Procs -> ProcRecord]
    <3>1. proc[p].list \ {c} \in Claims
      BY TypeParts, ClaimSets DEF ProcRecord
    <3>2. proc' = [proc EXCEPT ![p] = [proc[p] EXCEPT !.list = proc[p].list \ {c}]]
      BY <1>3, TypeParts DEF RecoverJob, ProcRecord
    <3>3. [proc[p] EXCEPT !.list = proc[p].list \ {c}] \in ProcRecord
      BY <3>1, TypeParts DEF ProcRecord
    <3> QED BY <3>2, <3>3, TypeParts
  <2>2. job' \in [Jobs -> JobRecord]
    <3>1. c \in Jobs \X Nat /\ c[1] \in Jobs
      BY <1>3, TypeParts, ClaimSets DEF ProcRecord
    <3>2. job' = [job EXCEPT ![c[1]] =
                    IF @.status = "running" THEN RecoveredJob(@, c[2]) ELSE @]
      BY <1>3 DEF RecoverJob
    <3>3. job \in [Jobs -> JobRecord] /\ RecoveredJob(job[c[1]], c[2]) \in JobRecord
      BY <3>1, RecoveredType DEF CycleTypeOK, JobRecord
    <3> QED BY <3>1, <3>2, <3>3
  <2> QED BY <1>3, <2>1, <2>2 DEF RecoverJob, CycleTypeOK, ProcRecord, Claims,
             Seen, JobRecord, Procs
<1> QED BY <1>1, <1>2, <1>3, <1>4, <1>5, <1>6 DEF Recovery

-----------------------------------------------------------------------------
(* Steps.                                                                  *)

LEMMA CycleStepHolds ==
    ASSUME CycleInv, NEW p \in Procs, CycleStep(p)
    PROVE  CycleInv'
<1> USE DEF InCycle, CycleSteps, GuardedSteps
<1>1. proc \in [Procs -> ProcRecord] /\ beat \in [WorkerKeys -> {"none", "STARTING",
         "IDLE", "RUNNING", "ERROR", "STOPPED"}] /\ Key(p) \in WorkerKeys
  BY TypeParts, KeysAreRows DEF CycleInv, CycleTypeOK
<1>2. p \in Pages /\ proc[p].at \in GuardedSteps => watchdog = p
  BY DEF CycleInv, GuardedHold
<1>3. InCycle(p) => beat[Key(p)] = "RUNNING" \/ proc[p].stopping
  BY DEF CycleInv, WorkingIsShown, Procs
<1>4. CycleTypeOK'
  BY OthersType, TakeBatchType DEF CycleInv, CycleStep
<1>5. CASE BeginCycle(p)
  <2>1. proc[p].at = "begin" /\ proc' = [proc EXCEPT ![p].at = "first", ![p].room = Limit]
    BY <1>5 DEF BeginCycle, At
  <2>2. \A q \in Procs \ {p} : proc'[q] = proc[q]
    BY <1>1, <2>1
  <2>3. beat' = [beat EXCEPT ![Key(p)] = "RUNNING"] /\ UNCHANGED watchdog
    BY <1>5 DEF BeginCycle, Beat, lockVars
  <2>4. beat'[Key(p)] = "RUNNING"
    BY <1>1, <2>3
  <2> QED BY <1>2, <1>4, <2>1, <2>2, <2>3, <2>4, OwnStep
<1>6. CASE TakeBatch(p)
  <2>1. proc[p].at \in {"first", "second"} /\ UNCHANGED <<beat, watchdog>>
    BY <1>6 DEF TakeBatch, beatVars, lockVars
  <2>2. /\ \A q \in Procs \ {p} : proc'[q] = proc[q]
        /\ proc'[p].stopping = proc[p].stopping
    <3>1. PICK claimed, batch :
            proc' = [proc EXCEPT ![p].batch = claimed,
                        ![p].room = @ - Cardinality(batch),
                        ![p].at = IF @ = "first" THEN "working" ELSE "finishing"]
      BY <1>6 DEF TakeBatch
    <3> QED BY <1>1, <3>1 DEF ProcRecord
  <2> QED BY <1>2, <1>3, <1>4, <2>1, <2>2, OwnStep
<1>7. CASE EndPass(p) \/ TryIngress(p) \/ LeaveIngress(p)
  BY <1>1, <1>2, <1>3, <1>4, <1>7, OwnStep
     DEF EndPass, TryIngress, LeaveIngress, At, Goto, beatVars, lockVars, ProcRecord
<1>8. CASE EndCycle(p)
  <2>1. proc[p].at \in {"end", "error"}
        /\ \E status : beat' = [beat EXCEPT ![Key(p)] = status]
    BY <1>8 DEF EndCycle, Beat
  <2>2. /\ \A q \in Procs \ {p} : proc'[q] = proc[q]
        /\ proc'[p].at \in {"asleep", "away"}
    BY <1>1, <1>8 DEF EndCycle, ProcRecord
  <2>3. UNCHANGED watchdog \/ watchdog = p
    BY <1>8 DEF EndCycle
  <2> QED BY <1>2, <1>4, <2>1, <2>2, <2>3, OwnStep
<1> QED BY <1>5, <1>6, <1>7, <1>8 DEF CycleStep

LEMMA MishapHolds ==
    ASSUME CycleInv, NEW p \in Procs,
           \/ KeepAlive(p) \/ LandKeepAlive(p) \/ EndLooseCallback(p)
           \/ FinishJobs(p)
           \/ IngressTimesOut(p) \/ FailCycle(p) \/ Kill(p) \/ Exit(p)
    PROVE  CycleInv'
<1> USE DEF InCycle, CycleSteps, GuardedSteps
<1>1. proc \in [Procs -> ProcRecord] /\ beat \in [WorkerKeys -> {"none", "STARTING",
         "IDLE", "RUNNING", "ERROR", "STOPPED"}] /\ Key(p) \in WorkerKeys
  BY TypeParts, KeysAreRows DEF CycleInv, CycleTypeOK
<1>2. p \in Pages /\ proc[p].at \in GuardedSteps => watchdog = p
  BY DEF CycleInv, GuardedHold
<1>3. InCycle(p) => beat[Key(p)] = "RUNNING" \/ proc[p].stopping
  BY DEF CycleInv, WorkingIsShown, Procs
<1>4. CycleTypeOK'
  BY OthersType, FinishJobType, DaemonType DEF CycleInv, FinishJobs
<1>5. CASE KeepAlive(p) \/ LandKeepAlive(p)
  BY <1>1, <1>2, <1>3, <1>4, <1>5, OwnStep
     DEF KeepAlive, LandKeepAlive, Beat, beatVars, lockVars
<1>6. CASE EndLooseCallback(p) \/ FinishJobs(p)
  <2>1. /\ \A q \in Procs \ {p} : proc'[q] = proc[q]
        /\ proc'[p].at = proc[p].at /\ proc'[p].stopping = proc[p].stopping
    <3>1. CASE EndLooseCallback(p)
      BY <1>1, <3>1 DEF EndLooseCallback, ProcRecord
    <3>2. ASSUME NEW c, FinishJob(p, c)
          PROVE  /\ \A q \in Procs \ {p} : proc'[q] = proc[q]
                 /\ proc'[p].at = proc[p].at /\ proc'[p].stopping = proc[p].stopping
      <4>1. proc' = [proc EXCEPT ![p].batch = @ \ {c}, ![p].left = @ \ {c}]
        BY <3>2 DEF FinishJob
      <4> QED BY <1>1, <4>1 DEF ProcRecord
    <3> QED BY <1>6, <3>1, <3>2 DEF FinishJobs
  <2>2. UNCHANGED <<beat, watchdog>>
    BY <1>6 DEF EndLooseCallback, FinishJobs, FinishJob, beatVars, lockVars
  <2> QED BY <1>2, <1>3, <1>4, <2>1, <2>2, OwnStep
<1>7. CASE IngressTimesOut(p) \/ FailCycle(p)
  <2>1. proc'[p].at = "error" /\ proc'[p].stopping = proc[p].stopping /\ InCycle(p)
        /\ \A q \in Procs \ {p} : proc'[q] = proc[q]
    BY <1>1, <1>7 DEF IngressTimesOut, FailCycle, At, ProcRecord
  <2> QED BY <1>1, <1>2, <1>3, <1>4, <1>7, <2>1, OwnStep
             DEF IngressTimesOut, FailCycle, beatVars
<1>8. CASE Kill(p) \/ Exit(p)
  <2>1. EndProcess(p) /\ UNCHANGED beat
    BY <1>8 DEF Kill, Exit, beatVars
  <2>2. /\ \A q \in Procs \ {p} : proc'[q] = proc[q]
        /\ proc'[p].at \in {"off", "away"}
    BY <1>1, <2>1, ProcessType DEF CycleInv
  <2>3. UNCHANGED watchdog \/ watchdog = p
    BY <2>1 DEF EndProcess
  <2> QED BY <1>4, <2>1, <2>2, <2>3, OwnStep
<1> QED BY <1>5, <1>6, <1>7, <1>8

LEMMA DaemonHolds ==
    ASSUME CycleInv, NEW p \in Daemons, StartDaemon(p) \/ WakeUp(p) \/ Stop(p)
    PROVE  CycleInv'
<1> USE DEF InCycle, CycleSteps, GuardedSteps
<1>1. p \in Procs /\ p \notin Pages
  BY CycleAssumption DEF Procs
<1>2. proc \in [Procs -> ProcRecord]
  BY TypeParts DEF CycleInv
<1>3. CycleTypeOK'
  BY <1>1, DaemonType DEF CycleInv
<1>4. CASE StartDaemon(p)
  BY <1>1, <1>2, <1>3, <1>4, OwnStep DEF StartDaemon, Beat, Goto, lockVars, ProcRecord
<1>5. CASE WakeUp(p)
  BY <1>1, <1>2, <1>3, <1>5, OwnStep DEF WakeUp, Goto, beatVars, lockVars, ProcRecord
<1>6. CASE Stop(p)
  BY <1>1, <1>2, <1>3, <1>6, OwnStep DEF Stop, Beat, lockVars, ProcRecord
<1> QED BY <1>4, <1>5, <1>6

LEMMA RecoveryHolds ==
    ASSUME CycleInv, NEW p \in Pages, Recovery(p)
    PROVE  CycleInv'
<1> USE DEF InCycle, CycleSteps, GuardedSteps
<1>1. p \in Procs
  BY DEF Procs
<1>2. proc \in [Procs -> ProcRecord]
  BY TypeParts DEF CycleInv
<1>3. CycleTypeOK'
  BY <1>1, RecoveryType DEF CycleInv
<1>4. proc[p].at \in GuardedSteps => watchdog = p
  BY DEF CycleInv, GuardedHold
<1>5. CASE Look(p) \/ StepIn(p)
  BY <1>1, <1>2, <1>3, <1>4, <1>5, OwnStep
     DEF Look, StepIn, At, Goto, beatVars, lockVars, ProcRecord
<1>6. CASE TakeWatchdogLock(p) \/ EndRecheck(p)
  BY <1>1, <1>2, <1>3, <1>4, <1>6, OwnStep
     DEF TakeWatchdogLock, LookAgain, EndRecheck, Conclude, At, Goto, beatVars, lockVars,
         ProcRecord
<1>8. CASE \E query \in Queries : Query(p, query)
  <2>1. /\ \A q \in Procs \ {p} : proc'[q] = proc[q]
        /\ proc'[p].at = proc[p].at /\ proc'[p].stopping = proc[p].stopping
        /\ UNCHANGED <<beat, watchdog>>
    BY <1>1, <1>2, <1>8 DEF Query, beatVars, lockVars, ProcRecord
  <2>2. InCycle(p) => beat[Key(p)] = "RUNNING" \/ proc[p].stopping
    BY <1>1 DEF CycleInv, WorkingIsShown, Procs
  <2> QED BY <1>1, <1>3, <1>4, <2>1, <2>2, OwnStep
<1>7. CASE ListRunning(p) \/ \E c \in proc[p].list : RecoverJob(p, c)
  BY <1>1, <1>2, <1>3, <1>4, <1>7, OwnStep
     DEF ListRunning, RecoverJob, At, beatVars, lockVars, ProcRecord
<1> QED BY <1>5, <1>6, <1>7, <1>8 DEF Recovery

LEMMA IdleTimeHolds ==
    ASSUME CycleInv, UNCHANGED <<beat, proc, watchdog>>, CycleTypeOK'
    PROVE  CycleInv'
BY DEF CycleInv, GuardedHold, WorkingIsShown, InCycle

LEMMA StepHolds == CycleInv /\ [CycleNext]_cycleVars => CycleInv'
<1> SUFFICES ASSUME CycleInv, [CycleNext]_cycleVars PROVE CycleInv'
  OBVIOUS
<1>1. CASE UNCHANGED cycleVars
  <2>1. CycleTypeOK'
    BY <1>1 DEF cycleVars, CycleInv, CycleTypeOK
  <2> QED BY <1>1, <2>1, IdleTimeHolds DEF cycleVars
<1>2. CASE (\E j \in Jobs : ComesDue(j) \/ GoneStale(j)) \/ Age
  <2>1. UNCHANGED <<beat, proc, watchdog>>
    BY <1>2 DEF ComesDue, GoneStale, Age, lockVars, beatVars
  <2>2. CycleTypeOK'
    <3>1. CASE Age
      BY <3>1 DEF Age, CycleInv, CycleTypeOK, lockVars
    <3>2. ASSUME NEW j \in Jobs, ComesDue(j) \/ GoneStale(j) PROVE CycleTypeOK'
      <4>1. job \in [Jobs -> JobRecord]
        BY DEF CycleInv, CycleTypeOK, JobRecord
      <4>2. job' \in [Jobs -> JobRecord]
        <5>1. /\ [job[j] EXCEPT !.status = "waiting"] \in JobRecord
              /\ [job[j] EXCEPT !.stale = TRUE] \in JobRecord
          BY <4>1 DEF JobRecord
        <5>2. \/ job' = [job EXCEPT ![j] = [job[j] EXCEPT !.status = "waiting"]]
              \/ job' = [job EXCEPT ![j] = [job[j] EXCEPT !.stale = TRUE]]
          BY <3>2 DEF ComesDue, GoneStale
        <5> QED BY <4>1, <5>1, <5>2
      <4>3. UNCHANGED <<cast, beat, latest, fresh, beating, proc, ingress, watchdog>>
        BY <3>2 DEF ComesDue, GoneStale, lockVars, beatVars
      <4> QED BY <4>2, <4>3 DEF CycleInv, CycleTypeOK, JobRecord
    <3> QED BY <1>2, <3>1, <3>2
  <2> QED BY <2>1, <2>2, IdleTimeHolds
<1>3. CASE \E p \in Procs :
              \/ CycleStep(p) \/ KeepAlive(p) \/ LandKeepAlive(p)
              \/ EndLooseCallback(p) \/ FinishJobs(p)
              \/ IngressTimesOut(p) \/ FailCycle(p) \/ Kill(p)
  BY <1>3, CycleStepHolds, MishapHolds
<1>4. CASE \E p \in Daemons : StartDaemon(p) \/ WakeUp(p) \/ Stop(p) \/ Exit(p)
  BY <1>4, DaemonHolds, MishapHolds DEF Procs
<1>5. CASE \E p \in Pages : Recovery(p)
  BY <1>5, RecoveryHolds
<1> QED BY <1>1, <1>2, <1>3, <1>4, <1>5 DEF CycleNext, Procs

\* The variables of the worker cycle keep their types.
THEOREM CycleTypeCorrect == CycleSpec => []CycleTypeOK
<1>1. CycleInv => CycleTypeOK
  BY DEF CycleInv
<1> QED BY <1>1, InitHolds, StepHolds, PTL DEF CycleSpec

\* updateWorkerHeartbeat and withWatchdogLock: however many recovery calls and
\* daemons there are, whatever fails, times out or dies, a process in the
\* middle of a cycle is shown as RUNNING until it is told to stop.
THEOREM WorkingIsShownHolds == CycleSpec => []WorkingIsShown
<1>1. CycleInv => WorkingIsShown
  BY DEF CycleInv
<1> QED BY <1>1, InitHolds, StepHolds, PTL DEF CycleSpec
=============================================================================
