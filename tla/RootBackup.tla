----------------------------- MODULE RootBackup -----------------------------
(***************************************************************************)
(* The backup of artworks (src/src/server/archive/jobs/backup.ts): the     *)
(* IpfsRoot rows, which artworks share, against what the shared storage    *)
(* and the Kubo node really hold, and the smart-pin tier that decides how  *)
(* large a root may be (automation/policy.ts).                             *)
(*                                                                         *)
(* Every action is one statement, file operation or remote call, together  *)
(* with the local work up to the next one.  backupArtwork loads both roots *)
(* once, and exec keeps that copy: other executions, a manual retry and    *)
(* the tier move on underneath.  An execution is named by its artwork.     *)
(***************************************************************************)
EXTENDS Integers, FiniteSets

CONSTANTS
    Artworks,
    Roots,          \* IpfsRoot rows, one per CID
    NoRoot,         \* an artwork without a metadata or media root
    Size,           \* the true size of every root, in MiB
    Ceiling,        \* ARCHIVE_SMART_PIN_CEILING_BYTES, in MiB
    Worlds          \* the archives to consider, each with its own bounds

Turns == {"metadata", "media"}

\* pinning says whether KUBO_API_URL is configured (archivePinningEnabled),
\* roots which roots every artwork refers to, mute the ones whose size no
\* probe finds out, start the first smart-pin tier
\* (ARCHIVE_SMART_PIN_START_BYTES, in MiB).  setbacks bounds the failing
\* calls, early retries and killed workers, requests the users' requests,
\* backlogs the scan passes that leave jobs of other kinds behind.
World == [pinning : BOOLEAN,
          roots : [Artworks -> [Turns -> Roots \cup {NoRoot}]], mute : SUBSET Roots,
          start : Nat \ {0}, setbacks : Nat, requests : Nat, backlogs : Nat]

ASSUME RootsAssumption ==
    /\ NoRoot \notin Roots
    /\ Size \in [Roots -> Nat \ {0}]
    /\ Ceiling \in Nat \ {0}
    /\ Worlds \subseteq World

VARIABLES
    world,      \* the archive: it never changes
    row,        \* the IpfsRoot table
    disk,       \* the directory of each CID in the shared storage
    kubo,       \* the CIDs with a recursive pin in Kubo
    shown,      \* Artwork.metadataStatus and mediaStatus
    job,        \* the active BACKUP_ARTWORK job of each artwork
    exec,       \* the execution of each artwork
    asking,     \* requestArtworkArchive calls that have reset their roots
    tier,       \* archivePolicyState.smartPinMaxBytes, in MiB
    keeper,     \* the ingress cycle in maybeAdvanceSmartPinBudget
    spent       \* events counted against the bounds

vars == <<world, row, disk, kubo, shown, job, exec, asking, tier, keeper,
          spent>>

-----------------------------------------------------------------------------
BackupStatus == {"PENDING", "DOWNLOADED", "PINNED", "FAILED", "SKIPPED"}

\* size is 0 while neither byteSize nor estimatedByteSize is known; deferred
\* says whether lastDeferredAt is set and by which of the two deferrals.
RootRow == [backup : BackupStatus, pin : BackupStatus, local : BOOLEAN,
            size : Nat, deferred : {"no", "probe", "size"}]
NewRow == [backup |-> "PENDING", pin |-> "PENDING", local |-> FALSE,
           size |-> 0, deferred |-> "no"]

hasDownloadedRoot(r) == r.backup = "DOWNLOADED" /\ r.local
isRootAlreadySatisfied(r) ==
    r.pin = "PINNED" \/ (~world.pinning /\ hasDownloadedRoot(r))

deriveArtworkStatusFromRoot(r) ==
    CASE r.pin = "PINNED" -> "PINNED"
      [] r.pin # "PINNED" /\ r.backup = "DOWNLOADED" -> "DOWNLOADED"
      [] r.pin # "PINNED" /\ r.backup # "DOWNLOADED"
         /\ "FAILED" \in {r.pin, r.backup} -> "FAILED"
      [] {r.pin, r.backup} = {"SKIPPED"} -> "SKIPPED"
      [] OTHER -> "PENDING"

Statuses(a) == [t \in Turns |->
    IF world.roots[a][t] = NoRoot THEN "SKIPPED"
    ELSE deriveArtworkStatusFromRoot(row[world.roots[a][t]])]

artworkHasSatisfiedRoots(statuses) == \A t \in Turns :
    \/ statuses[t] \in {"PINNED", "SKIPPED"}
    \/ ~world.pinning /\ statuses[t] = "DOWNLOADED"

RootsOf(a) == {world.roots[a][t] : t \in Turns} \ {NoRoot}
ArtworksOf(r) == {a \in Artworks : r \in RootsOf(a)}

artworkNeedsBackup(a) == \E r \in RootsOf(a) :
    /\ row[r].pin # "PINNED"
    /\ row[r].backup = "DOWNLOADED" => world.pinning

Idle(a) == exec[a].step = "idle"
Waiting(a) == job[a] # "none" /\ Idle(a)

Steps == {"idle", "judge", "probe", "park", "existing", "fetch", "download",
          "record", "pin", "add", "discard", "pinned", "network", "mark",
          "skip", "pinfail", "fail", "sync", "write", "abort", "conclude"}

\* turn is the root an execution is at, max the tier it read, via the branch
\* that led to markRootPinnedByKubo, view what a sync read and has not
\* written, after the step behind the sync.
NoSnap == [t \in Turns |-> NewRow]
NoExec == [step |-> "idle", turn |-> "metadata", snap |-> NoSnap,
           bypass |-> FALSE, max |-> 0, via |-> "none", view |-> <<>>,
           after |-> "turn", deferred |-> FALSE]

Init ==
    /\ world \in Worlds
    /\ row = [r \in Roots |-> NewRow]
    /\ disk = [r \in Roots |-> "none"]
    /\ kubo = {}
    /\ shown = [a \in Artworks |-> [t \in Turns |->
                    IF world.roots[a][t] = NoRoot THEN "SKIPPED" ELSE "PENDING"]]
    /\ job = [a \in Artworks |-> "none"]
    /\ exec = [a \in Artworks |-> NoExec]
    /\ asking = {}
    /\ tier = world.start
    /\ keeper = [step |-> "idle", max |-> 0, jobs |-> {}]
    /\ spent = [setbacks |-> 0, requests |-> 0, backlogs |-> 0]

-----------------------------------------------------------------------------
(* Helpers of the steps of an execution.                                   *)

Root(a) == world.roots[a][exec[a].turn]
Snap(a) == exec[a].snap[exec[a].turn]
At(a, step) == exec[a].step = step

Setback == /\ spent.setbacks < world.setbacks
           /\ spent' = [spent EXCEPT !.setbacks = @ + 1]

Goto(a, step) == exec' = [exec EXCEPT ![a].step = step]
GotoVia(a, step, via) ==
    exec' = [exec EXCEPT ![a].step = step, ![a].via = via]
SyncThen(a, after) ==
    exec' = [exec EXCEPT ![a].step = "sync", ![a].after = after]

\* The root is done with: metadata first, then media, then the artwork.
Turned(e) ==
    IF e.turn = "metadata"
    THEN [e EXCEPT !.turn = "media", !.step = "judge", !.via = "none",
                   !.max = 0, !.snap["metadata"] = NewRow, !.after = "turn"]
    ELSE [e EXCEPT !.step = "sync", !.after = "conclude", !.via = "none",
                   !.max = 0, !.snap["media"] = NewRow]
NextRoot(a) == exec' = [exec EXCEPT ![a] = Turned(@)]
DeferRoot(a) ==
    exec' = [exec EXCEPT ![a] = [Turned(@) EXCEPT !.deferred = TRUE]]

WriteRow(a, new) == row' = [row EXCEPT ![Root(a)] = new]
PinnedByKubo(r) == [r EXCEPT !.backup = "DOWNLOADED", !.pin = "PINNED",
                             !.local = FALSE, !.deferred = "no"]

Elsewhere == <<world, asking, tier, keeper>>
Stores == <<row, disk, kubo, shown, job>>

-----------------------------------------------------------------------------
(* backupArtwork.                                                          *)

\* A worker runs the job: both roots are loaded, and a public job is exempt
\* from the smart-pin budget.
Start(a) ==
    /\ Waiting(a)
    /\ exec' = [exec EXCEPT ![a] = [NoExec EXCEPT
           !.step = "judge", !.bypass = (job[a] = "public"),
           !.snap = [t \in Turns |-> IF world.roots[a][t] = NoRoot THEN NewRow
                                     ELSE row[world.roots[a][t]]]]]
    /\ UNCHANGED <<Elsewhere, Stores, spent>>

\* backupSingleRoot up to the size probe.  A downloaded root is skipped only
\* while its dependency manifest is current; a root that failed within the
\* cooldown is deferred, unless the job is public.
Judge(a) ==
    /\ At(a, "judge")
    /\ IF Root(a) = NoRoot
       THEN NextRoot(a) /\ UNCHANGED spent
       ELSE \/ /\ isRootAlreadySatisfied(Snap(a))
               /\ NextRoot(a) /\ UNCHANGED spent
            \/ /\ isRootAlreadySatisfied(Snap(a)) => hasDownloadedRoot(Snap(a))
               /\ ~exec[a].bypass
               /\ "FAILED" \in {Snap(a).backup, Snap(a).pin}
               /\ Setback
               /\ DeferRoot(a)
            \/ /\ isRootAlreadySatisfied(Snap(a)) => hasDownloadedRoot(Snap(a))
               /\ exec' = [exec EXCEPT
                      ![a].step = IF exec[a].bypass THEN "existing"
                                              ELSE "probe",
                      ![a].max = IF exec[a].bypass THEN 0 ELSE tier]
               /\ UNCHANGED spent
    /\ UNCHANGED <<Elsewhere, Stores>>

\* evaluateSmartBudget: the size is taken from the copy or probed, and
\* written; without one the root waits for another probe.
Probe(a) ==
    /\ At(a, "probe")
    /\ \/ /\ Snap(a).size # 0 \/ Root(a) \notin world.mute
          /\ WriteRow(a, [row[Root(a)] EXCEPT !.size = Size[Root(a)]])
          /\ Goto(a, IF Size[Root(a)] <= exec[a].max THEN "existing"
                     ELSE "park")
          /\ UNCHANGED spent
       \/ /\ Snap(a).size = 0
          /\ IF Root(a) \in world.mute THEN UNCHANGED spent ELSE Setback
          /\ WriteRow(a, [row[Root(a)] EXCEPT !.deferred =
                              IF @ = "no" THEN "probe" ELSE @])
          /\ DeferRoot(a)
    /\ UNCHANGED <<Elsewhere, disk, kubo, shown, job>>

\* evaluateSmartBudget: the root is larger than the tier that was read.
Park(a) ==
    /\ At(a, "park")
    /\ WriteRow(a, [row[Root(a)] EXCEPT !.deferred = "size"])
    /\ DeferRoot(a)
    /\ UNCHANGED <<Elsewhere, disk, kubo, shown, job, spent>>

\* markExistingKuboPinIfPresent: kuboHasRecursivePin is false on any error.
FindExistingPin(a) ==
    /\ At(a, "existing")
    /\ \/ /\ world.pinning /\ Root(a) \in kubo
          /\ GotoVia(a, "mark", "existing") /\ UNCHANGED spent
       \/ /\ world.pinning /\ Root(a) \in kubo
          /\ Setback /\ Goto(a, "fetch")
       \/ /\ ~(world.pinning /\ Root(a) \in kubo)
          /\ Goto(a, "fetch") /\ UNCHANGED spent
    /\ UNCHANGED <<Elsewhere, Stores>>

\* The steps behind a local copy: the pin, or markPinSkipped without Kubo.
AfterDownload == IF world.pinning THEN "pin" ELSE "skip"

\* resolveDownloadResult trusts a copy that says DOWNLOADED if the directory
\* is there, and otherwise starts the root over.
Fetch(a) ==
    /\ At(a, "fetch")
    /\ IF ~hasDownloadedRoot(Snap(a))
       THEN Goto(a, "download") /\ UNCHANGED row
       ELSE IF disk[Root(a)] # "none"
       THEN Goto(a, AfterDownload) /\ UNCHANGED row
       ELSE /\ WriteRow(a, [row[Root(a)] EXCEPT
                   !.backup = "PENDING", !.pin = "PENDING", !.local = FALSE])
            /\ Goto(a, "download")
    /\ UNCHANGED <<Elsewhere, disk, kubo, shown, job, spent>>

\* downloadFileToArchive and hydrateCidDirectory: the directory may be
\* complete or lack siblings, and so not reproduce the CID.
Download(a) ==
    /\ At(a, "download")
    /\ \/ /\ \E found \in {"partial", "whole"} :
                 disk' = [disk EXCEPT ![Root(a)] =
                              IF @ = "whole" THEN @ ELSE found]
          /\ Goto(a, "record") /\ UNCHANGED spent
       \/ /\ Setback
          /\ IF world.pinning THEN GotoVia(a, "network", "download")
                        ELSE Goto(a, "fail")
          /\ UNCHANGED disk
    /\ UNCHANGED <<Elsewhere, row, kubo, shown, job>>

\* downloadRootAndRecord.
RecordDownload(a) ==
    /\ At(a, "record")
    /\ WriteRow(a, [row[Root(a)] EXCEPT
           !.backup = "DOWNLOADED", !.local = TRUE, !.size = Size[Root(a)],
           !.deferred = "no"])
    /\ SyncThen(a, AfterDownload)
    /\ UNCHANGED <<Elsewhere, disk, kubo, shown, job, spent>>

\* pinCidWithKuboFromNode up to the upload.
PinLocally(a) ==
    /\ At(a, "pin")
    /\ \/ /\ Root(a) \in kubo
          /\ Goto(a, "discard") /\ UNCHANGED spent
       \/ /\ Root(a) \in kubo => Setback
          /\ Root(a) \notin kubo => UNCHANGED spent
          /\ Goto(a, IF disk[Root(a)] = "none" THEN "pinfail" ELSE "add")
    /\ UNCHANGED <<Elsewhere, Stores>>

\* Mutants: any answer of the upload passes for the pin; the files of a
\* directory that did not match are thrown away.
AddAnyHash(a) ==
    /\ At(a, "add")
    /\ disk[Root(a)] # "none"
    /\ kubo' = IF disk[Root(a)] = "whole" THEN kubo \cup {Root(a)} ELSE kubo
    /\ Goto(a, "discard")
    /\ UNCHANGED <<Elsewhere, row, disk, shown, job, spent>>

AddDroppingFiles(a) ==
    /\ At(a, "add")
    /\ kubo' = IF disk[Root(a)] = "whole" THEN kubo \cup {Root(a)} ELSE kubo
    /\ disk' = [disk EXCEPT ![Root(a)] = "none"]
    /\ IF disk[Root(a)] = "whole" THEN Goto(a, "discard")
       ELSE GotoVia(a, "network", "mismatch")
    /\ UNCHANGED <<Elsewhere, row, shown, job, spent>>

\* The upload: only a complete directory yields the CID and its pin; what a
\* partial one yields is unpinned again.  The files may be gone by now.
Add(a) ==
    /\ At(a, "add")
    /\ \/ /\ disk[Root(a)] = "whole"
          /\ kubo' = kubo \cup {Root(a)}
          /\ Goto(a, "discard") /\ UNCHANGED spent
       \/ /\ disk[Root(a)] = "partial"
          /\ GotoVia(a, "network", "mismatch") /\ UNCHANGED <<kubo, spent>>
       \/ /\ disk[Root(a)] = "none"
          /\ Goto(a, "pinfail") /\ UNCHANGED <<kubo, spent>>
       \/ /\ Setback
          /\ Goto(a, "pinfail") /\ UNCHANGED kubo
    /\ UNCHANGED <<Elsewhere, row, disk, shown, job>>

\* The directory is redundant once Kubo holds the pin.
Discard(a) ==
    /\ At(a, "discard")
    /\ disk' = [disk EXCEPT ![Root(a)] = "none"]
    /\ Goto(a, "pinned")
    /\ UNCHANGED <<Elsewhere, row, kubo, shown, job, spent>>

\* pinRootWithKubo.
RecordPin(a) ==
    /\ At(a, "pinned")
    /\ WriteRow(a, [row[Root(a)] EXCEPT
           !.pin = "PINNED", !.local = FALSE, !.deferred = "no"])
    /\ SyncThen(a, "turn")
    /\ UNCHANGED <<Elsewhere, disk, kubo, shown, job, spent>>

\* pinRootWithKuboNetworkFallback; an error ends the root after a failed
\* download, and is a pin failure after a directory that did not match.
PinFromNetwork(a) ==
    /\ At(a, "network")
    /\ \/ /\ kubo' = kubo \cup {Root(a)}
          /\ Goto(a, "mark") /\ UNCHANGED spent
       \/ /\ Setback
          /\ Goto(a, IF exec[a].via = "download" THEN "fail" ELSE "pinfail")
          /\ UNCHANGED kubo
    /\ UNCHANGED <<Elsewhere, row, disk, shown, job>>

\* markRootPinnedByKubo.  After a failed download backupSingleRoot goes on to
\* markPinSkipped, unless the root was downloaded in its copy.
MarkPinned(a) ==
    /\ At(a, "mark")
    /\ WriteRow(a, PinnedByKubo(row[Root(a)]))
    /\ SyncThen(a, CASE exec[a].via = "existing" -> "turn"
                     [] exec[a].via = "download" -> "skip"
                     [] exec[a].via = "mismatch" -> "sync")
    /\ UNCHANGED <<Elsewhere, disk, kubo, shown, job, spent>>

\* markPinSkipped.
SkipPin(a) ==
    /\ At(a, "skip")
    /\ IF hasDownloadedRoot(Snap(a)) THEN UNCHANGED row
       ELSE WriteRow(a, [row[Root(a)] EXCEPT !.pin = "SKIPPED"])
    /\ SyncThen(a, "turn")
    /\ UNCHANGED <<Elsewhere, disk, kubo, shown, job, spent>>

\* The catch block of pinResolvedRootWithKubo.
FailPin(a) ==
    /\ At(a, "pinfail")
    /\ WriteRow(a, [row[Root(a)] EXCEPT !.pin = "FAILED"])
    /\ SyncThen(a, "turn")
    /\ UNCHANGED <<Elsewhere, disk, kubo, shown, job, spent>>

\* recordRootFailure.
FailRoot(a) ==
    /\ At(a, "fail")
    /\ WriteRow(a, [row[Root(a)] EXCEPT !.backup = "FAILED",
                                        !.pin = "FAILED"])
    /\ SyncThen(a, "abort")
    /\ UNCHANGED <<Elsewhere, disk, kubo, shown, job, spent>>

-----------------------------------------------------------------------------
(* syncArtworksForRoot and syncArtworkStatuses: read, then write.          *)

Synced(a) == IF exec[a].after = "conclude" THEN {a} ELSE ArtworksOf(Root(a))

SyncRead(a) ==
    /\ At(a, "sync")
    /\ exec' = [exec EXCEPT ![a].step = "write",
                            ![a].view = [b \in Synced(a) |-> Statuses(b)]]
    /\ UNCHANGED <<Elsewhere, Stores, spent>>

\* The waiting jobs of satisfied artworks are deleted, but not by the last
\* sync of an execution.
SyncWrite(a) ==
    LET view == exec[a].view IN
    /\ At(a, "write")
    /\ shown' = [b \in Artworks |-> IF b \in DOMAIN view THEN view[b]
                                    ELSE shown[b]]
    /\ job' = [b \in Artworks |->
           IF /\ exec[a].after # "conclude" /\ b \in DOMAIN view
              /\ artworkHasSatisfiedRoots(view[b]) /\ Idle(b)
           THEN "none" ELSE job[b]]
    /\ exec' = [exec EXCEPT ![a] =
           LET e == [@ EXCEPT !.view = <<>>] IN
           CASE e.after = "turn" -> Turned(e)
             [] e.after = "sync" -> [e EXCEPT !.step = "sync", !.after = "turn"]
             [] OTHER -> [e EXCEPT !.step = e.after]]
    /\ UNCHANGED <<Elsewhere, row, disk, kubo, spent>>

\* The queue takes the outcome: a deferred job is retained, a completed one
\* is over.
Conclude(a) ==
    /\ At(a, "conclude")
    /\ job' = [job EXCEPT ![a] = IF exec[a].deferred THEN @ ELSE "none"]
    /\ exec' = [exec EXCEPT ![a] = NoExec]
    /\ UNCHANGED <<Elsewhere, row, disk, kubo, shown, spent>>

\* The error of a root fails the job, which is retried or out of attempts.
Abort(a) ==
    /\ At(a, "abort")
    /\ \E next \in {job[a], "none"} : job' = [job EXCEPT ![a] = next]
    /\ exec' = [exec EXCEPT ![a] = NoExec]
    /\ UNCHANGED <<Elsewhere, row, disk, kubo, shown, spent>>

\* A worker is killed; the stale recovery of the queue frees its job.
Crash(a) ==
    /\ ~Idle(a)
    /\ Setback
    /\ exec' = [exec EXCEPT ![a] = NoExec]
    /\ UNCHANGED <<Elsewhere, Stores>>

Backup(a) ==
    \/ Start(a) \/ Judge(a) \/ Probe(a) \/ Park(a) \/ FindExistingPin(a)
    \/ Fetch(a) \/ Download(a) \/ RecordDownload(a) \/ PinLocally(a)
    \/ Add(a) \/ Discard(a) \/ RecordPin(a) \/ PinFromNetwork(a)
    \/ MarkPinned(a) \/ SkipPin(a) \/ FailPin(a) \/ FailRoot(a)
    \/ SyncRead(a) \/ SyncWrite(a) \/ Conclude(a) \/ Abort(a)

-----------------------------------------------------------------------------
(* The queue and the users.                                                *)

\* Contract upserts and the rebalancer queue artworks that need a backup.
Enqueue(a) ==
    /\ job[a] = "none" /\ artworkNeedsBackup(a)
    /\ job' = [job EXCEPT ![a] = "automatic"]
    /\ UNCHANGED <<Elsewhere, row, disk, kubo, shown, exec, spent>>

isArtworkFullyPinned(a) ==
    /\ shown[a]["metadata"] = "PINNED"
    /\ world.roots[a]["media"] # NoRoot => shown[a]["media"] = "PINNED"

\* requestArtworkArchive: resetRootsForManualRetry starts the roots over,
\* whoever shares them.
ResetRoots(a) ==
    /\ a \notin asking /\ ~isArtworkFullyPinned(a)
    /\ spent.requests < world.requests
    /\ spent' = [spent EXCEPT !.requests = @ + 1]
    /\ row' = [r \in Roots |->
           IF r \in RootsOf(a)
           THEN [row[r] EXCEPT !.backup = "PENDING", !.pin = "PENDING",
                               !.deferred = "no"]
           ELSE row[r]]
    /\ asking' = asking \cup {a}
    /\ UNCHANGED <<world, disk, kubo, shown, job, exec, tier, keeper>>

\* Its sync, and the job at public priority; the priority of a row that is
\* RUNNING does not change the execution.
QueuePublic(a) ==
    /\ a \in asking
    /\ asking' = asking \ {a}
    /\ shown' = [shown EXCEPT ![a] = Statuses(a)]
    /\ job' = [job EXCEPT ![a] = "public"]
    /\ UNCHANGED <<world, row, disk, kubo, exec, tier, keeper, spent>>

-----------------------------------------------------------------------------
(* maybeAdvanceSmartPinBudget, after a completed scan pass.                *)

\* The tiers are 1, 2, 5, 10, ... MiB up to the ceiling.
Tiers == {Ceiling} \cup
         {t \in {f * m : f \in {1, 2, 5}, m \in {1, 10, 100}} : t < Ceiling}

\* Mutant: the comparison admits the tier that is reached already.
nextTierReached(current) ==
    IF current >= Ceiling THEN Ceiling
    ELSE CHOOSE t \in Tiers :
             t >= current /\ \A u \in Tiers : u >= current => t <= u

nextSmartPinBudgetTier(current) ==
    IF current >= Ceiling THEN Ceiling
    ELSE CHOOSE t \in Tiers :
             t > current /\ \A u \in Tiers : u > current => t <= u

FitsTier(r, max) == row[r].size = 0 \/ row[r].size <= max

\* Nothing is advanced at the ceiling.
ReadPolicy ==
    /\ keeper.step = "idle" /\ tier < Ceiling
    /\ keeper' = [step |-> "judge", max |-> tier,
                  jobs |-> {a \in Artworks : job[a] # "none"}]
    /\ UNCHANGED <<world, Stores, exec, asking, tier, spent>>

\* hasPendingRootsInCurrentTier, hasActiveAutomationBacklog and
\* findSmallestDeferredRoot.  The backlog are jobs of other kinds: a pass may
\* find some.
JudgeTier == \E backlog \in BOOLEAN :
    LET busy == \E a \in keeper.jobs : \E r \in RootsOf(a) :
                    ~isRootAlreadySatisfied(row[r]) /\ FitsTier(r, keeper.max)
        waits == \E r \in Roots :
                    /\ row[r].backup = "PENDING" /\ row[r].deferred # "no"
                    /\ row[r].size > keeper.max
        raise == ~busy /\ ~backlog /\ waits /\ nextSmartPinBudgetTier(keeper.max) > keeper.max
    IN  /\ keeper.step = "judge"
        /\ IF backlog
           THEN /\ spent.backlogs < world.backlogs
                /\ spent' = [spent EXCEPT !.backlogs = @ + 1]
           ELSE UNCHANGED spent
        /\ keeper' = [keeper EXCEPT !.step = IF raise THEN "raise" ELSE "idle",
                          !.max = IF raise THEN @ ELSE 0, !.jobs = {}]
        /\ UNCHANGED <<world, Stores, exec, asking, tier>>

RaiseTier ==
    /\ keeper.step = "raise"
    /\ tier' = nextSmartPinBudgetTier(keeper.max)
    /\ keeper' = [keeper EXCEPT !.step = "requeue", !.max = tier']
    /\ UNCHANGED <<world, Stores, exec, asking, spent>>

\* requeueDeferredArtworksForTier.
RequeueDeferred ==
    LET fits == {r \in Roots : /\ row[r].backup = "PENDING"
                               /\ row[r].deferred = "size"
                               /\ row[r].size <= keeper.max} IN
    /\ keeper.step = "requeue"
    /\ job' = [a \in Artworks |->
           IF job[a] = "none" /\ RootsOf(a) \cap fits # {}
           THEN "automatic" ELSE job[a]]
    /\ keeper' = [step |-> "idle", max |-> 0, jobs |-> {}]
    /\ UNCHANGED <<world, row, disk, kubo, shown, exec, asking, tier, spent>>

Policy == ReadPolicy \/ JudgeTier \/ RaiseTier \/ RequeueDeferred

Next ==
    \/ \E a \in Artworks : Backup(a)
    \/ \E a \in Artworks : Crash(a)
    \/ \E a \in Artworks : Enqueue(a)
    \/ \E a \in Artworks : ResetRoots(a)
    \/ \E a \in Artworks : QueuePublic(a)
    \/ Policy

\* Workers keep taking jobs and finish what they start, the rebalancer keeps
\* queueing and the ingress cycle keeps coming by.
Fairness ==
    /\ \A a \in Artworks : WF_vars(Backup(a))
    /\ \A a \in Artworks : WF_vars(Enqueue(a))
    /\ \A a \in Artworks : WF_vars(QueuePublic(a))
    /\ WF_vars(Policy)

Spec == Init /\ [][Next]_vars /\ Fairness

-----------------------------------------------------------------------------
Execution == [step : Steps, turn : Turns, snap : [Turns -> RootRow],
              bypass : BOOLEAN, max : Nat,
              via : {"none", "existing", "download", "mismatch"},
              view : UNION {[S -> [Turns -> BackupStatus]] :
                                S \in SUBSET Artworks},
              after : {"turn", "pin", "skip", "sync", "abort", "conclude"},
              deferred : BOOLEAN]

\* Types: the variables hold rows, statuses and steps of the code.
TypeOK ==
    /\ world \in Worlds
    /\ row \in [Roots -> RootRow]
    /\ disk \in [Roots -> {"none", "partial", "whole"}]
    /\ kubo \subseteq Roots
    /\ shown \in [Artworks -> [Turns -> BackupStatus]]
    /\ job \in [Artworks -> {"none", "automatic", "public"}]
    /\ exec \in [Artworks -> Execution]

-----------------------------------------------------------------------------
(* Properties.                                                             *)

\* The content of r is in the shared storage or pinned.
Held(r) == disk[r] # "none" \/ r \in kubo

\* Safety of backup.ts: no status claims more than there is.  A root, or an
\* artwork shown to users, that is PINNED has its pin in Kubo, and one that
\* is DOWNLOADED has its content somewhere, although every writer acts on an
\* old copy of the row and another one may remove the directory meanwhile.
StatusIsTrue ==
    /\ \A r \in Roots : /\ row[r].pin = "PINNED" => r \in kubo
                        /\ row[r].backup = "DOWNLOADED" => Held(r)
    /\ \A a \in Artworks, t \in Turns :
           /\ shown[a][t] = "PINNED" => world.roots[a][t] \in kubo
           /\ shown[a][t] = "DOWNLOADED" => Held(world.roots[a][t])

\* Action property of pinCidWithKubo: content that the archive holds is
\* never given up, whoever else is working on the root and whichever call
\* fails in between.
ContentKept == [][\A r \in Roots : Held(r) => Held(r)']_vars

\* A root that nobody can tell the size of: without a user's request it is
\* probed for ever, and while a job waits for it no tier is raised.
SizeUnknown(r) == r \in world.mute /\ row[r].size = 0
HoldsTheTier(r) ==
    /\ SizeUnknown(r) /\ ~isRootAlreadySatisfied(row[r])
    /\ \E a \in ArtworksOf(r) : job[a] # "none"

\* The roots that the smart-pin budget leaves out: above the ceiling, tried
\* for a user without success, for then it is no longer PENDING and counts as
\* deferred no more, or behind a root of unknown size.
LeftOut(r) ==
    /\ Size[r] > tier
    /\ \/ Size[r] > Ceiling
       \/ row[r].backup # "PENDING"
       \/ \E u \in Roots : HoldsTheTier(u)

\* Liveness of backupArtwork and maybeAdvanceSmartPinBudget: in the end every
\* root is saved for good, whatever concurrent executions and users wrote
\* over each other, if its size can be found out and the budget does not
\* leave it out.
EveryRootEndsSaved == \A r \in Roots :
    <>[](\/ isRootAlreadySatisfied(row[r])
         \/ ArtworksOf(r) = {}
         \/ SizeUnknown(r) \/ LeftOut(r))

\* markRootPinnedByKubo reports "Pinned <cid> on the server.": the execution
\* that pinned a root does not mark its pin as SKIPPED afterwards.
PinIsNotSkipped ==
    [][\A r \in Roots : row[r].pin = "PINNED" => row'[r].pin # "SKIPPED"]_vars
=============================================================================
