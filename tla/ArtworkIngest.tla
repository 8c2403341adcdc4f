---------------------------- MODULE ArtworkIngest ----------------------------
(***************************************************************************)
(* How a work gets into the archive (src/src/server/archive/jobs): the      *)
(* discovery of Foundation's works (contract-upserts.ts), the ingest of a   *)
(* token from its contract (ingest-contract-token.ts) and the ingest of a   *)
(* page of Foundation (ingest-foundation.ts) write the same Artwork row,    *)
(* each in its own way, while requests to archive the work (ingest.ts) and  *)
(* its backups write its statuses.                                         *)
(*                                                                         *)
(* There is one work with a metadata and a media root.  RootBackup has the  *)
(* backup of a root in full; here a root is saved or not, by this work or   *)
(* by another one that shares it.  Every action is one statement, with the  *)
(* local work up to the next one.                                          *)
(***************************************************************************)
EXTENDS Naturals, FiniteSets

CONSTANT Catalogues     \* the worlds to consider, each with its own bounds

Kinds == {"metadata", "media"}
Paths == {"discovery", "token", "page"}
Requestable == {"token", "page", "request"}

\* names says which roots each source names, live whether Foundation may be
\* asked (foundationLiveLookupsEnabled), legacy whether the work has a row
\* of an earlier version, without roots.  runs bounds what users ask for: the
\* ingest of a token or of a page, and the archiving of the work.  mishaps
\* bounds the ingests, backups and roots that fail.
Catalogue == [names : [Paths -> SUBSET Kinds], live : BOOLEAN,
              legacy : BOOLEAN, runs : [Requestable -> Nat], mishaps : Nat]

ASSUME CataloguesAssumption == Catalogues \subseteq Catalogue

VARIABLES
    catalogue,  \* the world: it never changes
    artwork,    \* the Artwork row
    root,       \* the IpfsRoot rows
    backupJob,  \* the BACKUP_ARTWORK job, by the id of the artwork
    ingest,     \* one ingest of each kind, and one request
    backup,     \* the execution of a backup job
    happened    \* events counted against the bounds

ingestVars == <<catalogue, artwork, root, backupJob, ingest, backup, happened>>

-----------------------------------------------------------------------------
Ids == {"old", "new"}

\* seen has the root rows an ingest got back from its upserts, or the backup
\* from its latest read; queued tells that a job waits for the ingest.  at is the
\* backup's latest root, and of the artwork that is being synced.
NoRoots == [k \in Kinds |-> "none"]
NoIngest(p) == [as |-> p, step |-> "idle", seen |-> NoRoots, id |-> "none",
                queues |-> TRUE, queued |-> FALSE]
NoBackup == [step |-> "idle", id |-> "none", todo |-> {}, at |-> "media",
             of |-> "none", seen |-> NoRoots, failed |-> FALSE]

NoArtwork == [id |-> "none", link |-> {}, status |-> [k \in Kinds |-> "SKIPPED"]]

IngestInit ==
    /\ catalogue \in Catalogues
    /\ artwork = [NoArtwork EXCEPT !.id = IF catalogue.legacy THEN "old" ELSE "none"]
    /\ root = NoRoots
    /\ backupJob = [id \in Ids |-> "none"]
    /\ ingest = [p \in Paths \cup {"request"} |-> NoIngest(p)]
    /\ backup = NoBackup
    /\ happened = [token |-> 0, page |-> 0, request |-> 0, mishaps |-> 0]

Trouble == /\ happened.mishaps < catalogue.mishaps
          /\ happened' = [happened EXCEPT !.mishaps = @ + 1]

NamedBy(p) == catalogue.names[ingest[p].as]

deriveArtworkStatusFromRoot(status) == IF status = "none" THEN "SKIPPED" ELSE status

needsRootBackup(status) == status \notin {"none", "PINNED"}
artworkNeedsBackup(seen) == \E k \in Kinds : needsRootBackup(seen[k])

\* queueJob: a job that waits or runs is left as it is, a settled one waits
\* again.
queueArtworkBackup(id) ==
    backupJob' = [backupJob EXCEPT ![id] = IF @ = "RUNNING" THEN @ ELSE "PENDING"]

-----------------------------------------------------------------------------
\* A job for the ingest: one that waits or runs is left as it is.
enqueue(p) == IF ingest[p].step = "idle" THEN [ingest EXCEPT ![p].queued = TRUE]
              ELSE ingest

\* scanContractTokens meets the token, or somebody asks for the page
\* (enqueueFoundationMintIngest).
AskForIngest(p) ==
    /\ happened[p] < catalogue.runs[p]
    /\ p = "page" => catalogue.live
    /\ happened' = [happened EXCEPT ![p] = @ + 1]
    /\ ingest' = enqueue(p)
    /\ UNCHANGED <<catalogue, artwork, root, backupJob, backup>>

\* The source has answered.  Discovery is a pass of the ingress cycle, and
\* one that a profile request makes for itself does not queue.
BeginIngest(p) ==
    /\ ingest[p].step = "idle"
    /\ IF p = "discovery" THEN catalogue.live ELSE ingest[p].queued
    /\ \E queues \in BOOLEAN :
          /\ p # "discovery" => queues
          /\ ingest' = [ingest EXCEPT ![p] = [NoIngest(p) EXCEPT
                            !.step = "metadata", !.queues = queues]]
    /\ UNCHANGED <<catalogue, artwork, root, backupJob, backup, happened>>

\* A work without any root is dropped.
AfterRoots(p) == IF NamedBy(p) = {} THEN "find" ELSE "persist"

\* upsertIpfsRoot, first of the metadata and then of the media; the row comes
\* back as it is.
UpsertRoot(p) ==
    /\ ingest[p].step \in Kinds
    /\ LET k == ingest[p].step
           named == k \in NamedBy(p)
           row == IF root[k] = "none" THEN "PENDING" ELSE root[k]
       IN  /\ root' = IF named THEN [root EXCEPT ![k] = row] ELSE root
           /\ ingest' = [ingest EXCEPT
                ![p].seen[k] = IF named THEN row ELSE @,
                ![p].step = IF k = "metadata" THEN "media" ELSE AfterRoots(p)]
    /\ UNCHANGED <<catalogue, artwork, backupJob, backup, happened>>

\* dropRootlessArtworkIfPresent in its three statements.
FindRootless(p) ==
    /\ ingest[p].step = "find"
    /\ ingest' = [ingest EXCEPT ![p] =
           IF artwork.id # "none" /\ artwork.link = {}
           THEN [@ EXCEPT !.step = "drop job", !.id = artwork.id]
           ELSE NoIngest(p)]
    /\ UNCHANGED <<catalogue, artwork, root, backupJob, backup, happened>>

DropJob(p) ==
    /\ ingest[p].step = "drop job"
    /\ backupJob' = [backupJob EXCEPT ![ingest[p].id] = IF @ = "PENDING" THEN "none" ELSE @]
    /\ ingest' = [ingest EXCEPT ![p].step = "drop"]
    /\ UNCHANGED <<catalogue, artwork, root, backup, happened>>

\* The row goes by its id, whatever has been linked to it meanwhile.
DropArtwork(p) ==
    /\ ingest[p].step = "drop"
    /\ artwork' = IF artwork.id = ingest[p].id THEN NoArtwork ELSE artwork
    /\ ingest' = [ingest EXCEPT ![p] = NoIngest(p)]
    /\ UNCHANGED <<catalogue, root, backupJob, backup, happened>>

rootStatus(p, k) == IF k \in NamedBy(p) THEN "PENDING" ELSE "SKIPPED"

\* Mutant: discovery starts the statuses afresh as well.
discoveredAfresh(p, k) == rootStatus(p, k)

discoveredStatus(p, k) == deriveArtworkStatusFromRoot(ingest[p].seen[k])

\* The upsert of the artwork: links that are undefined are left alone, the
\* statuses never.  A root that is not named counts as one to skip.
Upserted(p, status) ==
    [id |-> IF artwork.id = "none" THEN "new" ELSE artwork.id,
     link |-> artwork.link \cup NamedBy(p), status |-> status]

\* Discovery derives the statuses from the roots it has seen.
PersistDiscovered(p) ==
    /\ ingest[p].as = "discovery"
    /\ artwork' = Upserted(p, [k \in Kinds |-> discoveredStatus(p, k)])

\* The other two start them afresh.
PersistIngested(p) ==
    /\ ingest[p].as # "discovery"
    /\ artwork' = Upserted(p, [k \in Kinds |-> rootStatus(p, k)])

Persist(p) ==
    /\ ingest[p].step = "persist"
    /\ PersistDiscovered(p) \/ PersistIngested(p)
    /\ ingest' = [ingest EXCEPT ![p].step = "queue", ![p].id = artwork'.id]
    /\ UNCHANGED <<catalogue, root, backupJob, backup, happened>>

Queue(p) ==
    /\ ingest[p].step = "queue"
    /\ IF \/ ingest[p].as # "discovery"
          \/ ingest[p].queues /\ artworkNeedsBackup(ingest[p].seen)
       THEN queueArtworkBackup(ingest[p].id)
       ELSE UNCHANGED backupJob
    /\ ingest' = [ingest EXCEPT ![p] = NoIngest(p)]
    /\ UNCHANGED <<catalogue, artwork, root, backup, happened>>

\* An error ends the ingest; that of a token goes on as the ingest of the
\* page, if Foundation may be asked (ingestContractToken).
FailIngest(p) ==
    /\ ingest[p].step # "idle" /\ Trouble
    /\ ingest' = [ingest EXCEPT ![p] =
           IF ingest[p].as = "token" /\ catalogue.live
           THEN [NoIngest(p) EXCEPT !.as = "page", !.step = "metadata"]
           ELSE NoIngest(p)]
    /\ UNCHANGED <<catalogue, artwork, root, backupJob, backup>>

-----------------------------------------------------------------------------
\* requestArtworkArchive, for the work alone or among those of its artist
\* (requestProfileArchive), in its statements; the answers of the first decide
\* to the end.

isArtworkFullyPinned ==
    /\ artwork.status["metadata"] = "PINNED"
    /\ "media" \in artwork.link => artwork.status["media"] = "PINNED"

canBackupArtworkDirectly ==
    /\ artwork.link # {}
    /\ artwork.status["metadata"] # "SKIPPED"
    /\ "media" \in artwork.link => artwork.status["media"] # "SKIPPED"

asking == ingest["request"]
RequestGoesTo(step) == ingest' = [ingest EXCEPT !["request"].step = step]

\* The works of a profile that have roots, as Foundation names them now or as
\* the archive has them; a work alone need not have any.
RequestArchive ==
    /\ asking.step = "idle" /\ happened["request"] < catalogue.runs["request"]
    /\ happened' = [happened EXCEPT !["request"] = @ + 1]
    /\ RequestGoesTo("find work")
    /\ UNCHANGED <<catalogue, artwork, root, backupJob, backup>>

FindWork ==
    /\ asking.step = "find work"
    /\ ingest' = IF artwork.id = "none"
                 THEN [enqueue("token") EXCEPT !["request"] = NoIngest("request")]
                 ELSE [ingest EXCEPT !["request"] =
                          IF isArtworkFullyPinned THEN NoIngest("request")
                          ELSE [@ EXCEPT !.step = IF artwork.link = {} THEN "ask" ELSE "reset",
                                         !.id = artwork.id,
                                         !.queues = canBackupArtworkDirectly,
                                         !.seen = [k \in Kinds |-> IF k \in artwork.link
                                                      THEN root[k] ELSE "none"]]]
    /\ UNCHANGED <<catalogue, artwork, root, backupJob, backup, happened>>

ResetRootsForRetry ==
    /\ asking.step = "reset"
    /\ root' = [k \in Kinds |-> IF asking.seen[k] # "none" THEN "PENDING" ELSE root[k]]
    /\ RequestGoesTo("sync read")
    /\ UNCHANGED <<catalogue, artwork, backupJob, backup, happened>>

ReadForRequest ==
    /\ asking.step = "sync read"
    /\ ingest' = [ingest EXCEPT !["request"].step = "sync write",
           !["request"].seen = [k \in Kinds |->
               IF artwork.id = asking.id /\ k \in artwork.link THEN root[k] ELSE "none"]]
    /\ UNCHANGED <<catalogue, artwork, root, backupJob, backup, happened>>

WriteForRequest ==
    /\ asking.step = "sync write"
    /\ artwork' = IF artwork.id # asking.id THEN artwork
                  ELSE [artwork EXCEPT !.status = [k \in Kinds |->
                           deriveArtworkStatusFromRoot(asking.seen[k])]]
    /\ RequestGoesTo("ask")
    /\ UNCHANGED <<catalogue, root, backupJob, backup, happened>>

AskForBackup ==
    /\ asking.step = "ask"
    /\ IF asking.queues
       THEN queueArtworkBackup(asking.id) /\ RequestGoesTo("idle")
       ELSE /\ ingest' = [enqueue("token") EXCEPT !["request"] = NoIngest("request")]
            /\ UNCHANGED backupJob
    /\ UNCHANGED <<catalogue, artwork, root, backup, happened>>

RequestStep ==
    \/ FindWork \/ ResetRootsForRetry \/ ReadForRequest \/ WriteForRequest \/ AskForBackup

-----------------------------------------------------------------------------
\* The backup of the work.

Claim(id) ==
    /\ backup.step = "idle" /\ backupJob[id] = "PENDING"
    /\ IF artwork.id = id
       THEN /\ backupJob' = [backupJob EXCEPT ![id] = "RUNNING"]
            /\ backup' = [NoBackup EXCEPT !.step = "root", !.id = id,
                                          !.todo = artwork.link]
       ELSE backupJob' = [backupJob EXCEPT ![id] = "DONE"] /\ UNCHANGED backup
    /\ UNCHANGED <<catalogue, artwork, root, ingest, happened>>

\* A root that is saved already is skipped; a failure ends the backup.
BackupRoot ==
    /\ backup.step = "root" /\ backup.todo # {}
    /\ \E k \in backup.todo :
          /\ k = "media" => "metadata" \notin backup.todo
          /\ \/ /\ root' = [root EXCEPT ![k] = "PINNED"]
                /\ backup' = [backup EXCEPT !.todo = @ \ {k}, !.at = k,
                      !.step = IF root[k] = "PINNED" THEN "root" ELSE "read"]
                /\ UNCHANGED happened
             \/ /\ root[k] # "PINNED" /\ Trouble
                /\ root' = [root EXCEPT ![k] = "FAILED"]
                /\ backup' = [backup EXCEPT !.step = "read", !.at = k,
                                            !.failed = TRUE]
    /\ UNCHANGED <<catalogue, artwork, backupJob, ingest>>

LeaveRoots ==
    /\ backup.step = "root" /\ backup.todo = {}
    /\ backup' = [backup EXCEPT !.step = "last read"]
    /\ UNCHANGED <<catalogue, artwork, root, backupJob, ingest, happened>>

AfterRoot == IF backup.failed THEN "settle" ELSE "root"

\* syncArtworksForRoot after each root, for the artwork that has it by then:
\* it is read with its roots, its statuses are written by id, and its waiting
\* job goes if all is saved.  syncArtworkStatuses at the end does the first
\* two of these for the artwork of the job.
SyncRead ==
    /\ backup.step \in {"read", "last read"}
    /\ LET last == backup.step = "last read"
           there == IF last THEN artwork.id = backup.id ELSE backup.at \in artwork.link
       IN  backup' = [backup EXCEPT
             !.step = IF there THEN IF last THEN "last write" ELSE "write"
                      ELSE IF last THEN "settle" ELSE AfterRoot,
             !.of = IF there THEN artwork.id ELSE "none",
             !.seen = [k \in Kinds |->
                          IF there /\ k \in artwork.link THEN root[k] ELSE "none"]]
    /\ UNCHANGED <<catalogue, artwork, root, backupJob, ingest, happened>>

SyncWrite ==
    /\ backup.step \in {"write", "last write"}
    /\ artwork' = IF artwork.id # backup.of THEN artwork
                  ELSE [artwork EXCEPT !.status =
                           [k \in Kinds |-> deriveArtworkStatusFromRoot(backup.seen[k])]]
    /\ backup' = [backup EXCEPT !.step =
           IF @ = "last write" THEN "settle"
           ELSE IF \A k \in Kinds : ~needsRootBackup(backup.seen[k]) THEN "drop job"
           ELSE AfterRoot]
    /\ UNCHANGED <<catalogue, root, backupJob, ingest, happened>>

DropSatisfiedJob ==
    /\ backup.step = "drop job"
    /\ backupJob' = [backupJob EXCEPT ![backup.of] = IF @ = "PENDING" THEN "none" ELSE @]
    /\ backup' = [backup EXCEPT !.step = AfterRoot]
    /\ UNCHANGED <<catalogue, artwork, root, ingest, happened>>

SettleJob ==
    /\ backup.step = "settle"
    /\ backupJob' = [backupJob EXCEPT ![backup.id] =
           IF @ # "RUNNING" THEN @ ELSE IF backup.failed THEN "FAILED" ELSE "DONE"]
    /\ backup' = NoBackup
    /\ UNCHANGED <<catalogue, artwork, root, ingest, happened>>

\* The rebalancer refills by the statuses of the roots, not of the artwork.
Refill ==
    /\ artwork.id # "none" /\ backupJob[artwork.id] \notin {"PENDING", "RUNNING"}
    /\ \E k \in artwork.link : needsRootBackup(root[k])
    /\ queueArtworkBackup(artwork.id)
    /\ UNCHANGED <<catalogue, artwork, root, ingest, backup, happened>>

IngestStep(p) ==
    \/ UpsertRoot(p) \/ FindRootless(p) \/ DropJob(p) \/ DropArtwork(p)
    \/ Persist(p) \/ Queue(p)

BackupStep ==
    \/ \E id \in Ids : Claim(id)
    \/ BackupRoot \/ LeaveRoots \/ SyncRead \/ SyncWrite
    \/ DropSatisfiedJob \/ SettleJob \/ Refill

IngestNext ==
    \/ \E p \in Paths : BeginIngest(p) \/ IngestStep(p) \/ FailIngest(p)
    \/ \E p \in {"token", "page"} : AskForIngest(p)
    \/ RequestArchive \/ RequestStep
    \/ BackupStep

\* The worker repeats its passes and takes up what is queued; nobody need ask
\* for anything, and a request may be broken off between two statements.
IngestFairness ==
    /\ \A p \in Paths : WF_ingestVars(BeginIngest(p) \/ IngestStep(p))
    /\ WF_ingestVars(BackupStep)

IngestSpec == IngestInit /\ [][IngestNext]_ingestVars /\ IngestFairness

-----------------------------------------------------------------------------
\* Whatever ingests and requests overlap with each other and with backups,
\* start statuses afresh, reset roots that were saved, drop the row of an
\* earlier version or fail: a work that discovery keeps finding ends up in the
\* archive, linked to its roots, saved, and shown as saved.
ShownAsSaved == catalogue.live => <>[](\A k \in catalogue.names["discovery"] :
    k \in artwork.link /\ root[k] = "PINNED" /\ artwork.status[k] = "PINNED")
=============================================================================
