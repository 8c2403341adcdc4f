---------------------------- MODULE ProfileAssets ----------------------------
(***************************************************************************)
(* The profiles of Foundation's artists and their pictures                 *)
(* (src/src/server/archive/profile-assets.ts), archived when a work is     *)
(* ingested, and for all artists by a script that keeps a checkpoint file  *)
(* (src/scripts/backfill-profile-assets.ts).                               *)
(*                                                                         *)
(* Artists are numbered in the order of their wallets.  All that write a   *)
(* work store its wallet in lower case (jobs/ingest-foundation.ts:42,      *)
(* jobs/contract-upserts.ts:111, jobs/ingest-contract-token.ts:178-183 with *)
(* jobs/ethereum-rpc.ts:47), so that the cursor, which the script puts into *)
(* lower case, is the stored wallet it came from, and the SQL that compares *)
(* and orders the stored ones agrees with it.                              *)
(*                                                                         *)
(* The script may be killed anywhere, started again, and run twice at the  *)
(* same time; so may the ingests of works of one artist.  A picture stands *)
(* for each of the two kinds, which never meet.                            *)
(***************************************************************************)
EXTENDS Naturals, FiniteSets

CONSTANTS
    Backfills,      \* runs of the script that may overlap
    Visits,         \* ingests, each about the profile of an artist
    Circles         \* the worlds to consider, each with its own bounds

\* artists is their number, batch the size of a batch.  mishaps bounds the
\* failing requests, kills the ends of scripts, starts their beginnings.
Circle == [artists : Nat, batch : Nat \ {0}, scripts : SUBSET Backfills,
           visits : SUBSET Visits, live : BOOLEAN,
           mishaps : Nat, kills : Nat, starts : Nat]

ASSUME ProfileAssetsAssumption == Circles \subseteq Circle

VARIABLES
    circle,     \* the world: it never changes
    file,       \* the checkpoint file
    script,     \* runs of the script, with the checkpoint in memory
    archiver,   \* what is being done about a profile, by artist or by visit
    stored,     \* artists with a FoundationProfile row
    asset,      \* FoundationProfileAsset.status, "none" without a row
    onDisk,     \* artists whose picture is at its place, whole
    verdict,    \* history: how an artist was concluded, from which lookups
    counted     \* events counted against the bounds

profileVars ==
    <<circle, file, script, archiver, stored, asset, onDisk, verdict, counted>>

-----------------------------------------------------------------------------
Artists == 1..circle.artists

\* completed is left out of the checkpoint: it ends nothing by itself.
NoCheckpoint == [cursor |-> 0, processed |-> 0, pending |-> {}, torn |-> FALSE]
Torn == [NoCheckpoint EXCEPT !.torn = TRUE]

\* due are the artists of the batch, fresh those that have not been taken by
\* a consumer yet; results has their outcomes.
NoScript == [step |-> "down", mem |-> NoCheckpoint, due |-> {}, fresh |-> {},
             results |-> {}, cursorAfterBatch |-> 0]

\* An archiver belongs to a visit or to an artist in the batch of a script.
Tasks == Visits \cup (Backfills \X Artists)
NoTask == [step |-> "idle", artist |-> 0, byUsername |-> "none", heard |-> {},
           existed |-> FALSE]

ProfileInit ==
    /\ circle \in Circles
    /\ file = NoCheckpoint
    /\ script = [s \in Backfills |-> NoScript]
    /\ archiver = [x \in Tasks |-> NoTask]
    /\ stored = {} /\ onDisk = {}
    /\ asset = [a \in Artists |-> "none"]
    /\ verdict = [a \in Artists |-> {}]
    /\ counted = [mishaps |-> 0, kills |-> 0, starts |-> 0]

Tally(what) == /\ counted[what] < circle[what]
              /\ counted' = [counted EXCEPT ![what] = @ + 1]

-----------------------------------------------------------------------------
(* The lookup of a profile, from the answers of its sources: the profile   *)
(* asked for, another one, none, or a failure, of which only the refusals   *)
(* of the API ("forbidden") are told apart.                                *)

Found == {"own", "other"}
Failure == {"error", "forbidden"}
Answers == [scraped : Found \cup {"none", "error"},
            direct : Found \cup {"none"} \cup Failure,
            search : Found \cup {"none"} \cup Failure]

\* The sources in the order they are asked, each if the ones before have not
\* settled it; a refusal of the second ends it.
Asked(ans) ==
    {"scraped"}
      \cup (IF ans.scraped \in Found THEN {} ELSE {"direct"})
      \cup (IF ans.scraped \in Found \/ ans.direct \in Found \cup {"forbidden"}
            THEN {} ELSE {"search"})

Failing(ans) == {x \in Asked(ans) : ans[x] \in Failure}

FirstFailure(ans) ==
    IF "scraped" \in Failing(ans) THEN ans.scraped
    ELSE IF "direct" \in Failing(ans) THEN ans.direct ELSE ans.search

lookupFoundationProfileByUsername(ans) ==
    IF \E x \in Asked(ans) : ans[x] \in Found
    THEN ans[CHOOSE x \in Asked(ans) : ans[x] \in Found]
    ELSE IF Failing(ans) # {} THEN FirstFailure(ans) ELSE "none"

\* What a lookup may come to, and whether a source of it failed to answer.
LookUps == {[result |-> lookupFoundationProfileByUsername(ans),
             failing |-> Failing(ans) # {}] : ans \in Answers}

\* The works of the wallet may name its user, and show a picture.
WorksOfWallet == SUBSET {"username", "image"}

lookupFoundationProfileByWallet(works, look) ==
    LET byName == IF "username" \in works THEN look.result ELSE "none"
    IN  IF byName \notin Found /\ "image" \in works THEN "own" ELSE byName

-----------------------------------------------------------------------------
(* archiveFoundationProfileBackfillArtist for the batches of the script,   *)
(* resolveFoundationProfileByUsername for visits.                          *)

taskUnchanged == <<circle, file>>

IsVisit(x) == x \in Visits
Of(x) == archiver[x].artist
Move(x, step) == archiver' = [archiver EXCEPT ![x].step = step]

\* The end of a task: a script gets the outcome, and history the verdict.
ConcludeIn(x, outcome, heard) ==
    /\ archiver' = [archiver EXCEPT ![x] = NoTask]
    /\ IF IsVisit(x) THEN UNCHANGED <<script, verdict>>
       ELSE /\ script' = [script EXCEPT ![x[1]].results = @ \cup {<<Of(x), outcome>>}]
            /\ verdict' = [verdict EXCEPT ![Of(x)] =
                  IF outcome = "forbidden" THEN @
                  ELSE @ \cup {[outcome |-> outcome, heard |-> heard]}]

Conclude(x, outcome) == ConcludeIn(x, outcome, archiver[x].heard)

BeginVisit(x) ==
    /\ x \in circle.visits /\ archiver[x].step = "idle" /\ Tally("starts")
    /\ \E a \in Artists :
          archiver' = [archiver EXCEPT ![x] = [NoTask EXCEPT
              !.step = IF circle.live THEN "upsert" ELSE "idle", !.artist = a]]
    /\ UNCHANGED <<taskUnchanged, script, stored, asset, onDisk, verdict>>

\* runWithConcurrency: a consumer takes the next artist of the batch.
TakeArtist(s) ==
    /\ script[s].step = "batch"
    /\ \E a \in script[s].fresh :
          /\ \A b \in script[s].fresh : a <= b
          /\ script' = [script EXCEPT ![s].fresh = @ \ {a}]
          /\ archiver' = [archiver EXCEPT ![<<s, a>>] = [NoTask EXCEPT
                 !.step = IF a \in stored THEN "upsert"
                          ELSE IF circle.live THEN "by username" ELSE "missing",
                 !.artist = a]]
    /\ UNCHANGED <<taskUnchanged, stored, asset, onDisk, verdict, counted>>

Fails(failing) == IF failing THEN Tally("mishaps") ELSE UNCHANGED counted

LookUpByUsername(x) ==
    /\ archiver[x].step = "by username"
    /\ \E look \in LookUps :
          /\ Fails(look.failing)
          /\ archiver' = [archiver EXCEPT
                ![x].step = IF look.result = "own" THEN "upsert" ELSE "by wallet",
                ![x].byUsername = look.result, ![x].heard = {look}]
    /\ UNCHANGED <<taskUnchanged, script, stored, asset, onDisk, verdict>>

\* A profile found by way of the works may be another account's: it is
\* archived, for that account, and the artist counts as archived.
LookUpByWallet(x) ==
    /\ archiver[x].step = "by wallet"
    /\ \/ \E failure \in Failure : Tally("mishaps") /\ Conclude(x, failure)
       \/ \E works \in WorksOfWallet, look \in LookUps :
             LET r == lookupFoundationProfileByWallet(works, look)
                 u == archiver[x].byUsername
                 named == "username" \in works
                 outcome == IF r \in Failure THEN r ELSE IF u \in Failure THEN u
                            ELSE "missing"
             IN  /\ Fails(named /\ look.failing)
                 /\ CASE r = "own" -> Move(x, "upsert") /\ UNCHANGED <<script, verdict>>
                      [] r = "other" -> Conclude(x, "archived")
                      [] OTHER -> ConcludeIn(x, outcome, archiver[x].heard
                                              \cup (IF named THEN {look} ELSE {}))
    /\ UNCHANGED <<taskUnchanged, stored, asset, onDisk>>

ConcludeMissing(x) ==
    /\ archiver[x].step = "missing" /\ Conclude(x, "missing")
    /\ UNCHANGED <<taskUnchanged, stored, asset, onDisk, counted>>

\* archiveFoundationProfile: the upsert of the row, then the picture.
UpsertProfile(x) ==
    /\ archiver[x].step = "upsert"
    /\ stored' = stored \cup {Of(x)}
    /\ IF circle.live THEN Move(x, "find") /\ UNCHANGED <<script, verdict>>
       ELSE Conclude(x, "archived")
    /\ UNCHANGED <<taskUnchanged, asset, onDisk, counted>>

FindAsset(x) ==
    /\ archiver[x].step = "find"
    /\ IF asset[Of(x)] = "DOWNLOADED" /\ Of(x) \in onDisk
       THEN Conclude(x, "archived")
       ELSE /\ archiver' = [archiver EXCEPT ![x].step = "mark",
                                ![x].existed = asset[Of(x)] # "none"]
            /\ UNCHANGED <<script, verdict>>
    /\ UNCHANGED <<taskUnchanged, stored, asset, onDisk, counted>>

\* Two that found no row both create it; the second one throws.
MarkAsset(x) ==
    /\ archiver[x].step = "mark"
    /\ IF ~archiver[x].existed /\ asset[Of(x)] # "none"
       THEN Conclude(x, "error") /\ UNCHANGED asset
       ELSE /\ asset' = [asset EXCEPT ![Of(x)] = "PENDING"]
            /\ Move(x, "download") /\ UNCHANGED <<script, verdict>>
    /\ UNCHANGED <<taskUnchanged, stored, onDisk, counted>>

\* The file is written beside its place and renamed.
DownloadAsset(x) ==
    /\ archiver[x].step = "download"
    /\ \/ /\ onDisk' = onDisk \cup {Of(x)} /\ Move(x, "downloaded")
          /\ UNCHANGED counted
       \/ Tally("mishaps") /\ Move(x, "failed") /\ UNCHANGED onDisk
    /\ UNCHANGED <<taskUnchanged, script, stored, asset, verdict>>

\* A picture that could not be had does not fail the profile.
RecordAsset(x) ==
    /\ archiver[x].step \in {"downloaded", "failed"}
    /\ asset' = [asset EXCEPT ![Of(x)] =
           IF archiver[x].step = "failed" THEN "FAILED" ELSE "DOWNLOADED"]
    /\ Conclude(x, "archived")
    /\ UNCHANGED <<taskUnchanged, stored, onDisk, counted>>

TaskStep(x) ==
    \/ LookUpByUsername(x) \/ LookUpByWallet(x) \/ ConcludeMissing(x)
    \/ UpsertProfile(x) \/ FindAsset(x) \/ MarkAsset(x) \/ DownloadAsset(x)
    \/ RecordAsset(x)

-----------------------------------------------------------------------------
(* The script.                                                             *)

scriptUnchanged == <<circle, stored, asset, onDisk, verdict>>

\* loadCheckpoint: a file that cannot be parsed counts as none.
StartScript(s) ==
    /\ s \in circle.scripts /\ script[s].step = "down" /\ Tally("starts")
    /\ script' = [script EXCEPT ![s] = [NoScript EXCEPT !.step = "choose",
           !.mem = IF file.torn THEN NoCheckpoint ELSE file]]
    /\ UNCHANGED <<scriptUnchanged, file, archiver>>

Smallest(n, S) == {a \in S : Cardinality({b \in S : b < a}) < n}

\* takeDuePendingArtists, which takes them off the list, and without any the
\* next batch from the cursor on; time makes pending artists due.
ChooseBatch(s) ==
    /\ script[s].step = "choose"
    /\ LET mem == script[s].mem
           rest == Smallest(circle.batch, {a \in Artists : a > mem.cursor})
       IN  \/ \E due \in SUBSET mem.pending :
                 /\ due # {} /\ Cardinality(due) <= circle.batch
                 /\ script' = [script EXCEPT ![s].step = "batch", ![s].due = due,
                       ![s].fresh = due, ![s].mem.pending = @ \ due,
                       ![s].cursorAfterBatch = mem.cursor]
           \/ \E last \in rest :
                 /\ \A a \in rest : a <= last
                 /\ script' = [script EXCEPT ![s].step = "batch", ![s].due = rest,
                       ![s].fresh = rest, ![s].cursorAfterBatch = last]
           \/ /\ rest = {} /\ mem.pending = {}
              /\ script' = [script EXCEPT ![s].step = "truncate last"]
    /\ UNCHANGED <<scriptUnchanged, file, archiver, counted>>

\* Mutant: the artists to be tried again replace those that wait already.
RescheduledOnly(pending, retried) == IF retried = {} THEN pending ELSE retried

\* scheduleRetryableArtist for each of them.
Rescheduled(pending, retried) == pending \cup retried

\* The results are counted, and a refusal by the API is tried again later.
ProcessResults(s) ==
    /\ script[s].step = "batch"
    /\ {r[1] : r \in script[s].results} = script[s].due
    /\ LET retried == {r[1] : r \in {q \in script[s].results : q[2] = "forbidden"}}
       IN  script' = [script EXCEPT ![s] = [@ EXCEPT
               !.step = "truncate", !.due = {}, !.results = {},
               !.mem = [cursor |-> script[s].cursorAfterBatch,
                        processed |-> script[s].mem.processed
                                        + Cardinality(script[s].due \ retried),
                        pending |-> Rescheduled(script[s].mem.pending, retried),
                        torn |-> FALSE]]]
    /\ UNCHANGED <<scriptUnchanged, file, archiver, counted>>

\* saveCheckpoint is not atomic.
TruncateFile(s) ==
    /\ script[s].step \in {"truncate", "truncate last"}
    /\ file' = Torn
    /\ script' = [script EXCEPT ![s].step =
           IF @ = "truncate" THEN "write" ELSE "write last"]
    /\ UNCHANGED <<scriptUnchanged, archiver, counted>>

WriteFile(s) ==
    /\ script[s].step \in {"write", "write last"}
    /\ file' = script[s].mem
    /\ script' = [script EXCEPT ![s] =
           IF @.step = "write" THEN [@ EXCEPT !.step = "choose"] ELSE NoScript]
    /\ UNCHANGED <<scriptUnchanged, archiver, counted>>

KillScript(s) ==
    /\ script[s].step # "down" /\ Tally("kills")
    /\ script' = [script EXCEPT ![s] = NoScript]
    /\ archiver' = [x \in Tasks |-> IF ~IsVisit(x) /\ x[1] = s THEN NoTask
                                                               ELSE archiver[x]]
    /\ UNCHANGED <<scriptUnchanged, file>>

ScriptStep(s) ==
    \/ ChooseBatch(s) \/ TakeArtist(s) \/ ProcessResults(s)
    \/ TruncateFile(s) \/ WriteFile(s)

ProfileNext ==
    \/ \E x \in Visits : BeginVisit(x)
    \/ \E x \in Tasks : TaskStep(x)
    \/ \E s \in Backfills : StartScript(s) \/ ScriptStep(s) \/ KillScript(s)

ProfileSpec == ProfileInit /\ [][ProfileNext]_profileVars

-----------------------------------------------------------------------------
Concluded(a) == verdict[a] # {}

\* A source of a lookup failed to answer, and no later one of that lookup
\* named another account instead.
InDoubt(heard) == \E look \in heard : look.failing /\ look.result # "other"

\* Nobody is missed by the backfill: whenever the script is killed, however
\* runs of it overlap and wherever the checkpoint file is torn, an artist
\* before the cursor of the file has been concluded or waits in it to be
\* tried again.  And an artist is concluded as missing with a source that
\* failed to answer only if a later source of the same lookup named another
\* account: that account ends the lookup, and the failure is forgotten.
NobodyIsMissed ==
    /\ ~file.torn =>
          \A a \in Artists : a <= file.cursor => Concluded(a) \/ a \in file.pending
    /\ \A a \in Artists : \A v \in verdict[a] :
          v.outcome = "missing" => ~InDoubt(v.heard)
=============================================================================
