---------------------------- MODULE ArchiveFiles ----------------------------
(***************************************************************************)
(* One file of a CID in the two storage directories: calls of              *)
(* downloadFileToArchive (src/src/server/archive/storage.ts), which ask    *)
(* the Rust archiver (src/rust-archiver/src/main.rs) or do it themselves,  *)
(* and the pin that removes the directory from the cold storage again.     *)
(* Both programs work on the same paths without knowing of each other.     *)
(*                                                                         *)
(* Every action is one file operation.  A download is written to a name of *)
(* its own and renamed, so the hot file is never torn; a copy into the     *)
(* cold storage is written in place.                                       *)
(***************************************************************************)
EXTENDS Integers, FiniteSets

CONSTANTS
    Callers,        \* calls of downloadFileToArchive for the file
    Unheld,         \* the holder of a free key, the copier of a finished copy
    Setups          \* the storages to consider, each with its own bounds

\* linked: hot and cold directory are on one file system; archiver:
\* ARCHIVE_ARCHIVER_URL is set.  callers take part, and mishaps bounds the
\* downloads that fail, the requests that time out and the killed programs.
Setup == [linked : BOOLEAN, archiver : BOOLEAN, callers : SUBSET Callers,
          mishaps : Nat]

Agents == [side : {"node", "rust"}, call : Callers]

ASSUME FilesAssumption ==
    /\ Unheld \notin Agents
    /\ Setups \subseteq Setup

VARIABLES
    setup,      \* the storage: it never changes
    hot,        \* the file in the hot directory; "linked" if it is also cold
    cold,       \* the file in the cold directory
    copier,     \* the agent that truncated the cold file last and still writes
    agent,      \* where each call and each request of the archiver is
    inflight,   \* who holds the archiver's mutex of the file
    recent,     \* recent_results has the file
    cooling,    \* rustArchiverRetryAt lies ahead
    blocks,     \* Kubo has pinned the content
    fetched,    \* the file has been downloaded completely
    cut,        \* a copy was broken off, or made of the file onto itself
    mishaps     \* events counted against the bound

filesVars == <<setup, hot, cold, copier, agent, inflight, recent, cooling,
               blocks, fetched, cut, mishaps>>
files == <<hot, cold, copier, fetched>>
sidecar == <<inflight, recent, cooling>>
rest == <<setup, blocks, cut, mishaps>>

Node(c) == [side |-> "node", call |-> c]
Rust(c) == [side |-> "rust", call |-> c]

FilesInit ==
    /\ setup \in Setups
    /\ hot = "absent" /\ cold = "absent" /\ copier = Unheld
    /\ agent = [x \in Agents |-> "idle"]
    /\ inflight = Unheld /\ recent = FALSE /\ cooling = FALSE
    /\ blocks = FALSE /\ fetched = FALSE /\ cut = FALSE /\ mishaps = 0

-----------------------------------------------------------------------------
Step(x, from, to) == agent[x] = from /\ agent' = [agent EXCEPT ![x] = to]

Mishap == mishaps < setup.mishaps /\ mishaps' = mishaps + 1

\* A program that is done with the file; the archiver gives the key back.
Leave(x) == inflight' = IF inflight = x THEN Unheld ELSE inflight

\* The shared first half: is it there already?
LookCold(x) ==
    /\ Step(x, "look", CASE cold = "absent" -> "lookhot"
                         [] cold # "absent" /\ x.side = "node" -> "discard"
                         [] cold # "absent" /\ x.side = "rust" -> "stat")
    /\ UNCHANGED <<files, sidecar, rest>>

LookHot(x) ==
    /\ Step(x, "lookhot", IF hot = "absent" THEN "fetch" ELSE "promote")
    /\ UNCHANGED <<files, sidecar, rest>>

\* Mutant: the response is written to the hot path itself.
FetchInPlace(x) ==
    /\ Step(x, "fetch", "rename") /\ hot' = "torn"
    /\ UNCHANGED <<cold, copier, fetched, sidecar, rest>>

\* The gateways are tried in turn; the response goes to a temporary name.
FetchSource(x) ==
    /\ \/ Step(x, "fetch", "rename") /\ UNCHANGED mishaps
       \/ Step(x, "fetch", "failed") /\ Mishap
    /\ UNCHANGED <<files, sidecar, setup, blocks, cut>>

RenameTemp(x) ==
    /\ Step(x, "rename", "promote")
    /\ hot' = "whole" /\ fetched' = TRUE
    /\ UNCHANGED <<cold, copier, sidecar, rest>>

-----------------------------------------------------------------------------
(* promoteHotFileToCold and clone_hot_into_cold.                           *)

CheckCold(x) ==
    /\ Step(x, "promote", IF cold = "absent" THEN "link" ELSE "discard")
    /\ UNCHANGED <<files, sidecar, rest>>

\* Without the hot file, or across file systems, the link fails and the file
\* is copied instead.
Link(x) ==
    /\ Step(x, "link", CASE hot = "absent" -> "copy"
                         [] hot # "absent" /\ cold # "absent" -> "discard"
                         [] hot # "absent" /\ cold = "absent" ->
                                IF setup.linked THEN "discard" ELSE "copy")
    /\ IF hot # "absent" /\ cold = "absent" /\ setup.linked
       THEN cold' = hot /\ hot' = "linked"
       ELSE UNCHANGED <<hot, cold>>
    /\ UNCHANGED <<copier, fetched, sidecar, rest>>

\* The source has to be there; the target is truncated.  Node sees that both
\* are one file and leaves it alone, Rust empties it.
OpenCopy(x) ==
    /\ CASE hot = "absent" -> /\ Step(x, "copy", "failed")
                              /\ UNCHANGED <<cold, copier, cut>>
         [] hot = "linked" -> /\ Step(x, "copy", "discard")
                              /\ cold' = IF x.side = "rust" THEN "torn" ELSE cold
                              /\ cut' = (cut \/ x.side = "rust")
                              /\ UNCHANGED copier
         [] OTHER ->          /\ Step(x, "copy", "copying")
                              /\ cold' = "torn" /\ copier' = x
                              /\ UNCHANGED cut
    /\ UNCHANGED <<hot, fetched, sidecar, setup, blocks, mishaps>>

\* Whoever truncated the file last writes all of it.
EndOfCopy(x) ==
    /\ cold' = IF copier = x THEN "whole" ELSE cold
    /\ copier' = IF copier = x THEN Unheld ELSE copier

FinishCopy(x) ==
    /\ Step(x, "copying", "discard")
    /\ EndOfCopy(x)
    /\ UNCHANGED <<hot, fetched, sidecar, rest>>

\* A copy whose request was dropped runs to its end by itself.
FinishLooseCopy(x) ==
    /\ Step(x, "loose", "failed")
    /\ EndOfCopy(x)
    /\ UNCHANGED <<hot, fetched, sidecar, rest>>

DiscardHot(x) ==
    /\ Step(x, "discard", "stat")
    /\ hot' = "absent"
    /\ UNCHANGED <<cold, copier, fetched, sidecar, rest>>

\* The size of the cold file is read and the call fails if it is gone; the
\* archiver knows the size of what it has just downloaded.
StatCold(x) ==
    \E saved \in {cold # "absent", x.side = "rust" \/ cold # "absent"} :
        /\ Step(x, "stat", IF saved THEN "done" ELSE "failed")
        /\ recent' = (recent \/ (x.side = "rust" /\ saved))
        /\ UNCHANGED <<files, inflight, cooling, rest>>

FileStep(x) ==
    \/ LookCold(x) \/ LookHot(x) \/ FetchSource(x) \/ RenameTemp(x)
    \/ CheckCold(x) \/ Link(x) \/ OpenCopy(x) \/ FinishCopy(x)
    \/ FinishLooseCopy(x) \/ DiscardHot(x) \/ StatCold(x)

-----------------------------------------------------------------------------
(* The archiver's requests.                                                *)

\* archive_root: an answer from memory, or the mutex of the file, for which a
\* request may have waited since before the answer was remembered.
AcceptRequest(c) ==
    /\ \/ /\ recent /\ cold # "absent"
          /\ Step(Rust(c), "queued", "done") /\ UNCHANGED inflight
       \/ /\ inflight = Unheld /\ inflight' = Rust(c)
          /\ Step(Rust(c), "queued", "look")
    /\ UNCHANGED <<files, recent, cooling, rest>>

\* The guard goes out of scope with the answer.
ReleaseKey(c) ==
    /\ inflight = Rust(c) /\ agent[Rust(c)] \in {"done", "failed"}
    /\ inflight' = Unheld
    /\ UNCHANGED <<files, agent, recent, cooling, rest>>

\* The caller has hung up and the server drops the request at its next await;
\* only a copy under way goes on.
DropRequest(c) ==
    /\ agent[Rust(c)] \notin {"idle", "done", "failed", "loose"}
    /\ agent[Node(c)] \notin {"idle", "asking"}
    /\ agent' = [agent EXCEPT ![Rust(c)] =
                     IF @ = "copying" THEN "loose" ELSE "failed"]
    /\ Leave(Rust(c))
    /\ UNCHANGED <<files, recent, cooling, rest>>

-----------------------------------------------------------------------------
(* downloadFileToArchive.                                                  *)

DownloadFile(c) ==
    /\ c \in setup.callers /\ agent[Node(c)] = "idle"
    /\ agent' = IF setup.archiver /\ ~cooling
                THEN [agent EXCEPT ![Node(c)] = "asking", ![Rust(c)] = "queued"]
                ELSE [agent EXCEPT ![Node(c)] = "look"]
    /\ UNCHANGED <<files, sidecar, rest>>

\* requestRustArchiver returns; a file that is missing after a success, and
\* any error, lead to the download in Node.
TakeAnswer(c) ==
    LET saved == agent[Rust(c)] = "done" /\ cold # "absent" IN
    /\ agent[Rust(c)] \in {"done", "failed"}
    /\ Step(Node(c), "asking", IF saved THEN "done" ELSE "look")
    /\ cooling' = (cooling /\ ~saved)
    /\ UNCHANGED <<files, inflight, recent, rest>>

\* RustArchiverUnavailableError: the request times out or is refused.
GiveUpAsking(c) ==
    /\ Step(Node(c), "asking", "look") /\ Mishap
    /\ cooling' = TRUE
    /\ UNCHANGED <<files, inflight, recent, setup, blocks, cut>>

EndCooldown ==
    /\ cooling /\ cooling' = FALSE
    /\ UNCHANGED <<files, agent, inflight, recent, rest>>

\* One of the two programs is killed: the calls of Node end, and so do those
\* of the archiver with its mutexes and its memory.
Kill(side) ==
    LET hit == {x \in Agents : x.side = side /\ agent[x] # "idle"} IN
    /\ \E x \in hit : agent[x] \notin {"done", "failed"}
    /\ Mishap
    /\ agent' = [x \in Agents |->
           IF x \in hit /\ agent[x] # "done" THEN "failed" ELSE agent[x]]
    /\ cut' = (cut \/ copier \in hit)
    /\ copier' = IF copier \in hit THEN Unheld ELSE copier
    /\ inflight' = IF side = "rust" THEN Unheld ELSE inflight
    /\ recent' = (recent /\ side = "node")
    /\ cooling' = (cooling /\ side = "rust")
    /\ UNCHANGED <<setup, hot, cold, fetched, blocks>>

-----------------------------------------------------------------------------
(* pinCidWithKuboFromNode, as far as the file is concerned.                *)

\* Only the right content yields the CID.
PinBlocks ==
    /\ ~blocks /\ cold = "whole"
    /\ \E c \in Callers : agent[Node(c)] = "done"
    /\ blocks' = TRUE
    /\ UNCHANGED <<setup, files, agent, sidecar, cut, mishaps>>

\* The directory is removed; a file that is being written loses its name.
RemoveCold ==
    /\ blocks /\ cold # "absent"
    /\ cold' = "absent" /\ copier' = Unheld
    /\ hot' = IF hot = "linked" THEN cold ELSE hot
    /\ UNCHANGED <<setup, fetched, agent, sidecar, blocks, cut, mishaps>>

-----------------------------------------------------------------------------
FilesNext ==
    \/ \E x \in Agents : FileStep(x)
    \/ \E c \in Callers : \/ DownloadFile(c) \/ TakeAnswer(c) \/ GiveUpAsking(c)
                          \/ AcceptRequest(c) \/ ReleaseKey(c) \/ DropRequest(c)
    \/ \E side \in {"node", "rust"} : Kill(side)
    \/ EndCooldown \/ PinBlocks \/ RemoveCold

FilesSpec == FilesInit /\ [][FilesNext]_filesVars

-----------------------------------------------------------------------------
\* A call that has been told of success finds the file whole or pinned.
SavedIsWhole ==
    (\E c \in Callers : agent[Node(c)] = "done") =>
        cold = "whole" \/ blocks \/ copier # Unheld \/ cut

\* What has been downloaded once is never lost.
FetchedIsKept ==
    fetched => \/ hot # "absent" \/ cold = "whole" \/ blocks
               \/ copier # Unheld \/ cut

\* A call that loses the race for the hot file fails, but only when the one
\* that won it has saved the file.
FailureIsHarmless ==
    (mishaps = 0 /\ \E c \in Callers : agent[Node(c)] = "failed") =>
        cold # "absent" \/ blocks

\* Safety of storage.ts and main.rs: through every interleaving of downloads
\* in both programs and of the pin, content is only ever lost by a copy that
\* is broken off or that the archiver makes of the file onto itself.
FilesKept == SavedIsWhole /\ FetchedIsKept /\ FailureIsHarmless
=============================================================================
