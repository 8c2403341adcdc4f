---------------------------- MODULE Dependencies ----------------------------
(***************************************************************************)
(* The files an archived root depends on                                   *)
(* (src/src/server/archive/dependencies.ts): they are followed from        *)
(* reference to reference, depth first and up to MaxDepth, listed in the   *)
(* manifest of the root, and indexed for CID searches under the artwork    *)
(* whose backup asked (cid-index.ts).                                      *)
(*                                                                         *)
(* Artworks may share the root, and so its manifest, but never rows of the *)
(* index; several backups and ingests of one artwork write the same rows,  *)
(* and one that fails or is killed goes no further.  The recursion of      *)
(* archiveDependencyTree is the stack of a walk: one frame per call, with  *)
(* the references its loop has left.                                       *)
(***************************************************************************)
EXTENDS Integers, Sequences, FiniteSets, SequencesExt

CONSTANTS
    Assets,         \* CIDs with a path, the root among them
    RootFile,
    Elsewhere,      \* a reference that is not followed
    Depicted,       \* the artworks whose root it is
    Archivings,     \* backups and ingests, each of one artwork
    MaxDepth,       \* MAX_DEPENDENCY_DEPTH
    Webs            \* what may refer to what, each with its own bounds

\* refs has what every file refers to, in its order, and seeds the preview
\* urls of every artwork: files, and Elsewhere for all that is not on IPFS,
\* leaves the directory or is no address at all.  A reference to a garbled
\* file throws when it is read.  entries are the files of the root's own
\* directory, of and callers the archivings, outages bounds the failing calls.
Web == [refs : [Assets -> Seq(Assets \cup {Elsewhere})],
        seeds : [Depicted -> Seq(Assets \cup {Elsewhere})],
        garbled : SUBSET Assets, entries : SUBSET Assets,
        of : [Archivings -> Depicted], callers : SUBSET Archivings, outages : Nat]

ASSUME DependenciesAssumption ==
    /\ RootFile \in Assets /\ Elsewhere \notin Assets
    /\ MaxDepth \in Nat \ {0} /\ IsFiniteSet(Depicted)
    /\ Webs \subseteq Web

VARIABLES
    web,        \* it never changes
    archived,   \* the files in the storage
    rows,       \* IpfsCidIndex rows of the root: artwork, file, source type
    walk,       \* the verification in each archiving
    outages

dependencyVars == <<web, archived, rows, walk, outages>>

-----------------------------------------------------------------------------
Row(artwork, file, source) ==
    [artwork |-> artwork, file |-> file, source |-> source]

\* nodes is the manifest in memory, from files to what is known of them;
\* visited has the files that were followed, with their depth at the time.
\* History: the rows of a walk stand from their writing on, until another
\* archiving of the artwork deletes them to write its own.
NoWalk == [step |-> "idle", stack |-> <<>>, nodes |-> <<>>, visited |-> <<>>,
           stands |-> FALSE]

DependenciesInit ==
    /\ web \in Webs
    /\ archived = {RootFile}
    /\ rows = {}
    /\ walk = [a \in Archivings |-> NoWalk]
    /\ outages = 0

With(f, x, y) == [z \in DOMAIN f \cup {x} |-> IF z = x THEN y ELSE f[z]]

\* The artwork of an archiving.
ArtworkOf(a) == web.of[a]

Outage == outages < web.outages /\ outages' = outages + 1

\* What a sequence has at some of its places, in its order.
AtPlaces(s, places) ==
    [n \in 1..Cardinality(places) |->
        s[CHOOSE i \in places : Cardinality({j \in places : j <= i}) = n]]

dedupeReferences(s) == AtPlaces(s, {i \in DOMAIN s : \A j \in 1..(i - 1) : s[j] # s[i]})

toReferenceCandidate(r) == r # Elsewhere

Candidates(s) == AtPlaces(s, {i \in DOMAIN s : toReferenceCandidate(s[i])})

discoverReferencesFromArchivedAsset(f) ==
    dedupeReferences(Candidates(web.refs[f]))

artworkSeedReferences(d) ==
    dedupeReferences(Candidates(web.seeds[d]))

\* A call of archiveDependencyTree; it returns at once beyond the limit.
Call(stack, depth, refs) ==
    IF depth > MaxDepth THEN stack
    ELSE Append(stack, [depth |-> depth, todo |-> dedupeReferences(refs)])

-----------------------------------------------------------------------------
\* Every archiving starts with syncArtworkRootCidIndex: the row of the root
\* goes and is written again.
ClearRoot(a) ==
    /\ a \in web.callers /\ walk[a].step = "idle"
    /\ rows' = {r \in rows : r.artwork = ArtworkOf(a) => r.source # "root"}
    /\ walk' = [walk EXCEPT ![a].step = "sync"]
    /\ UNCHANGED <<web, archived, outages>>

IndexRoot(a) ==
    /\ walk[a].step = "sync"
    /\ rows' = rows \cup {Row(ArtworkOf(a), RootFile, "root")}
    /\ walk' = [walk EXCEPT ![a].step = "begin"]
    /\ UNCHANGED <<web, archived, outages>>

\* verifyArchivedRootDependencies up to the first reference.
BeginWalk(a) ==
    /\ walk[a].step = "begin"
    /\ walk' = [walk EXCEPT ![a] =
           [step |-> "follow",
            stack |-> Call(<<>>, 1, artworkSeedReferences(ArtworkOf(a))
                                  \o discoverReferencesFromArchivedAsset(RootFile)),
            nodes |-> With(<<>>, RootFile, [depth |-> 0, status |-> "DOWNLOADED"]),
            visited |-> With(<<>>, RootFile, 0), stands |-> FALSE]]
    /\ UNCHANGED <<web, archived, rows, outages>>

\* An ingest ends with the row of the root.
\* backupSingleRoot without a verification: a satisfied root is skipped if
\* its manifest is current, under whichever artwork, or its files are gone,
\* and one that is deferred is left; a root that Kubo holds already and one
\* whose verification throws still have their directory indexed.
SkipWalk(a) ==
    /\ walk[a].step = "begin"
    /\ \E next \in {"list", "done"} : walk' = [walk EXCEPT ![a].step = next]
    /\ UNCHANGED <<web, archived, rows, outages>>

Top(a) == Last(walk[a].stack)
Popped(a) == Front(walk[a].stack)
Rest(a) == Append(Popped(a), [Top(a) EXCEPT !.todo = Tail(@)])

\* Mutant: a file is marked before it is downloaded.
VisitedAtOnce(visited, file, depth) == With(visited, file, depth)

\* What has been visited once a file could not be downloaded.
VisitedAfterFailure(visited, file, depth) == visited

\* One turn of the loop of archiveDependencyTree: the node is written anew,
\* the file downloaded unless it is in the storage, and followed if that has
\* not been done; an error fails the node and leaves the loop going.
Follow(a) ==
    /\ walk[a].step = "follow" /\ walk[a].stack # <<>> /\ Top(a).todo # <<>>
    /\ LET file == Head(Top(a).todo)
           depth == Top(a).depth
           node(status) == With(walk[a].nodes, file,
                                [depth |-> depth, status |-> status])
           then(stack, nodes, visited) == walk' = [walk EXCEPT
               ![a].stack = stack, ![a].nodes = nodes, ![a].visited = visited]
           marked == With(walk[a].visited, file, depth)
       IN  \/ /\ file = RootFile
              /\ then(Rest(a), walk[a].nodes, walk[a].visited)
              /\ UNCHANGED <<archived, outages>>
           \/ /\ file \notin archived \cup {RootFile}
              /\ Outage
              /\ then(Rest(a), node("FAILED"),
                      VisitedAfterFailure(walk[a].visited, file, depth))
              /\ UNCHANGED archived
           \/ /\ file # RootFile
              /\ archived' = archived \cup {file}
              /\ IF file \in DOMAIN walk[a].visited
                 THEN then(Rest(a), node("DOWNLOADED"), walk[a].visited)
                 ELSE IF file \in web.garbled
                 THEN then(Rest(a), node("FAILED"), marked)
                 ELSE then(Call(Rest(a), depth + 1,
                                discoverReferencesFromArchivedAsset(file)),
                           node("DOWNLOADED"), marked)
              /\ UNCHANGED outages
    /\ UNCHANGED <<web, rows>>

Walked(a) == walk[a].step = "follow" /\ walk[a].stack = <<>>

Return(a) ==
    /\ walk[a].step = "follow" /\ walk[a].stack # <<>> /\ Top(a).todo = <<>>
    /\ walk' = [walk EXCEPT ![a].stack = Popped(a)]
    /\ UNCHANGED <<web, archived, rows, outages>>

\* writeDependencyManifest: the manifest counts as verified whatever failed.
SaveManifest(a) ==
    /\ Walked(a)
    /\ walk' = [walk EXCEPT ![a].step = "clear"]
    /\ UNCHANGED <<web, archived, rows, outages>>

\* indexDependencyManifestCids: all rows but the root's own go, the rows of
\* its directory among them; then every node is a row.
ClearRows(a) ==
    /\ walk[a].step = "clear"
    /\ rows' = {r \in rows : r.artwork = ArtworkOf(a) => r.source = "root"}
    /\ walk' = [b \in Archivings |->
           IF b = a THEN [walk[b] EXCEPT !.step = "index"]
           ELSE IF ArtworkOf(b) = ArtworkOf(a) THEN [walk[b] EXCEPT !.stands = FALSE]
           ELSE walk[b]]
    /\ UNCHANGED <<web, archived, outages>>

IndexNodes(a) ==
    /\ walk[a].step = "index"
    /\ rows' = rows \cup
           {Row(ArtworkOf(a), f, IF f = RootFile THEN "root" ELSE "dependency") :
                f \in DOMAIN walk[a].nodes}
    /\ walk' = [walk EXCEPT ![a].step = "list", ![a].stands = TRUE]
    /\ UNCHANGED <<web, archived, outages>>

\* The backup goes on without the manifest or its rows if one of them cannot
\* be written.
FailVerification(a) ==
    /\ walk[a].step \in {"clear", "index"} \/ Walked(a)
    /\ Outage
    /\ walk' = [walk EXCEPT ![a].step = "list"]
    /\ UNCHANGED <<web, archived, rows>>

\* tryIndexRootDagCids: a listing that fails leaves the rows alone.
ListEntries(a) ==
    /\ walk[a].step = "list"
    /\ \/ Outage /\ walk' = [walk EXCEPT ![a].step = "done"]
       \/ UNCHANGED outages /\ walk' = [walk EXCEPT ![a].step = "clear dag"]
    /\ UNCHANGED <<web, archived, rows>>

\* Mutant: the rows of the directory replace all but the root's.
ClearAllEntries(a) ==
    /\ walk[a].step = "clear dag"
    /\ rows' = {r \in rows : r.artwork = ArtworkOf(a) => r.source = "root"}
    /\ walk' = [walk EXCEPT ![a].step = "index dag"]
    /\ UNCHANGED <<web, archived, outages>>

\* indexKuboDagCids, from the answer of Kubo on.
ClearEntries(a) ==
    /\ walk[a].step = "clear dag"
    /\ rows' = {r \in rows : r.artwork = ArtworkOf(a) => r.source # "dag"}
    /\ walk' = [walk EXCEPT ![a].step = "index dag"]
    /\ UNCHANGED <<web, archived, outages>>

IndexEntries(a) ==
    /\ walk[a].step = "index dag"
    /\ rows' = rows \cup {Row(ArtworkOf(a), f, "dag") : f \in web.entries}
    /\ walk' = [walk EXCEPT ![a].step = "done"]
    /\ UNCHANGED <<web, archived, outages>>

WalkStep(a) ==
    \/ ClearRoot(a) \/ IndexRoot(a) \/ BeginWalk(a) \/ SkipWalk(a)
    \/ Follow(a) \/ Return(a) \/ SaveManifest(a)
    \/ ClearRows(a) \/ IndexNodes(a) \/ FailVerification(a)
    \/ ListEntries(a) \/ ClearEntries(a) \/ IndexEntries(a)

DependenciesNext == \E a \in Archivings : WalkStep(a)

DependenciesSpec == DependenciesInit /\ [][DependenciesNext]_dependencyVars

\* A search for a CID: the artworks whose root it is, and those it is indexed
\* under.
loadCidArtworkIdsForQuery(file) ==
    (IF file = RootFile THEN Depicted ELSE {})
      \cup {r.artwork : r \in {x \in rows : x.file = file}}

\* All CIDs of the artworks that were found.
loadSeedCidsForArtworks(artworks) ==
    {r.file : r \in {x \in rows : x.artwork \in artworks}}
      \cup (IF artworks = {} THEN {} ELSE {RootFile})

\* The artworks of a CID; one alone is no overlap.
buildCidOverlapGroups(found) ==
    LET artworksOf(f) == {r.artwork : r \in {x \in found : x.file = f}}
    IN  {[file |-> f, artworks |-> artworksOf(f)] :
            f \in {r.file : r \in {x \in found : Cardinality(artworksOf(x.file)) > 1}}}

\* What a search shows of works that share files with those it finds.
loadCidOverlapGroupsForQuery(file) ==
    LET artworks == loadCidArtworkIdsForQuery(file)
        cids == {file} \cup loadSeedCidsForArtworks(artworks)
    IN  IF artworks = {} THEN {}
        ELSE buildCidOverlapGroups({r \in rows : r.file \in cids})

-----------------------------------------------------------------------------
RefersTo(f, g) == Contains(web.refs[f], g)

\* The manifest of a root is complete as far as the walk promises: whatever
\* failed first and was found again by another way, every file that was
\* downloaded above the limit has been followed, and all it refers to is in
\* the manifest.
ReferencesFollowed == \A a \in Archivings : Walked(a) =>
    \A f \in DOMAIN walk[a].nodes :
        /\ walk[a].nodes[f].status = "DOWNLOADED"
        /\ f \notin web.garbled
        => /\ f \in DOMAIN walk[a].visited
           /\ walk[a].visited[f] < MaxDepth =>
                \A g \in Assets : RefersTo(f, g) => g \in DOMAIN walk[a].nodes

\* What a search should find: the files of the manifests that stand.
Indexed(d, f) == \E a \in Archivings :
    ArtworkOf(a) = d /\ walk[a].stands /\ f \in DOMAIN walk[a].nodes
Syncing(d) == \E a \in Archivings : ArtworkOf(a) = d /\ walk[a].step = "sync"

\* From the time a backup has indexed its manifest until another one of the
\* same artwork deletes these rows, a search for any file of the manifest
\* finds the artwork, and shows it together with another one that has the
\* file, whichever file of either is searched for: the other statements, of
\* this and of overlapping archivings, delete nothing of it.  Only the root
\* may be missing among the shared files, while it is being written again.
FoundBySearch ==
    /\ \A d \in Depicted : \A f \in Assets : Indexed(d, f) => d \in loadCidArtworkIdsForQuery(f)
    /\ \A d, e \in Depicted : \A f, g \in Assets :
          /\ d # e /\ Indexed(d, f) /\ Indexed(e, f) /\ Indexed(d, g)
          /\ f = RootFile => ~ Syncing(d) /\ ~ Syncing(e)
          => \E group \in loadCidOverlapGroupsForQuery(g) :
                 group.file = f /\ {d, e} \subseteq group.artworks
=============================================================================
