----------------------------- MODULE IpfsGateway -----------------------------
(***************************************************************************)
(* The files of the archive while they are being read and moved: the       *)
(* /ipfs route (src/src/app/ipfs/[cid]/[[...assetPath]]/route.ts), the     *)
(* move of cold storage into Kubo (pinCidWithKubo in storage.ts, run by    *)
(* the worker and by two scripts), the hydration of directories, and the   *)
(* routes to desktop devices (src/src/server/relay/pin-routing.ts).        *)
(*                                                                         *)
(* A CID stands for the DAG of its files.  Kubo computes the CID of what   *)
(* it is given, so a part of a directory has another one - perhaps that of *)
(* another root.  Kubo runs without garbage collection (docker-compose):   *)
(* what it has been given, pinned or not, it serves.                       *)
(***************************************************************************)
EXTENDS Naturals, Sequences, FiniteSets, SequencesExt

CONSTANTS
    Cids,
    Files,          \* contents
    Nodes,          \* processes that call pinCidWithKubo, pass after pass
    Scripts,        \* runs of migrate-kubo-pins-fast.sh
    Visitors,       \* requests for a file
    Syncs,          \* inventories of the device under way
    Sites           \* the worlds to consider, each with its own bounds

Movers == Nodes \cup Scripts

\* layout tells a bare file from a directory, holds are the files of a CID,
\* stored the files in cold storage at the start.  hydrate are the directories
\* that are being completed.  visits, inventories and mishaps bound the
\* requests, the inventories and the calls that fail or are cut off.
Site == [layout : [Cids -> {"file", "directory"}], holds : [Cids -> SUBSET Files],
         stored : [Cids -> SUBSET Files], hydrate : SUBSET Cids,
         movers : SUBSET Movers, visits : Nat, inventories : Nat, mishaps : Nat]

ASSUME GatewayAssumption ==
    /\ Sites \subseteq Site
    /\ \A s \in Sites, c \in Cids : s.stored[c] \subseteq s.holds[c]

VARIABLES
    site,       \* the world: it never changes
    tree,       \* the directory of each CID in cold storage
    pins,       \* the recursive pins of Kubo
    dags,       \* the DAGs Kubo has
    mover,      \* what moves a CID into Kubo
    hydrator,   \* what completes a directory, by CID
    visitor,    \* requests
    route,      \* RelayDevicePin rows of the one device, by CID
    sync,       \* syncRelayDevicePinInventory under way
    last,       \* history: the latest inventory, and whether it was alone
    losses      \* events counted against the bounds

gatewayVars == <<site, tree, pins, dags, mover, hydrator, visitor, route,
                 sync, last, losses>>

routeVars == <<route, sync, last>>

-----------------------------------------------------------------------------
DagOf(c) == [layout |-> site.layout[c], files |-> site.holds[c]]

NoMove == [step |-> "idle", cid |-> CHOOSE c \in Cids : TRUE, todo |-> {}, names |-> {}]
NoVisit == [step |-> "idle", cid |-> CHOOSE c \in Cids : TRUE,
            file |-> CHOOSE f \in Files : TRUE, sure |-> FALSE]
NoSync == [step |-> "idle", items |-> {}, strays |-> {}, alone |-> TRUE]
NoHydration == [step |-> "idle", names |-> {}]

GatewayInit ==
    /\ site \in Sites
    /\ tree = site.stored
    /\ pins = {}
    /\ dags = {}
    /\ mover = [m \in Movers |-> NoMove]
    /\ hydrator = [c \in Cids |-> NoHydration]
    /\ visitor = [v \in Visitors |-> NoVisit]
    /\ route = [c \in Cids |-> [pinned |-> FALSE, cooling |-> FALSE]]
    /\ sync = [s \in Syncs |-> NoSync]
    /\ last = [items |-> {}, alone |-> TRUE]
    /\ losses = [visits |-> 0, inventories |-> 0, mishaps |-> 0]

Lose(what) == /\ losses[what] < site[what]
              /\ losses' = [losses EXCEPT ![what] = @ + 1]

-----------------------------------------------------------------------------
\* Cold storage into Kubo.

\* The rows keep their status when a root has been moved (that is what the
\* comments promise the pages), so every pass goes over all of them again.
NewPass(m) ==
    /\ m \in site.movers
    /\ mover[m].step = "idle" /\ mover[m].todo = {}
    /\ mover' = [mover EXCEPT ![m].todo = Cids]
    /\ UNCHANGED <<site, tree, pins, dags, hydrator, visitor, routeVars, losses>>

Finished(m) == mover' = [mover EXCEPT ![m].step = "idle", ![m].names = {}]
MoverAt(m, step) == mover[m].step = step

MoverOnly(m) == UNCHANGED <<site, tree, pins, dags, hydrator, visitor, routeVars>>

\* The script tells a missing directory before it asks Kubo.
Take(m) ==
    /\ MoverAt(m, "idle")
    /\ \E c \in mover[m].todo :
          mover' = [mover EXCEPT ![m].cid = c, ![m].todo = @ \ {c},
                        ![m].step = IF m \in Scripts /\ tree[c] = {} THEN "idle" ELSE "look"]
    /\ UNCHANGED losses
    /\ MoverOnly(m)

\* kuboHasRecursivePin: whatever goes wrong counts as no.
LookForPin(m) ==
    /\ MoverAt(m, "look")
    /\ \/ /\ mover' = [mover EXCEPT ![m].step =
                          IF DagOf(mover[m].cid) \in pins THEN "remove" ELSE "list"]
          /\ UNCHANGED losses
       \/ /\ mover' = [mover EXCEPT ![m].step = "list"]
          /\ Lose("mishaps")
    /\ MoverOnly(m)

ListTree(m) ==
    /\ MoverAt(m, "list")
    /\ IF tree[mover[m].cid] = {}
       THEN Finished(m)
       ELSE mover' = [mover EXCEPT ![m].step = "send", ![m].names = tree[mover[m].cid]]
    /\ UNCHANGED losses
    /\ MoverOnly(m)

\* pinCidWithKubo tells a bare file by its name (detectCidLayout), the script
\* adds everything as a directory.
Added(m) == [layout |-> IF m \in Scripts THEN "directory" ELSE site.layout[mover[m].cid],
             files |-> mover[m].names]

\* A file that has gone meanwhile breaks the stream.  The answer may be lost
\* when Kubo has all of it.
Send(m) ==
    /\ MoverAt(m, "send")
    /\ IF mover[m].names \subseteq tree[mover[m].cid]
       THEN /\ dags' = dags \cup {Added(m)}
            /\ pins' = pins \cup {Added(m)}
            /\ \/ /\ mover' = [mover EXCEPT ![m].step = "compare"]
                  /\ UNCHANGED losses
               \/ Finished(m) /\ Lose("mishaps")
       ELSE Finished(m) /\ UNCHANGED <<dags, pins, losses>>
    /\ UNCHANGED <<site, tree, hydrator, visitor, routeVars>>

\* The root that Kubo names is another one when a part was all there was.
Compare(m) ==
    /\ MoverAt(m, "compare")
    /\ mover' = [mover EXCEPT ![m].step =
                    IF Added(m) = DagOf(mover[m].cid) THEN "remove" ELSE "unpin"]
    /\ UNCHANGED losses
    /\ MoverOnly(m)

\* kuboPinRemoveSilently; the pin may be that of another root.
Unpin(m) ==
    /\ MoverAt(m, "unpin")
    /\ \/ pins' = pins \ {Added(m)} /\ UNCHANGED losses
       \/ Lose("mishaps") /\ UNCHANGED pins
    /\ Finished(m)
    /\ UNCHANGED <<site, tree, dags, hydrator, visitor, routeVars>>

\* rm -r, which may stop half-way; either way the call has succeeded.
RemoveTree(m) ==
    /\ MoverAt(m, "remove")
    /\ \/ tree' = [tree EXCEPT ![mover[m].cid] = {}] /\ UNCHANGED losses
       \/ /\ Lose("mishaps")
          /\ \E left \in SUBSET tree[mover[m].cid] : tree' = [tree EXCEPT ![mover[m].cid] = left]
    /\ Finished(m)
    /\ UNCHANGED <<site, pins, dags, hydrator, visitor, routeVars>>

\* The process ends and is started again.
Restart(m) ==
    /\ ~MoverAt(m, "idle") \/ mover[m].todo # {}
    /\ Lose("mishaps")
    /\ mover' = [mover EXCEPT ![m] = NoMove]
    /\ MoverOnly(m)

MoverStep(m) ==
    \/ NewPass(m) \/ Take(m) \/ LookForPin(m) \/ ListTree(m) \/ Send(m)
    \/ Compare(m) \/ Unpin(m) \/ RemoveTree(m)

-----------------------------------------------------------------------------
\* hydrateCidDirectory: what the listing names and the directory lacks is
\* downloaded, file by file.  The listing may fail, and stop at the budget.

Lacking(c) == site.holds[c] \ tree[c]

ListLinks(c) ==
    /\ c \in site.hydrate /\ hydrator[c].step = "idle"
    /\ \/ /\ hydrator' = [hydrator EXCEPT ![c] = [step |-> "download",
                              names |-> Lacking(c)]]
          /\ UNCHANGED losses
       \/ /\ Lose("mishaps")
          /\ \E names \in SUBSET Lacking(c) :
                hydrator' = [hydrator EXCEPT ![c] = [step |-> "download", names |-> names]]
    /\ UNCHANGED <<site, tree, pins, dags, mover, visitor, routeVars>>

DownloadSibling(c) ==
    /\ \E f \in hydrator[c].names :
          /\ hydrator' = [hydrator EXCEPT ![c].names = @ \ {f}]
          /\ \/ tree' = [tree EXCEPT ![c] = @ \cup {f}] /\ UNCHANGED losses
             \/ Lose("mishaps") /\ UNCHANGED tree
    /\ UNCHANGED <<site, pins, dags, mover, visitor, routeVars>>

-----------------------------------------------------------------------------
\* GET /ipfs/<cid>/<path>: where a file is looked for, in this order.

\* Mutant: Kubo is asked before the directory is read.
SourcesKuboFirst == <<"kubo", "local", "relay", "public">>

Sources == <<"local", "relay", "kubo", "public">>

NextSource(step) ==
    LET i == CHOOSE i \in DOMAIN Sources : Sources[i] = step
    IN  IF i = Len(Sources) THEN "missing" ELSE Sources[i + 1]

\* sure: the archive can serve the file without the help of others.
Ask(v) ==
    /\ visitor[v].step \in {"idle", "served", "missing"}
    /\ Lose("visits")
    /\ \E c \in Cids : \E f \in site.holds[c] :
          visitor' = [visitor EXCEPT ![v] = [step |-> Head(Sources), cid |-> c, file |-> f,
                         sure |-> f \in tree[c] \/ DagOf(c) \in dags]]
    /\ UNCHANGED <<site, tree, pins, dags, mover, hydrator, routeVars>>

Serve(v) == visitor' = [visitor EXCEPT ![v].step = "served"]
Pass(v) == visitor' = [visitor EXCEPT ![v].step = NextSource(@)]
Asks(v, source) == visitor[v].step = source

ReadLocal(v) ==
    /\ Asks(v, "local")
    /\ IF visitor[v].file \in tree[visitor[v].cid] THEN Serve(v) ELSE Pass(v)
    /\ UNCHANGED <<site, tree, pins, dags, mover, hydrator, routeVars, losses>>

\* A route that fails rests for two minutes.  The device is not the
\* archive's: it may have let go of the pin, or be out of reach.
TryRelay(v) ==
    LET r == route[visitor[v].cid] IN
    /\ Asks(v, "relay")
    /\ \/ r.pinned /\ ~r.cooling /\ Serve(v) /\ UNCHANGED route
       \/ /\ Pass(v)
          /\ route' = IF r.pinned /\ ~r.cooling
                      THEN [route EXCEPT ![visitor[v].cid].cooling = TRUE]
                      ELSE route
    /\ UNCHANGED <<site, tree, pins, dags, mover, hydrator, sync, last, losses>>

\* Kubo has what it was given, and looks for anything else in the network.
TryKubo(v) ==
    /\ Asks(v, "kubo")
    /\ \/ Serve(v) /\ UNCHANGED losses
       \/ /\ DagOf(visitor[v].cid) \notin dags
          /\ Pass(v)
          /\ UNCHANGED losses
       \/ /\ Lose("mishaps")
          /\ visitor' = [visitor EXCEPT ![v].step = NextSource(@), ![v].sure = FALSE]
    /\ UNCHANGED <<site, tree, pins, dags, mover, hydrator, routeVars>>

TryPublic(v) ==
    /\ Asks(v, "public")
    /\ Serve(v) \/ Pass(v)
    /\ UNCHANGED <<site, tree, pins, dags, mover, hydrator, routeVars, losses>>

EndRest(c) ==
    /\ route[c].cooling
    /\ route' = [route EXCEPT ![c].cooling = FALSE]
    /\ UNCHANGED <<site, tree, pins, dags, mover, hydrator, visitor, sync, last, losses>>

-----------------------------------------------------------------------------
\* syncRelayDevicePinInventory.  The socket server does not wait for one
\* message of a device before it handles the next.

\* Rows that a transaction has written and nobody else can write.
Locked(s) == CASE sync[s].step \in {"upserted", "waiting"} -> sync[s].items
               [] sync[s].step = "unpinned" -> sync[s].items \cup sync[s].strays
               [] OTHER -> {}
LockedByOthers(s) == UNION {Locked(o) : o \in Syncs \ {s}}
Pinned == {c \in Cids : route[c].pinned}

SyncOnly == UNCHANGED <<site, tree, pins, dags, mover, hydrator, visitor>>

ReceiveInventory(s) ==
    /\ sync[s].step = "idle"
    /\ Lose("inventories")
    /\ \E items \in SUBSET Cids :
       LET alone == \A o \in Syncs : sync[o].step = "idle" IN
          /\ sync' = [o \in Syncs |->
                 IF o = s THEN [step |-> "upsert", items |-> items, strays |-> {},
                                alone |-> alone]
                 ELSE [sync[o] EXCEPT !.alone = FALSE]]
          /\ last' = [items |-> items, alone |-> alone]
    /\ SyncOnly /\ UNCHANGED route

Upsert(s) ==
    /\ sync[s].step = "upsert"
    /\ sync[s].items \cap LockedByOthers(s) = {}
    /\ sync' = [sync EXCEPT ![s].step = "upserted"]
    /\ SyncOnly /\ UNCHANGED <<route, last, losses>>

\* The rows to unpin are those of the statement's snapshot.
FindStrays(s) ==
    /\ sync[s].step = "upserted"
    /\ sync' = [sync EXCEPT ![s].step = "waiting", ![s].strays = Pinned \ sync[s].items]
    /\ SyncOnly /\ UNCHANGED <<route, last, losses>>

UnpinStrays(s) ==
    /\ sync[s].step = "waiting"
    /\ sync[s].strays \cap LockedByOthers(s) = {}
    /\ sync' = [sync EXCEPT ![s].step = "unpinned"]
    /\ SyncOnly /\ UNCHANGED <<route, last, losses>>

\* Mutant: what is no longer in the inventory stays.
CommitUpsertOnly(s) ==
    /\ sync[s].step = "unpinned"
    /\ route' = [c \in Cids |-> [route[c] EXCEPT !.pinned = @ \/ c \in sync[s].items]]
    /\ sync' = [sync EXCEPT ![s] = NoSync]
    /\ SyncOnly /\ UNCHANGED <<last, losses>>

CommitInventory(s) ==
    /\ sync[s].step = "unpinned"
    /\ route' = [c \in Cids |-> [route[c] EXCEPT !.pinned =
                    c \in sync[s].items \/ (@ /\ c \notin sync[s].strays)]]
    /\ sync' = [sync EXCEPT ![s] = NoSync]
    /\ SyncOnly /\ UNCHANGED <<last, losses>>

\* Each waits for rows of the other: the database ends one of them, and the
\* error is only logged.
BreakDeadlock(s) ==
    /\ sync[s].step = "waiting"
    /\ \E o \in Syncs \ {s} :
          /\ sync[o].step = "waiting"
          /\ sync[s].strays \cap Locked(o) # {}
          /\ sync[o].strays \cap Locked(s) # {}
    /\ sync' = [sync EXCEPT ![s] = NoSync]
    /\ SyncOnly /\ UNCHANGED <<route, last, losses>>

SyncStep(s) ==
    \/ Upsert(s) \/ FindStrays(s) \/ UnpinStrays(s) \/ CommitInventory(s)
    \/ BreakDeadlock(s)

-----------------------------------------------------------------------------
VisitorStep(v) == ReadLocal(v) \/ TryRelay(v) \/ TryKubo(v) \/ TryPublic(v)

GatewayNext ==
    \/ \E m \in Movers : MoverStep(m) \/ Restart(m)
    \/ \E c \in Cids : ListLinks(c) \/ DownloadSibling(c) \/ EndRest(c)
    \/ \E v \in Visitors : Ask(v) \/ VisitorStep(v)
    \/ \E s \in Syncs : ReceiveInventory(s) \/ SyncStep(s)

GatewaySpec == GatewayInit /\ [][GatewayNext]_gatewayVars

-----------------------------------------------------------------------------
\* A file that was in cold storage or in Kubo when it was asked for is served,
\* whatever the movers do while the request goes from source to source, unless
\* Kubo fails it.
ReadersAreServed == \A v \in Visitors : visitor[v].step = "missing" => ~visitor[v].sure

\* Once an inventory that met no other has been dealt with, the routes of the
\* device are what it listed.
RoutesFollowInventory ==
    (last.alone /\ \A s \in Syncs : sync[s].step = "idle") => Pinned = last.items

=============================================================================
