---------------------------- MODULE SaveTargets ----------------------------
(***************************************************************************)
(* Works a visitor keeps on machines of their own: pinned on the hosts they *)
(* have configured (src/src/server/pin-hosts/service.ts) and taken by their *)
(* desktop app, directly or through the relay (desktop-save-routing.ts),    *)
(* with what the page tells about it (archive-save-manager.tsx).            *)
(*                                                                         *)
(* A save is one click of saveEverywhere: its two tasks run at the same     *)
(* time.  The visitor may have several under way, of works that share a     *)
(* root, and may edit the hosts meanwhile in another tab.  A service is     *)
(* whatever an endpoint and its credentials lead to; what it keeps of the    *)
(* roots it has accepted is not in the hands of this code.                   *)
(***************************************************************************)
EXTENDS Naturals, Sequences, FiniteSets, SequencesExt

CONSTANTS
    HostOrder,      \* the hosts of the visitor, oldest first
    Services,       \* pinning services that the hosts may lead to
    Roots,
    Saves,
    Plans           \* the worlds to consider, each with its own bounds

Hosts == ToSet(HostOrder)

\* work has the roots of the work each save is about, in the order of
\* normalizeRoots; hosts that are enabled are auto-pin hosts as well.
\* serves tells where the hosts lead at first, reachable and paired how the
\* desktop app can be reached; mishaps bounds the calls that fail or whose
\* answer is lost, edits what the other tab does, deaths the ends of the
\* server.
Bounds == [mishaps : Nat, edits : Nat, deaths : Nat]
Plan == [enabled : SUBSET Hosts, serves : [Hosts -> Services],
         work : [Saves -> Seq(Roots)], reachable : BOOLEAN, paired : BOOLEAN,
         bound : Bounds]

ASSUME SaveTargetsAssumption == Plans \subseteq Plan

VARIABLES
    plan,       \* the world: it never changes
    spent,      \* how much of its bounds has been used
    host,       \* PinHost rows by id: enabled, disabled, or removed
    service,    \* PinHost.endpointUrl, kind and authentication: where it leads
    pin,        \* HostedPin.status by host and root, "none" without a row
    accepted,   \* <<h, v, r>>: asked for host h, service v has accepted root r
    saving,     \* pinWorkToHosts calls
    shown,      \* the page: the status of every host, for each save
    listed,     \* the page: pinHosts, from its latest query
    desk,       \* the page: saveToDesktop
    taken       \* how the works have come to the desktop app

saveVars == <<plan, spent, host, service, pin, accepted, saving, shown, listed, desk,
              taken>>

-----------------------------------------------------------------------------
NoSave(step) == [step |-> step, hosts |-> <<>>, copy |-> <<>>, root |-> 1,
                 failed |-> 0, results |-> <<>>]

SaveTargetsInit ==
    /\ plan \in Plans
    /\ spent = [mishaps |-> 0, edits |-> 0, deaths |-> 0]
    /\ host = [h \in Hosts |-> IF h \in plan.enabled THEN "enabled" ELSE "disabled"]
    /\ service = plan.serves
    /\ pin = [h \in Hosts |-> [r \in Roots |-> "none"]]
    /\ accepted = {}
    /\ saving = [s \in Saves |-> NoSave("idle")]
    /\ shown = [s \in Saves |-> [h \in Hosts |-> "idle"]]
    /\ listed = host
    /\ desk = [s \in Saves |-> "idle"]
    /\ taken = [s \in Saves |-> {}]

Spend(what) == /\ spent[what] < plan.bound[what]
               /\ spent' = [spent EXCEPT ![what] = @ + 1]

Here(h) == host[h] # "removed"
Current(s) == Head(saving[s].hosts)
CurrentService(s) == saving[s].copy[Current(s)]
CurrentRoot(s) == plan.work[s][saving[s].root]
Show(s, told) == [h \in Hosts |-> IF h \in DOMAIN told THEN told[h] ELSE shown[s][h]]
Told(hs, status) == [h \in hs |-> status]

\* Asked of the server and not answered yet.
Awaited(s) == {h \in Hosts : shown[s][h] = "pending"}

requestVars == <<plan, host, service, listed, desk, taken>>

-----------------------------------------------------------------------------
\* What the visitor does.

\* saveEverywhere: both tasks start, for the enabled hosts of the page's list.
SaveEverywhere(s) ==
    /\ saving[s].step = "idle" /\ desk[s] = "idle"
    /\ LET hs == {h \in Hosts : listed[h] = "enabled" /\ plan.work[s] # <<>>}
       IN  /\ shown' = [shown EXCEPT ![s] = Show(s, Told(hs, "pending"))]
           /\ saving' = [saving EXCEPT ![s].step =
                             IF hs = {} THEN "answered" ELSE "find"]
    /\ desk' = [desk EXCEPT ![s] = IF plan.reachable THEN "direct"
                                   ELSE IF plan.paired THEN "relay" ELSE @]
    /\ UNCHANGED <<plan, spent, host, service, pin, accepted, listed, taken>>

\* upsertPinHost and removePinHost, which takes the rows of its pins along.
\* An edit may lead to another service and leaves the rows as they are.  A
\* host that is added meanwhile is like one that is enabled.
EditHost(h) ==
    /\ Here(h) /\ Spend("edits")
    /\ \/ /\ \E status \in {"enabled", "disabled"} : host' = [host EXCEPT ![h] = status]
          /\ \E v \in Services : service' = [service EXCEPT ![h] = v]
          /\ UNCHANGED pin
       \/ /\ host' = [host EXCEPT ![h] = "removed"] /\ UNCHANGED service
          /\ pin' = [pin EXCEPT ![h] = [r \in Roots |-> "none"]]
    /\ UNCHANGED <<plan, accepted, saving, shown, listed, desk, taken>>

\* The list is read again after a change on the page, and when it is old.
RefetchHosts ==
    /\ listed' = host
    /\ UNCHANGED <<plan, spent, host, service, pin, accepted, saving, shown, desk, taken>>

-----------------------------------------------------------------------------
\* pinWorkToHosts, statement by statement.

\* The page's catch block: every host that was asked for is marked, whatever
\* had been done for some of them.
RejectSave(s) ==
    /\ saving' = [saving EXCEPT ![s] = NoSave("answered")]
    /\ shown' = [shown EXCEPT ![s] = Show(s, Told(Awaited(s), "error"))]

\* findMany: the request goes on with the endpoints and credentials it has
\* read here.
FindHosts(s) ==
    /\ saving[s].step = "find"
    /\ LET wanted(h) == host[h] = "enabled" /\ h \in Awaited(s)
           found == SelectSeq(HostOrder, wanted)
       IN  IF found = <<>>
           THEN RejectSave(s)
           ELSE /\ saving' = [saving EXCEPT ![s].step = "upsert",
                                             ![s].hosts = found,
                                             ![s].copy = service]
                /\ UNCHANGED shown
    /\ UNCHANGED <<spent, pin, accepted, requestVars>>

\* An upsert for a host that is gone violates its foreign key.
UpsertPending(s) ==
    /\ saving[s].step = "upsert"
    /\ IF Here(Current(s))
       THEN /\ pin' = [pin EXCEPT ![Current(s)][CurrentRoot(s)] = "PENDING"]
            /\ saving' = [saving EXCEPT ![s].step = "call"]
            /\ UNCHANGED shown
       ELSE RejectSave(s) /\ UNCHANGED pin
    /\ UNCHANGED <<spent, accepted, requestVars>>

\* pinRootToHost: a service accepts a root by any 2xx, or by the 409 of one
\* that knows it already.
CallHost(s) ==
    /\ saving[s].step = "call"
    /\ \/ /\ accepted' = accepted \cup {<<Current(s), CurrentService(s), CurrentRoot(s)>>}
          /\ saving' = [saving EXCEPT ![s].step = "pinned"]
          /\ UNCHANGED spent
       \/ /\ saving' = [saving EXCEPT ![s].step = "failed"]
          /\ Spend("mishaps") /\ UNCHANGED accepted
    /\ UNCHANGED <<pin, shown, requestVars>>

\* Mutant: a failure is counted and its row left as it is.
RecordHostPinOnly(s, status) == IF status = "FAILED" THEN pin ELSE
    [pin EXCEPT ![Current(s)][CurrentRoot(s)] = status]

RecordHostPin(s, status) == [pin EXCEPT ![Current(s)][CurrentRoot(s)] = status]

\* The outcome of a root.  Without the row, the update throws, and so does
\* the one of the catch block.
RecordOutcome(s) ==
    /\ saving[s].step \in {"pinned", "failed"}
    /\ IF Here(Current(s))
       THEN LET ok == saving[s].step = "pinned"
                last == saving[s].root = Len(plan.work[s])
            IN  /\ pin' = RecordHostPin(s, IF ok THEN "PINNED" ELSE "FAILED")
                /\ saving' = [saving EXCEPT
                      ![s].step = IF last THEN "host" ELSE "upsert",
                      ![s].root = IF last THEN 1 ELSE @ + 1,
                      ![s].failed = IF ok THEN @ ELSE @ + 1]
                /\ UNCHANGED shown
       ELSE RejectSave(s) /\ UNCHANGED pin
    /\ UNCHANGED <<spent, accepted, requestVars>>

\* Mutant: a host has failed when all roots have failed.
resultOfHostLenient(s) ==
    IF saving[s].failed = Len(plan.work[s]) THEN "error" ELSE "saved"

resultOfHost(s) == IF saving[s].failed > 0 THEN "error" ELSE "saved"

\* lastPinnedAt and lastError; the next host, or the answer.
FinishHost(s) ==
    /\ saving[s].step = "host"
    /\ LET q == [saving[s] EXCEPT
               !.results = Append(@, <<Current(s), resultOfHost(s)>>),
               !.hosts = Tail(@), !.failed = 0]
       IN  IF Here(Current(s))
           THEN /\ saving' = [saving EXCEPT ![s] =
                     [q EXCEPT !.step = IF q.hosts = <<>> THEN "answer" ELSE "upsert"]]
                /\ UNCHANGED shown
           ELSE RejectSave(s)
    /\ UNCHANGED <<spent, pin, accepted, requestVars>>

\* The page gets the results; hosts that have none stay as they were.
AnswerSave(s) ==
    /\ saving[s].step = "answer"
    /\ LET results == ToSet(saving[s].results)
           of(h) == CHOOSE x \in results : x[1] = h
       IN  shown' = [shown EXCEPT ![s] =
               Show(s, [h \in {x[1] : x \in results} |-> of(h)[2]])]
    /\ saving' = [saving EXCEPT ![s] = NoSave("answered")]
    /\ UNCHANGED <<spent, pin, accepted, requestVars>>

\* The server goes down in the middle of a request.
DieInSave(s) ==
    /\ saving[s].step \notin {"idle", "answered"}
    /\ Spend("deaths")
    /\ RejectSave(s)
    /\ UNCHANGED <<pin, accepted, requestVars>>

-----------------------------------------------------------------------------
\* saveWorkToDesktop.

deskVars == <<plan, host, service, pin, accepted, saving, shown, listed>>

\* shouldTryFallbackRoute: a request that got lost is worth the other route,
\* one the app has answered is not.
shouldTryFallbackRoute(answered) == plan.paired /\ ~answered

\* shareWork: the app takes the work, refuses it, or its answer is lost.
ShareWork(s) ==
    /\ desk[s] = "direct"
    /\ \E took, answered \in BOOLEAN :
          /\ IF took /\ answered THEN UNCHANGED spent ELSE Spend("mishaps")
          /\ taken' = IF took THEN [taken EXCEPT ![s] = @ \cup {"direct"}] ELSE taken
          /\ desk' = [desk EXCEPT ![s] =
                IF took /\ answered THEN "saved"
                ELSE IF shouldTryFallbackRoute(answered) THEN "relay" ELSE "error"]
    /\ UNCHANGED deskVars

\* queueWorkToRelay.
QueueWorkToRelay(s) ==
    /\ desk[s] = "relay"
    /\ \E queued, answered \in BOOLEAN :
          /\ IF queued /\ answered THEN UNCHANGED spent ELSE Spend("mishaps")
          /\ taken' = IF queued THEN [taken EXCEPT ![s] = @ \cup {"relay"}] ELSE taken
          /\ desk' = [desk EXCEPT ![s] = IF queued /\ answered THEN "saved" ELSE "error"]
    /\ UNCHANGED deskVars

SaveStep(s) ==
    \/ FindHosts(s) \/ UpsertPending(s) \/ CallHost(s) \/ RecordOutcome(s)
    \/ FinishHost(s) \/ AnswerSave(s) \/ DieInSave(s)

SaveTargetsNext ==
    \/ \E s \in Saves : SaveEverywhere(s) \/ SaveStep(s)
                        \/ ShareWork(s) \/ QueueWorkToRelay(s)
    \/ \E h \in Hosts : EditHost(h)
    \/ RefetchHosts

SaveTargetsSpec == SaveTargetsInit /\ [][SaveTargetsNext]_saveVars

-----------------------------------------------------------------------------
\* getPinnedWorkStates: what the save menu is told of a work and a host.
WorkState(s, h) ==
    LET statuses == {pin[h][r] : r \in ToSet(plan.work[s])} \ {"none"}
    IN  CASE statuses = {} -> "none"
          [] statuses = {"PINNED"} -> "PINNED"
          [] "PENDING" \in statuses -> "PENDING"
          [] statuses = {"FAILED"} -> "FAILED"
          [] OTHER -> "PARTIAL"

\* Nothing is said to be saved that nobody has accepted: a root is recorded as
\* pinned on a host only if a service that the host has led to accepted it, a
\* work is shown as saved on a host only if one such service accepted all of
\* its roots, and a desktop save succeeds only if the app or the relay has
\* the work, however saves of works with a common root and edits that lead
\* elsewhere interleave.
SavedWasAccepted ==
    /\ \A h \in Hosts, r \in Roots :
          pin[h][r] = "PINNED" => \E v \in Services : <<h, v, r>> \in accepted
    /\ \A s \in Saves, h \in Hosts : shown[s][h] = "saved" =>
          \E v \in Services : \A r \in ToSet(plan.work[s]) : <<h, v, r>> \in accepted
    /\ \A s \in Saves : desk[s] = "saved" => taken[s] # {}

\* The menu never waits for nothing: a work it shows as being pinned on a
\* host has a request that is about to record the outcome of that very root,
\* as long as the server lives.
PendingIsUnderWay ==
    spent.deaths = 0 => \A s \in Saves, h \in Hosts :
        WorkState(s, h) = "PENDING" =>
            \E t \in Saves, r \in ToSet(plan.work[s]) :
                /\ pin[h][r] = "PENDING"
                /\ saving[t].step \in {"call", "pinned", "failed"}
                /\ Current(t) = h /\ CurrentRoot(t) = r
=============================================================================
