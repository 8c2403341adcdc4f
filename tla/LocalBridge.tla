----------------------------- MODULE LocalBridge -----------------------------
(***************************************************************************)
(* The owner's page beside a desktop app on the same computer: the health  *)
(* probe and the requests to the app (desktop-bridge-provider), and the    *)
(* console that shows and saves its settings (desktop-status-console),     *)
(* composed with what the page learns through the relay (OwnerConsole).    *)
(*                                                                         *)
(* A setting more or less makes no difference: tunnel, the switch of the   *)
(* public gateway, stands for all of them.  It is in the config of the app *)
(* but not in its health.  The app itself is not part of the repository.   *)
(***************************************************************************)
EXTENDS OwnerConsole

VARIABLES
    app,            \* the app here: running, linked to a device row, its setting
    page,           \* reachable and config of the provider, the configDraft,
                    \* and the relayDeviceStates entry of the device
    deviceState,    \* cachedDeviceState of the socket server
    requests,       \* to the app: of the probe, of a load and of an errand
    errand,         \* what the owner has the page do with the app
    link,           \* deepLinkStatus and pairing of the one-time link
    sent,           \* the settings of the save
    wanted          \* what the switch was last set to

bridgeVars == <<app, page, deviceState, requests, errand, link, sent, wanted>>
ownerVars == <<consoleVars, bridgeVars>>

-----------------------------------------------------------------------------
\* A draft, the state or the saved settings of the device; a config or an
\* answer of the app.  paired: it names a device and has the relay enabled.
Settings == [known : BOOLEAN, tunnel : BOOLEAN]
Report == [known : BOOLEAN, paired : BOOLEAN, tunnel : BOOLEAN]
Empty == [known |-> FALSE, tunnel |-> FALSE]
Unknown == [known |-> FALSE, paired |-> FALSE, tunnel |-> FALSE]
draftFromConfig(config) == [known |-> config.known, tunnel |-> config.tunnel]

\* Health and config are asked for together, and the app answers them at once.
\* previous: the tunnel of the config in the closure of createRefreshHealth.
Lines == {"probe", "load", "errand"}
NoRequest == [step |-> "idle", saw |-> Unknown, previous |-> FALSE]
Sending(previous) == [NoRequest EXCEPT !.step = "asked", !.previous = previous]
HasReply(l) == requests[l].step = "answered"
Heard(l) == requests[l].saw

NoLink == [status |-> "idle", code |-> "none"]

BridgeTypeOK ==
    /\ app \in [up : BOOLEAN, paired : BOOLEAN, tunnel : BOOLEAN]
    /\ page \in [reachable : BOOLEAN, config : Report, draft : Settings, remote : Settings]
    /\ {deviceState, sent} \subseteq Settings
    /\ requests \in [Lines -> [step : {"idle", "asked", "answered"}, saw : Report,
                               previous : BOOLEAN]]
    /\ errand \in {"none", "reload", "storing", "stored", "linking", "linked"}
    /\ link \in [status : {"idle", "preparing", "ready", "waiting", "error"},
                 code : {"none", "usable", "expired"}]
    /\ wanted \in {"open", "on", "off"}

BridgeInit ==
    /\ ConsoleInit
    /\ app \in [up : {scene.home, FALSE}, tunnel : {FALSE},
                paired : {scene.home /\ device = "linked" /\ r : r \in {TRUE, ~scene.reset}}]
    /\ page = [reachable |-> FALSE, config |-> Unknown, draft |-> Empty, remote |-> Empty]
    /\ deviceState = Empty /\ sent = Empty /\ wanted = "open"
    /\ requests = [l \in Lines |-> IF l = "probe" THEN Sending(FALSE) ELSE NoRequest]
    /\ errand = "none" /\ link = NoLink

-----------------------------------------------------------------------------
(* What the page shows.                                                    *)

\* relayDevicesWithLocalBridge: the entry of the app here goes by the probe.
ShownHere(p, shown) == CASE p.config.paired /\ p.reachable  -> "connected"
                     [] p.config.paired /\ ~p.reachable -> "away"
                     [] OTHER                           -> shown
Visible == ShownHere(page, list)

\* A render after list' is known, and its effects on the draft: a config that
\* was set is taken over, then the last state of a connected device.
Render(p, configSet) ==
    page' = [p EXCEPT !.draft =
                IF p.remote.known /\ ShownHere(p, list') = "connected" THEN p.remote
                ELSE IF configSet THEN draftFromConfig(p.config) ELSE @]

\* The states of devices that a new list does not have are dropped.
RenderList(remote) ==
    Render([page EXCEPT !.remote = IF list' = "absent" THEN Empty ELSE remote], FALSE)

\* bridgeConfigFromHealth.
ConfigFrom(health, previous) == [health EXCEPT !.tunnel = previous]

\* setBridgeConnected, createRefreshHealth, createFetchConfig: a config has
\* been set and the app reached.  Where it was out of reach it is loaded;
\* bound: the requests of an earlier load have been answered.
Connected(l, config, next) ==
    /\ page.reachable \/ l = "load" \/ requests["load"] = NoRequest
    /\ Render([page EXCEPT !.reachable = TRUE, !.config = config], TRUE)
    /\ requests' = IF page.reachable THEN [requests EXCEPT ![l] = next]
                   ELSE [requests EXCEPT ![l] = next, !["load"] = Sending(config.tunnel)]

\* refreshHealth beside fetchConfig: the later one leaves its config.
ConfigsOf(l) == {Heard(l), ConfigFrom(Heard(l), requests[l].previous)}

-----------------------------------------------------------------------------
(* The app on this computer, and its device (external).                    *)

Here == app.up /\ app.paired
Reported(a) == IF a.up THEN [known |-> TRUE, paired |-> a.paired, tunnel |-> a.tunnel]
                       ELSE Unknown

pageRests == UNCHANGED <<tab, list, call, saving, leaving, page, errand, link, sent, wanted>>
relayRests == UNCHANGED <<scene, fresh, live, job, due, broadcast, deviceState, strikes>>

\* It starts or stops, or learns that its device was removed.
AppChanges ==
    /\ scene.home /\ Happen
    /\ \/ app' = [app EXCEPT !.up = ~@]
       \/ device = "removed" /\ Here /\ app' = [app EXCEPT !.paired = FALSE]
    /\ relayRests /\ pageRests /\ UNCHANGED <<device, requests>>

\* GET /health and /config; POST /config, and POST /relay/link with a code that
\* the app then claims.
AppAnswers(l) ==
    /\ scene.home /\ requests[l].step = "asked"
    /\ LET obeys == app.up /\ l = "errand" IN
       /\ app' = CASE obeys /\ errand = "storing" -> [app EXCEPT !.tunnel = sent.tunnel]
                   [] obeys /\ errand = "linking" -> [app EXCEPT !.paired = TRUE]
                   [] OTHER                       -> app
       /\ device' = IF obeys /\ errand = "linking" THEN "linked" ELSE device
    /\ requests' = [requests EXCEPT ![l].step = "answered", ![l].saw = Reported(app')]
    /\ relayRests /\ pageRests /\ UNCHANGED events

\* The one-time link starts the app, which claims the code.
AppOpensLink ==
    /\ link.status = "waiting" /\ device = "removed"
    /\ app' = [app EXCEPT !.up = TRUE, !.paired = TRUE] /\ device' = "linked"
    /\ relayRests /\ pageRests /\ UNCHANGED <<requests, events>>

\* Without its app the device is not in touch; its jobs are done by the app.
DeviceStep ==
    /\ DeviceNext
    /\ scene.home /\ ~Here =>
          (live' => live) /\ (fresh' => fresh)
          /\ (job'.status \in {"RUNNING", "COMPLETED", "FAILED"} => job'.status = job.status)
    /\ app' = IF scene.home /\ job.status = "RUNNING" /\ job'.status = "COMPLETED"
              THEN [app EXCEPT !.tunnel = sent.tunnel] ELSE app
    /\ UNCHANGED <<page, deviceState, requests, errand, link, sent, wanted>>

\* device.state; the way to the page counts as sending.
ShareState ==
    /\ scene.home /\ Here /\ live /\ deviceState # draftFromConfig(Reported(app))
    /\ deviceState' = draftFromConfig(Reported(app)) /\ Ask
    /\ UNCHANGED <<serverVars, broadcast, pageVars, events, strikes, app, requests, errand,
                   link, sent, wanted>>
    /\ IF tab THEN Render([page EXCEPT !.remote = deviceState'], FALSE) ELSE UNCHANGED page

-----------------------------------------------------------------------------
(* useBridgeHealthProbe and useDesktopConsoleInitialLoad.                  *)

bridgeRests == UNCHANGED <<serverVars, due, broadcast, tab, list, call, leaving, events,
                           strikes, app, deviceState>>

\* Mutant: what the app has told last is kept.
BridgeLostKeeping ==
    /\ Render(page, FALSE)
    /\ requests' = [requests EXCEPT !["probe"] = Sending(FALSE)]

\* setBridgeDisconnected; a load that is under way can still undo it.
BridgeLost ==
    /\ Render([page EXCEPT !.reachable = FALSE, !.config = Unknown], FALSE)
    /\ requests' = [requests EXCEPT !["probe"] = Sending(FALSE)]

\* The next probe is on its way: a probe that takes long is one that is late.
FinishProbe ==
    /\ HasReply("probe") /\ bridgeRests
    /\ IF Heard("probe").known
       THEN Connected("probe", ConfigFrom(Heard("probe"), page.config.tunnel), Sending(FALSE))
       ELSE BridgeLost
    /\ UNCHANGED <<errand, saving, link, sent, wanted>>

\* retryNow: the probe under way is dropped for another.
RetryProbe ==
    /\ HasReply("probe") /\ Happen
    /\ requests' = [requests EXCEPT !["probe"] = Sending(FALSE)]
    /\ UNCHANGED <<serverVars, due, broadcast, pageVars, strikes, app, page, deviceState,
                   errand, link, sent, wanted>>

\* loadBridgeData: the settings as they came go into the draft.
FinishLoad ==
    /\ HasReply("load") /\ bridgeRests
    /\ IF Heard("load").known
       THEN \E config \in ConfigsOf("load") : Connected("load", config, NoRequest)
       ELSE UNCHANGED page /\ requests' = [requests EXCEPT !["load"] = NoRequest]
    /\ UNCHANGED <<errand, saving, link, sent, wanted>>

-----------------------------------------------------------------------------
(* Errands at the app: useReload, useSaveConfig, useConnectThisComputer.    *)

Begin(kind) ==
    /\ scene.home /\ errand = "none" /\ errand' = kind
    /\ requests' = [requests EXCEPT !["errand"] = Sending(page.config.tunnel)]
    /\ bridgeRests
\* The answer settles the errand, or has the page ask for health and config.
Settles(kind) == errand = kind /\ HasReply("errand") /\ bridgeRests
Fail == /\ ~Heard("errand").known /\ errand' = "none" /\ UNCHANGED page
        /\ requests' = [requests EXCEPT !["errand"] = NoRequest]

\* reloadLocalBridge; the list it asks for is like one of the interval.
Reload ==
    /\ "reload" \in scene.clicks /\ Begin("reload")
    /\ UNCHANGED <<page, saving, link, sent, wanted>>

FinishReload ==
    /\ Settles("reload")
    /\ \/ Fail
       \/ /\ Heard("errand").known /\ errand' = "none"
          /\ \E config \in ConfigsOf("errand") : Connected("errand", config, NoRequest)
    /\ UNCHANGED <<saving, link, sent, wanted>>

\* saveConfig sends the draft of the last render; the switch has just set a
\* new one.
Submit(click) ==
    /\ sent' = page.draft
    /\ IF click = "switch"
       THEN /\ page' = [page EXCEPT !.draft.tunnel = ~@]
            /\ wanted' = IF page.draft.tunnel THEN "off" ELSE "on"
       ELSE UNCHANGED <<page, wanted>>

\* updateConfig, when the page shows no device but reaches the app.
StoreHere(click) ==
    /\ saving.step = "ready"
    /\ Visible = "absent" /\ page.reachable
    /\ Begin("storing") /\ Submit(click)
    /\ saving' = [saving EXCEPT !.step = "storing"]
    /\ UNCHANGED link

TakeStored ==
    /\ Settles("storing")
    /\ \/ Fail /\ Tell("failure")
       \/ /\ Heard("errand").known /\ errand' = "stored" /\ UNCHANGED saving
          /\ Connected("errand", Heard("errand"), Sending(requests["errand"].previous))
    /\ UNCHANGED <<link, sent, wanted>>

\* refreshHealth may fail.
FinishStore ==
    /\ Settles("stored") /\ Tell("success")
    /\ \/ Fail
       \/ /\ Heard("errand").known /\ errand' = "none"
          /\ Connected("errand", ConfigFrom(Heard("errand"), requests["errand"].previous),
                       NoRequest)
    /\ UNCHANGED <<link, sent, wanted>>

\* updateRelayDeviceConfig, or a repair or sync, of a connected device.
SaveByRelay(click) ==
    /\ Click(click, Visible) /\ Submit(click)
    /\ UNCHANGED <<app, deviceState, requests, errand, link>>

\* linkLocalBridgeToRelay, once it has a code from the site.
ConnectThisComputer ==
    /\ "connect" \in scene.clicks /\ page.reachable /\ Visible # "connected"
    /\ Begin("linking")
    /\ UNCHANGED <<page, saving, link, sent, wanted>>

TakeLinked ==
    /\ Settles("linking")
    /\ \/ Fail
       \/ /\ Heard("errand").known /\ errand' = "linked" /\ UNCHANGED page
          /\ requests' = [requests EXCEPT !["errand"] = Sending(@.previous)]
    /\ UNCHANGED <<saving, link, sent, wanted>>

\* The list it then asks for may fail, or be overtaken like the others.
FinishConnect ==
    /\ Settles("linked")
    /\ \/ Fail /\ UNCHANGED link
       \/ /\ Heard("errand").known /\ errand' = "none" /\ link' \in {link, NoLink}
          /\ \E config \in ConfigsOf("errand") : Connected("errand", config, NoRequest)
    /\ UNCHANGED <<saving, sent, wanted>>

-----------------------------------------------------------------------------
(* The one-time link: ConnectSection, usePreparePairingLink and             *)
(* useOpenPreparedPairing.                                                 *)

linkRests == UNCHANGED <<serverVars, due, broadcast, tab, saving, leaving, events, app,
                         deviceState, requests, errand, sent, wanted>>

\* By itself where there is none to use, or by the button after an error.
PrepareLink ==
    /\ "link" \in scene.clicks /\ ~page.reachable /\ Visible # "connected"
    /\ \/ link.status \in {"idle", "ready"} /\ link.code # "usable"
       \/ link.status = "error" /\ link.code = "none"
    /\ link' = [link EXCEPT !.status = "preparing"]
    /\ linkRests /\ UNCHANGED <<list, call, page, strikes>>

LinkPrepared ==
    /\ link.status = "preparing"
    /\ \/ link' = [status |-> "ready", code |-> "usable"] /\ UNCHANGED strikes
       \/ link' = [link EXCEPT !.status = "error"] /\ Strike
    /\ linkRests /\ UNCHANGED <<list, call, page>>

LinkExpires ==
    /\ link.code = "usable" /\ link' = [link EXCEPT !.code = "expired"]
    /\ linkRests /\ UNCHANGED <<list, call, page, strikes>>

\* Bound: the link is not opened again while the page waits for it.
OpenLink ==
    /\ ~page.reachable /\ Visible # "connected"
    /\ link.code # "none" /\ link.status # "waiting"
    /\ link' = [link EXCEPT !.status = IF link.code = "usable" THEN "waiting" ELSE "error"]
    /\ linkRests /\ UNCHANGED <<list, call, page, strikes>>

\* waitForConnectedRelayDevice.
AskLinked ==
    /\ link.status = "waiting" /\ Ready("linking")
    /\ call' = Asked("linking")
    /\ linkRests /\ UNCHANGED <<list, page, link, strikes>>

SeeLinked ==
    /\ Receive("linking") /\ RenderList(page.remote)
    /\ link' = IF call["linking"].shown = "connected" THEN NoLink ELSE link
    /\ linkRests /\ UNCHANGED strikes

LinkTimesOut ==
    /\ link.status = "waiting" /\ Ready("linking")
    /\ link' = [link EXCEPT !.status = "ready"]
    /\ linkRests /\ UNCHANGED <<list, call, page, strikes>>

-----------------------------------------------------------------------------
(* The page and the relay.                                                 *)

\* Settings that were never loaded do not pass configSchema; away from here
\* the action may be a repair or a sync, which has none.
Valid == scene.home => sent.known

OwnerStep ==
    /\ \/ \E b \in Broadcasts :
              /\ SendSnapshot(b) /\ UNCHANGED link
              /\ IF tab THEN RenderList(IF deviceState.known THEN deviceState ELSE page.remote)
                        ELSE UNCHANGED page
       \/ /\ Look \/ \E a \in Askers : ReceiveList(a)
          /\ RenderList(page.remote) /\ UNCHANGED link
       \/ /\ ForgetDevice /\ RenderList(page.remote)
          /\ link' = [link EXCEPT !.status = "idle"]
       \/ OwnerNext(Visible, Valid) /\ UNCHANGED <<page, link>>
    /\ UNCHANGED <<app, deviceState, requests, errand, sent, wanted>>

AppStep == AppChanges \/ AppOpensLink \/ \E l \in Lines : AppAnswers(l)
ErrandStep ==
    \/ Reload \/ ConnectThisComputer
    \/ \E c \in scene.clicks \cap {"save", "switch"} : StoreHere(c) \/ SaveByRelay(c)
    \/ FinishReload \/ TakeStored \/ FinishStore \/ TakeLinked \/ FinishConnect
LinkStep ==
    \/ PrepareLink \/ LinkPrepared \/ LinkExpires \/ OpenLink \/ AskLinked \/ SeeLinked
    \/ LinkTimesOut

BridgeNext ==
    \/ DeviceStep \/ ShareState \/ OwnerStep \/ AppStep
    \/ FinishProbe \/ RetryProbe \/ FinishLoad \/ ErrandStep \/ LinkStep

Finish(l) ==
    \/ l = "probe" /\ FinishProbe
    \/ l = "load" /\ FinishLoad
    \/ /\ l = "errand"
       /\ FinishReload \/ TakeStored \/ FinishStore \/ TakeLinked \/ FinishConnect

\* Timers fire, and an app that is asked answers or refuses; the wait for the
\* link ends although it is not always between two looks.
BridgeFairness ==
    /\ ConsoleFairness
    /\ \A l \in Lines : WF_ownerVars(AppAnswers(l) \/ Finish(l))
    /\ WF_ownerVars(LinkPrepared) /\ SF_ownerVars(LinkTimesOut)
    /\ WF_consoleVars(ListDevices("linking")) /\ WF_ownerVars(SeeLinked)

BridgeSpec == BridgeInit /\ [][BridgeNext]_ownerVars /\ BridgeFairness

-----------------------------------------------------------------------------
\* Liveness of the device list: whatever was overtaken, lost or failed, when
\* the app here stays up and linked the page ends up showing its device as
\* connected, and otherwise, when the device stays removed, in touch or out of
\* touch, the page ends up showing it so; no late snapshot, answer of the site
\* or answer of the app undoes that.
OwnerCatchesUp ==
    /\ <>[]Here => <>[](Visible = "connected")
    /\ <>[](~Here /\ device = "removed") => <>[](Visible = "absent")
    /\ <>[](~Here /\ device = "linked" /\ fresh) => <>[](Visible = "connected")
    /\ <>[](~Here /\ (device = "unlinked" \/ (device = "linked" /\ ~fresh /\ ~live)))
          => <>[](Visible = "away")

\* Liveness of the console's actions: every save, repair or sync is told an
\* outcome, also when its job is never claimed, gets lost on its way or is
\* removed with its device and when the app here is gone; an errand at the app
\* ends, and so does the wait for a one-time link.
ActionsConclude ==
    /\ [](saving.step \in {"posting", "storing"} => <>(saving.told # "nothing"))
    /\ [](errand # "none" => <>(errand = "none"))
    /\ [](link.status \in {"preparing", "waiting"}
             => <>(link.status \notin {"preparing", "waiting"}))
=============================================================================
