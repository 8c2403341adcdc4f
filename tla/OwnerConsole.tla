---------------------------- MODULE OwnerConsole ----------------------------
(***************************************************************************)
(* What the owner of a linked device sees of it in a browser               *)
(* (src/src/app/_components/desktop-bridge-provider, the desktop status    *)
(* console) and how it gets there: the socket server broadcasts snapshots  *)
(* of the device list, the page asks for the list every 15 seconds, and    *)
(* each console action asks for it while it waits for its job.             *)
(*                                                                         *)
(* Every one of them reads the database at one time and writes the list of *)
(* the page at a later one, so an older list can overwrite a newer one.    *)
(* The jobs of a device are the subject of RelayJobs: here there is one    *)
(* device with the one job of a console action.                            *)
(***************************************************************************)
EXTENDS Naturals

CONSTANTS
    Broadcasts,     \* broadcastOwnerSnapshot calls that have read the database
    Scenes          \* the worlds to consider, each with its own bounds

\* clicks: what the owner does on the page.  events bounds what happens to the
\* device, strikes the requests, reads and connections that fail, broadcasts
\* the snapshots that are under way at a time.  home: the device is the app on
\* this computer, which the page can reach by itself (LocalBridge), and reset,
\* that this app may have been set up anew and know nothing of the device.
Scene == [clicks : SUBSET {"save", "leave", "switch", "reload", "connect", "link"},
          home : BOOLEAN, reset : BOOLEAN,
          events : Nat, strikes : Nat, broadcasts : SUBSET Broadcasts]

ASSUME ConsoleAssumption == Scenes \subseteq Scene

VARIABLES
    scene,      \* the world: it never changes
    device,     \* the RelayDevice row: linked (relayEnabled) or not, or gone
    fresh,      \* lastSeenAt is within LIVE_DEVICE_WINDOW_MS
    live,       \* deviceSockets has a connection of the device
    job,        \* RelayJob.status of the action's job, and whether it is among
                \* the recentJobs of its device
    due,        \* broadcastOwnerSnapshot calls have yet to read: how many is
                \* left open
    broadcast,  \* what the others have read
    tab,        \* the page's socket is open
    list,       \* relayDevices: the device as the page shows it
    call,       \* requests for the list: of the interval, of each action
    saving,     \* an action that queues a job and waits for it
    leaving,    \* the removal of the device by this page
    events, strikes

serverVars == <<scene, device, fresh, live, job>>
pageVars == <<tab, list, call, saving, leaving>>
consoleVars == <<serverVars, due, broadcast, pageVars, events, strikes>>

-----------------------------------------------------------------------------
Askers == {"interval", "saving", "leaving", "linking"}
Shown == {"absent", "away", "connected"}
\* A device that was read as linked but not seen lately is "quiet".
Listed == Shown \cup {"quiet"}
JobStatuses == {"absent", "PENDING", "RUNNING", "COMPLETED", "FAILED", "deleted"}
Terminal == {"COMPLETED", "FAILED"}

Nothing == [step |-> "idle"]
Answer(shown, status) == [step |-> "answered", shown |-> shown, status |-> status]

SaveSteps == {"ready", "posting", "queued", "polling", "sleeping", "storing", "done"}
Saving == [step : SaveSteps, told : {"nothing", "success", "failure"}]

ConsoleTypeOK ==
    /\ device \in {"linked", "unlinked", "removed"}
    /\ {fresh, live, due, tab} \subseteq BOOLEAN
    /\ job \in [status : JobStatuses, recent : BOOLEAN]
    /\ scene \in Scenes
    /\ events \in 0..scene.events /\ strikes \in 0..scene.strikes
    /\ broadcast \in [Broadcasts -> {"idle"} \cup Listed]
    /\ list \in Shown
    /\ call \in [Askers -> {Nothing, [step |-> "asked"]} \cup
                    {Answer(s, j) : s \in Shown, j \in JobStatuses \cup {"none"}}]
    /\ saving \in Saving
    /\ leaving \in {"ready", "posting", "removed", "done"}

\* The list a page starts with is the one it saved in localStorage.
ConsoleInit ==
    /\ scene \in Scenes
    /\ device = IF scene.clicks \cap {"connect", "link"} = {} THEN "linked" ELSE "removed"
    /\ fresh \in {device = "linked", FALSE} /\ live = FALSE
    /\ job = [status |-> "absent", recent |-> TRUE]
    /\ due = FALSE /\ broadcast = [b \in Broadcasts |-> "idle"]
    /\ tab = FALSE /\ list \in Shown
    /\ call = [a \in Askers |-> Nothing]
    /\ saving = [step |-> "ready", told |-> "nothing"]
    /\ leaving = "ready"
    /\ events = 0 /\ strikes = 0

Happen == events < scene.events /\ events' = events + 1
Strike == strikes < scene.strikes /\ strikes' = strikes + 1
Ask == due' = TRUE

\* listRelayDevices; a snapshot takes a linked device with a connection for
\* connected as well.
InDatabase ==
    CASE device = "removed"              -> "absent"
      [] device = "unlinked"             -> "away"
      [] device = "linked" /\ fresh      -> "connected"
      [] OTHER                           -> "quiet"
AsShown(read, connection) ==
    IF read = "quiet" THEN IF connection THEN "connected" ELSE "away" ELSE read
JobSeen == IF device = "removed" \/ ~job.recent \/ job.status = "absent"
           THEN "none" ELSE job.status

-----------------------------------------------------------------------------
(* The device.                                                             *)

\* relayWss.on("connection") of a device that its token identifies.
DeviceConnects ==
    /\ device = "linked" /\ ~live /\ Happen /\ Ask
    /\ live' = TRUE /\ fresh' = TRUE
    /\ UNCHANGED <<scene, device, job, broadcast, pageVars, strikes>>

DeviceCloses ==
    /\ live /\ Happen /\ Ask
    /\ live' = FALSE
    /\ UNCHANGED <<scene, device, fresh, job, broadcast, pageVars, strikes>>

\* A poll without jobs, or a message of handleDeviceMessage.
DeviceIsSeen ==
    /\ device # "removed" /\ ~fresh /\ Happen
    /\ (live /\ Ask) \/ (device = "linked" /\ UNCHANGED due)
    /\ fresh' = TRUE
    /\ UNCHANGED <<scene, device, live, job, broadcast, pageVars, strikes>>

TimePasses ==
    /\ fresh /\ fresh' = FALSE
    /\ UNCHANGED <<scene, device, live, job, due, broadcast, pageVars, events, strikes>>

\* claimRelayJobsForDeviceId for a poll or for dispatchPendingJobs.
JobIsClaimed ==
    /\ device = "linked" /\ job.status = "PENDING"
    /\ (live /\ Ask) \/ UNCHANGED due
    /\ job' = [job EXCEPT !.status = "RUNNING"] /\ fresh' = TRUE
    /\ UNCHANGED <<scene, device, live, broadcast, pageVars, events, strikes>>

\* reportRelayJobResult; a job that got lost on its way is never reported.
JobIsReported(outcome) ==
    /\ device # "removed" /\ job.status = "RUNNING"
    /\ (live /\ Ask) \/ UNCHANGED due
    /\ job' = [job EXCEPT !.status = outcome] /\ fresh' = TRUE
    /\ UNCHANGED <<scene, device, live, broadcast, pageVars, events, strikes>>

\* Archive pages have queued three more jobs for the device.
OtherJobsAreQueued ==
    /\ device # "removed" /\ job.status # "absent" /\ job.recent /\ Happen
    /\ job' = [job EXCEPT !.recent = FALSE]
    /\ UNCHANGED <<scene, device, fresh, live, due, broadcast, pageVars, strikes>>

\* disconnectRelayDeviceByToken.
DeviceUnlinks ==
    /\ device = "linked" /\ Happen
    /\ device' = "unlinked"
    /\ UNCHANGED <<scene, fresh, live, job, due, broadcast, pageVars, strikes>>

Removed ==
    /\ device' = "removed"
    /\ job' = [job EXCEPT !.status = IF @ = "absent" THEN @ ELSE "deleted"]

\* Another page of the owner removes the device.
DeviceIsRemoved ==
    /\ device # "removed" /\ Happen /\ Removed
    /\ UNCHANGED <<scene, fresh, live, due, broadcast, pageVars, strikes>>

\* POST /relay/internal/disconnect, which may not arrive.
ForceDisconnect ==
    /\ device # "linked" /\ live /\ Ask
    /\ live' = FALSE
    /\ UNCHANGED <<scene, device, fresh, job, broadcast, pageVars, events, strikes>>

-----------------------------------------------------------------------------
(* broadcastOwnerSnapshot and the socket of the page.                      *)

ReadForBroadcast(b) ==
    /\ due /\ b \in scene.broadcasts /\ broadcast[b] = "idle"
    /\ due' \in BOOLEAN
    /\ broadcast' = [broadcast EXCEPT ![b] = InDatabase]
    /\ UNCHANGED <<serverVars, pageVars, events, strikes>>

\* The page's own connection is closed if it was the first snapshot for it.
FailToRead ==
    /\ due /\ Strike
    /\ due' \in BOOLEAN /\ tab' \in {tab, FALSE}
    /\ UNCHANGED <<serverVars, broadcast, list, call, saving, leaving, events>>

\* safeSend and handleRelayMessage; the way to the page counts as reading.
SendSnapshot(b) ==
    /\ broadcast[b] # "idle"
    /\ broadcast' = [broadcast EXCEPT ![b] = "idle"]
    /\ list' = IF tab THEN AsShown(broadcast[b], live) ELSE list
    /\ UNCHANGED <<serverVars, due, tab, call, saving, leaving, events, strikes>>

\* relayWss.on("connection") of an owner, and the owner.refresh it sends.
OpenSocket ==
    /\ scene.broadcasts # {} /\ ~tab /\ tab' = TRUE /\ Ask
    /\ UNCHANGED <<serverVars, broadcast, list, call, saving, leaving, events, strikes>>

CloseSocket ==
    /\ tab /\ Strike
    /\ tab' = FALSE
    /\ UNCHANGED <<serverVars, due, broadcast, list, call, saving, leaving, events>>

-----------------------------------------------------------------------------
(* refreshRelayDevices: POST /api/relay/owner/devices.                     *)

Ready(a) == call[a] = Nothing
Asked(a) == [call EXCEPT ![a] = [step |-> "asked"]]
HasAnswer(a) == call[a].step = "answered"

\* useOwnerRefresh.
RefreshDevices ==
    /\ Ready("interval")
    /\ call' = Asked("interval")
    /\ UNCHANGED <<serverVars, due, broadcast, tab, list, saving, leaving, events, strikes>>

ListDevices(a) ==
    /\ call[a].step = "asked"
    /\ call' = [call EXCEPT ![a] =
                   Answer(AsShown(InDatabase, FALSE), IF a = "saving" THEN JobSeen ELSE "none")]
    /\ UNCHANGED <<serverVars, due, broadcast, tab, list, saving, leaving, events, strikes>>

\* setRelayDevices with the answer; who asked goes on.
Receive(a) ==
    /\ HasAnswer(a)
    /\ list' = call[a].shown
    /\ call' = [call EXCEPT ![a] = Nothing]

ReceiveList(a) ==
    /\ a \in {"interval", "leaving"} /\ Receive(a)
    /\ UNCHANGED <<serverVars, due, broadcast, tab, saving, leaving, events, strikes>>

\* A request that fails is forgotten, but an action that waits reports it.
FailCall(a) ==
    /\ ~Ready(a) /\ Strike
    /\ call' = [call EXCEPT ![a] = Nothing]
    /\ saving' = IF a = "saving" THEN [saving EXCEPT !.step = "done", !.told = "failure"]
                                 ELSE saving
    /\ UNCHANGED <<serverVars, due, broadcast, tab, list, leaving, events>>

-----------------------------------------------------------------------------
(* useSaveConfig, useRunRepair, useRunSync, with waitForRelayJob.          *)

SaveStep == UNCHANGED <<due, broadcast, tab, leaving, events>>
Tell(outcome) == saving' = [saving EXCEPT !.step = "done", !.told = outcome]

\* pickRelayActionDevice: a device that is shown as connected.
Click(click, shown) ==
    /\ click \in scene.clicks /\ saving.step = "ready" /\ shown = "connected"
    /\ saving' = [saving EXCEPT !.step = "posting"]
    /\ SaveStep /\ UNCHANGED <<serverVars, list, call, strikes>>

\* enqueueRelayJob, also for a device that has been unlinked; settings that
\* were never loaded do not pass configSchema.
QueueJob(valid) ==
    /\ saving.step = "posting"
    /\ IF device = "removed" \/ ~valid
       THEN Tell("failure") /\ UNCHANGED job
       ELSE /\ job' = [job EXCEPT !.status = "PENDING"]
            /\ saving' = [saving EXCEPT !.step = "queued"]
    /\ SaveStep /\ UNCHANGED <<scene, device, fresh, live, list, call, strikes>>

LoseAnswer ==
    /\ saving.step = "queued" /\ Strike /\ Tell("failure")
    /\ SaveStep /\ UNCHANGED <<serverVars, list, call>>

\* The head of the loop, at first and after each sleep before the deadline.
Poll ==
    /\ saving.step \in {"queued", "sleeping"}
    /\ saving' = [saving EXCEPT !.step = "polling"]
    /\ call' = Asked("saving")
    /\ SaveStep /\ UNCHANGED <<serverVars, list, strikes>>

Look ==
    /\ saving.step = "polling" /\ Receive("saving")
    /\ LET seen == call["saving"].status IN
       saving' = [step |-> IF seen \in Terminal THEN "done" ELSE "sleeping",
                  told |-> CASE seen = "COMPLETED" -> "success"
                             [] seen = "FAILED"    -> "failure"
                             [] OTHER              -> "nothing"]
    /\ SaveStep /\ UNCHANGED <<serverVars, strikes>>

\* Mutant: a job that is under way is waited for.
GiveUpUnlessRunning ==
    /\ saving.step = "sleeping" /\ job.status # "RUNNING" /\ Tell("success")
    /\ SaveStep /\ UNCHANGED <<serverVars, list, call, strikes>>

\* RELAY_JOB_TIMEOUT_MS is over; a job that has not failed counts as done.
GiveUp ==
    /\ saving.step = "sleeping" /\ Tell("success")
    /\ SaveStep /\ UNCHANGED <<serverVars, list, call, strikes>>

-----------------------------------------------------------------------------
(* disconnectRelayDevice.                                                  *)

LeaveStep == UNCHANGED <<fresh, live, due, broadcast, tab, saving, events>>

ClickDisconnect(shown) ==
    /\ "leave" \in scene.clicks /\ leaving = "ready" /\ shown # "absent"
    /\ leaving' = "posting"
    /\ LeaveStep /\ UNCHANGED <<scene, device, job, list, call, strikes>>

\* removeRelayDeviceByOwner: there may be no such device any more.
RemoveDevice ==
    /\ leaving = "posting"
    /\ IF device = "removed" THEN leaving' = "done" /\ UNCHANGED <<device, job>>
                             ELSE leaving' = "removed" /\ Removed
    /\ LeaveStep /\ UNCHANGED <<scene, list, call, strikes>>

LoseRemoval ==
    /\ leaving = "removed" /\ Strike /\ leaving' = "done"
    /\ LeaveStep /\ UNCHANGED <<scene, device, job, list, call>>

ForgetDevice ==
    /\ leaving = "removed" /\ leaving' = "done"
    /\ list' = "absent" /\ call' = Asked("leaving")
    /\ LeaveStep /\ UNCHANGED <<scene, device, job, strikes>>

-----------------------------------------------------------------------------
DeviceNext ==
    \/ DeviceConnects \/ DeviceCloses \/ DeviceIsSeen \/ TimePasses
    \/ JobIsClaimed \/ \E o \in Terminal : JobIsReported(o)
    \/ OtherJobsAreQueued \/ DeviceUnlinks \/ DeviceIsRemoved \/ ForceDisconnect

\* The steps of the page and its server that render no list.
OwnerNext(shown, valid) ==
    \/ \E b \in Broadcasts : ReadForBroadcast(b)
    \/ FailToRead \/ OpenSocket \/ CloseSocket
    \/ RefreshDevices \/ \E a \in Askers : ListDevices(a) \/ FailCall(a)
    \/ QueueJob(valid) \/ Poll \/ GiveUp \/ LoseAnswer
    \/ ClickDisconnect(shown) \/ RemoveDevice \/ LoseRemoval

SocketStep == \E b \in Broadcasts : ReadForBroadcast(b) \/ SendSnapshot(b)
CallStep(a) == ListDevices(a) \/ ReceiveList(a)
WaitStep == (\E valid \in BOOLEAN : QueueJob(valid)) \/ Poll \/ Look \/ GiveUp
RemovalStep == RemoveDevice \/ ForgetDevice

\* Servers answer and timers fire; the deadline of a wait comes although the
\* loop is not always asleep.
ConsoleFairness ==
    /\ WF_consoleVars(SocketStep) /\ WF_consoleVars(OpenSocket)
    /\ WF_consoleVars(RefreshDevices)
    /\ \A a \in Askers : WF_consoleVars(CallStep(a))
    /\ WF_consoleVars(WaitStep) /\ SF_consoleVars(GiveUp)
    /\ WF_consoleVars(RemovalStep)
=============================================================================
