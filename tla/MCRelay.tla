------------------------------ MODULE MCRelay ------------------------------
(***************************************************************************)
(* Instances for TLC of what happens between the site, the desktop devices *)
(* and other machines of an owner, in four parts: the jobs of a device     *)
(* (RelayJobs), the linking of devices with their tunnels                  *)
(* (DesktopDevices), works saved on an owner's machines (SaveTargets) and  *)
(* the gateway to the files (IpfsGateway).  They share no state, so every  *)
(* behaviour is about one of them while the others rest.                   *)
(***************************************************************************)
EXTENDS MCRelayJobs, DesktopDevices, SaveTargets, IpfsGateway

-----------------------------------------------------------------------------
(* Two requests that link devices, provision and revoke their tunnels.      *)

Requests == {"request 1", "request 2"}
QuietSetting == [requests |-> {}, old |-> FALSE, unique |-> TRUE,
                 runs |-> 0, strikes |-> 0]
MCSettings ==
    {QuietSetting,
     [requests |-> Requests, old |-> TRUE, unique |-> FALSE, runs |-> 2, strikes |-> 1],
     [requests |-> Requests, old |-> FALSE, unique |-> TRUE, runs |-> 2, strikes |-> 1]}

-----------------------------------------------------------------------------
(* Two saves: of works that share a root, with a call that fails, a host    *)
(* that is edited or a server that dies; or one save with a desktop app.    *)

CONSTANTS g1, g2, r1, r2, w1, w2
MCHostOrder == <<g1, g2>>
MCServices == {"service 1", "service 2"}
APlan(of1, of2, mishaps, edits, deaths) ==
    [enabled |-> {g1, g2},
     serves |-> [h \in {g1, g2} |-> IF h = g1 THEN "service 1" ELSE "service 2"],
     work |-> [s \in {w1, w2} |-> IF s = w1 THEN of1 ELSE of2],
     reachable |-> FALSE, paired |-> FALSE,
     bound |-> [mishaps |-> mishaps, edits |-> edits, deaths |-> deaths]]
ADesktop(reachable, paired) ==
    [APlan(<<r1>>, <<>>, 2, 0, 0) EXCEPT
        !.enabled = {}, !.reachable = reachable, !.paired = paired]
QuietPlan == [ADesktop(FALSE, FALSE) EXCEPT !.work = [s \in {w1, w2} |-> <<>>]]
MCPlans ==
    {QuietPlan, APlan(<<r1, r2>>, <<r2>>, 1, 0, 0), APlan(<<r1>>, <<r1>>, 1, 1, 0),
     APlan(<<r1, r2>>, <<>>, 1, 0, 1)}
    \cup {ADesktop(reachable, paired) : reachable, paired \in BOOLEAN}

-----------------------------------------------------------------------------
(* Directories that are completed, moved and read, and overlapping          *)
(* inventories of a device.                                                 *)

CONSTANTS c1, c2, f1, f2, n1, m1
EachCid(a, b) == [c \in {c1, c2} |-> IF c = c1 THEN a ELSE b]
ASite(layout, holds, cold, hydrate, movers, visits, inventories, mishaps) ==
    [layout |-> layout, holds |-> holds, stored |-> cold, hydrate |-> hydrate,
     movers |-> movers, visits |-> visits, inventories |-> inventories,
     mishaps |-> mishaps]
QuietSite == ASite(EachCid("file", "file"), EachCid({f1}, {f2}), EachCid({}, {}),
                   {}, {}, 0, 0, 0)
MCSites ==
    {QuietSite,
     ASite(EachCid("directory", "directory"), EachCid({f1, f2}, {f1}),
           EachCid({f1}, {f1}), {c1}, {n1}, 0, 0, 2),
     ASite(EachCid("directory", "file"), EachCid({f1, f2}, {f1}),
           EachCid({f1}, {f1}), {c1}, {n1, m1}, 1, 0, 0),
     ASite(EachCid("file", "directory"), EachCid({f1}, {f2}),
           EachCid({f1}, {f2}), {}, {m1}, 1, 0, 1),
     ASite(EachCid("file", "directory"), EachCid({f1}, {f2}),
           EachCid({}, {f2}), {}, {}, 1, 2, 1)}

-----------------------------------------------------------------------------
VARIABLE part   \* which of the four the behaviour is about

RelayInit ==
    /\ part \in {"jobs", "devices", "saves", "gateway"}
    /\ Init
    /\ DesktopInit /\ (setting = QuietSetting <=> part # "devices")
    /\ SaveTargetsInit /\ (plan = QuietPlan <=> part # "saves")
    /\ GatewayInit /\ (site = QuietSite <=> part # "gateway")

RelayNext ==
    /\ UNCHANGED part
    /\ \/ part = "jobs" /\ Next /\ UNCHANGED <<desktopVars, saveVars, gatewayVars>>
       \/ part = "devices" /\ DesktopNext /\ UNCHANGED <<vars, saveVars, gatewayVars>>
       \/ part = "saves" /\ SaveTargetsNext /\ UNCHANGED <<vars, desktopVars, gatewayVars>>
       \/ part = "gateway" /\ GatewayNext /\ UNCHANGED <<vars, desktopVars, saveVars>>

RelaySpec ==
    RelayInit /\ [][RelayNext]_<<vars, desktopVars, saveVars, gatewayVars, part>>
=============================================================================
