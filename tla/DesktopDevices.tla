--------------------------- MODULE DesktopDevices ---------------------------
(***************************************************************************)
(* The desktop devices of the relay: the pairing code that a device is     *)
(* linked by (claimRelayPairing in src/src/server/relay/service.ts), and   *)
(* the Cloudflare tunnel that makes it a gateway                           *)
(* (src/src/server/relay/tunnel-service.ts).                               *)
(*                                                                         *)
(* A provision or a revocation reads the row of the device, makes several  *)
(* remote calls and then writes the row: requests for one device overlap,  *)
(* fail half-way, and lose the answers of calls that have had their        *)
(* effect.  Names and ids are numbers: everything that the n-th provision  *)
(* creates is number n.                                                    *)
(***************************************************************************)
EXTENDS Integers, FiniteSets

CONSTANTS
    Codes,          \* pairing codes
    Devices,
    NoCode,
    Settings        \* the worlds to consider, each with its own bounds

\* old: one device has a tunnel from before the libp2p hostname.  unique: a
\* tunnel is refused when there is one of that name.  runs bounds the provisions
\* that do not find a finished tunnel.
Setting == [requests : SUBSET {"request 1", "request 2"}, old : BOOLEAN,
            unique : BOOLEAN, runs : Nat, strikes : Nat]

ASSUME DevicesAssumption ==
    /\ NoCode \notin Codes
    /\ Settings \subseteq Setting

VARIABLES
    setting,    \* the world: it never changes
    pairing,    \* RelayPairing.claimedAt and expiresAt
    desktop,    \* the RelayDevice table
    cloud,      \* tunnels with their ingress rules, and DNS records
    request,    \* requests under way, with what they have read
    contested,  \* history: tunnels that two requests worked on at once
    runs,       \* provisions so far
    struck      \* failures counted against the bound

desktopVars == <<setting, pairing, desktop, cloud, request, contested, runs, struck>>

-----------------------------------------------------------------------------
NoDesktop == [link |-> "absent", code |-> NoCode, on |-> FALSE,
              tunnel |-> 0, gateway |-> 0, libp2p |-> 0]
NewDesktop(code) == [NoDesktop EXCEPT !.link = "linked", !.code = code]
OldDesktop == [NoDesktop EXCEPT !.link = "linked", !.on = TRUE,
                                !.tunnel = 1, !.gateway = 1]
NoRequest == [step |-> "idle"]

\* rules has the two hostnames in the ingress configuration of a tunnel, and
\* a record leads from a hostname to a tunnel.
Tunnel(n, d, gateway, libp2p) == [id |-> n, of |-> d, rules |-> <<gateway, libp2p>>]
Record(name, n, tunnel) == [name |-> <<name, n>>, to |-> tunnel]

DesktopInit ==
    /\ setting \in Settings
    /\ pairing = [k \in Codes |-> "open"]
    /\ request = [c \in setting.requests |-> NoRequest]
    /\ contested = {} /\ struck = 0
    /\ IF setting.old
       THEN \E d \in Devices :
              /\ desktop = [e \in Devices |-> IF e = d THEN OldDesktop ELSE NoDesktop]
              /\ cloud = [tunnels |-> {Tunnel(1, d, 1, 0)},
                          records |-> {Record("gateway", 1, 1)}]
              /\ runs = 1
       ELSE /\ desktop = [d \in Devices |-> NoDesktop]
            /\ cloud = [tunnels |-> {}, records |-> {}]
            /\ runs = 0

Exists(d) == desktop[d].link \in {"linked", "unlinked"}
At(c, op, step) == request[c].step = step /\ request[c].op = op
Enter(c, step) == request' = [request EXCEPT ![c].step = step]
Leave(c) == request' = [request EXCEPT ![c] = NoRequest]
Struck == struck < setting.strikes /\ struck' = struck + 1

-----------------------------------------------------------------------------
(* claimRelayPairing.                                                      *)

BeginClaim(c, k) ==
    /\ request[c] = NoRequest /\ pairing[k] = "open"
    /\ request' = [request EXCEPT ![c] = [step |-> "claim", op |-> "pair", code |-> k]]
    /\ UNCHANGED <<setting, pairing, desktop, cloud, contested, runs, struck>>

\* Mutant: a code is free again when its device has been removed.
ClaimUnlessLinked(c, d) ==
    /\ At(c, "pair", "claim") /\ desktop[d].link = "absent"
    /\ ~\E e \in Devices : Exists(e) /\ desktop[e].code = request[c].code
    /\ desktop' = [desktop EXCEPT ![d] = NewDesktop(request[c].code)]
    /\ pairing' = [pairing EXCEPT ![request[c].code] = "claimed"]
    /\ Leave(c)
    /\ UNCHANGED <<setting, cloud, contested, runs, struck>>

\* The serializable transaction commits only if nobody else has claimed the
\* code since it was read; that it has expired since is not looked at.
CommitPairing(c, d) ==
    /\ At(c, "pair", "claim") /\ desktop[d].link = "absent"
    /\ pairing[request[c].code] # "claimed"
    /\ desktop' = [desktop EXCEPT ![d] = NewDesktop(request[c].code)]
    /\ pairing' = [pairing EXCEPT ![request[c].code] = "claimed"]
    /\ Leave(c)
    /\ UNCHANGED <<setting, cloud, contested, runs, struck>>

RefusePairing(c) ==
    /\ At(c, "pair", "claim") /\ pairing[request[c].code] = "claimed"
    /\ Leave(c)
    /\ UNCHANGED <<setting, pairing, desktop, cloud, contested, runs, struck>>

Expire(k) ==
    /\ setting.requests # {} /\ pairing[k] = "open"
    /\ pairing' = [pairing EXCEPT ![k] = "expired"]
    /\ UNCHANGED <<setting, desktop, cloud, request, contested, runs, struck>>

\* disconnectRelayDeviceByToken: only relayEnabled changes.
Disconnect(d) ==
    /\ setting.requests # {} /\ desktop[d].link = "linked"
    /\ desktop' = [desktop EXCEPT ![d].link = "unlinked"]
    /\ UNCHANGED <<setting, pairing, cloud, request, contested, runs, struck>>

\* removeRelayDeviceByOwner: the row is deleted, its tunnel stays.
RemoveByOwner(d) ==
    /\ setting.requests # {} /\ Exists(d)
    /\ desktop' = [desktop EXCEPT ![d] = [NoDesktop EXCEPT !.link = "removed",
                                                          !.code = desktop[d].code]]
    /\ UNCHANGED <<setting, pairing, cloud, request, contested, runs, struck>>

-----------------------------------------------------------------------------
(* provisionTunnelForDevice.                                               *)

Complete(row) == row.on /\ row.tunnel # 0 /\ row.libp2p # 0
WorkedOn(n) == \E c \in setting.requests : request[c].step # "idle" /\
                  request[c].op \in {"provision", "revoke"} /\ request[c].tunnel = n
NamedAnew(n, run) == IF n = 0 THEN run ELSE n

\* What is complete is answered as it is.
BeginProvision(c, d) ==
    LET row == desktop[d] IN
    /\ request[c] = NoRequest /\ Exists(d) /\ ~Complete(row)
    /\ runs < setting.runs /\ runs' = runs + 1
    /\ request' = [request EXCEPT ![c] =
           [step |-> IF row.tunnel = 0 THEN "create" ELSE "ingress",
            op |-> "provision", of |-> d, run |-> runs', tunnel |-> row.tunnel,
            gateway |-> NamedAnew(row.gateway, runs'),
            libp2p |-> NamedAnew(row.libp2p, runs')]]
    /\ contested' = IF row.tunnel # 0 /\ WorkedOn(row.tunnel)
                    THEN contested \cup {row.tunnel} ELSE contested
    /\ UNCHANGED <<setting, pairing, desktop, cloud, struck>>

Refused(d) == setting.unique /\ \E t \in cloud.tunnels : t.of = d
IsThere(n) == \E t \in cloud.tunnels : t.id = n

\* The remote effect of a step.
Effect(c) ==
    LET r == request[c] IN
    CASE r.step = "create" ->
           [cloud EXCEPT !.tunnels = @ \cup {Tunnel(r.run, r.of, 0, 0)}]
      [] r.step = "ingress" ->
           [cloud EXCEPT !.tunnels = {IF t.id = r.tunnel
                THEN [t EXCEPT !.rules = <<r.gateway, r.libp2p>>] ELSE t : t \in @}]
      [] r.step = "gateway" ->
           IF r.gateway # r.run THEN cloud
           ELSE [cloud EXCEPT !.records = @ \cup {Record("gateway", r.run, r.tunnel)}]
      [] r.step = "libp2p" ->
           IF r.libp2p # r.run THEN cloud
           ELSE [cloud EXCEPT !.records = @ \cup {Record("libp2p", r.run, r.tunnel)}]

Possible(c) ==
    /\ request[c].step = "create" => ~Refused(request[c].of)
    /\ request[c].step = "ingress" => IsThere(request[c].tunnel)

RemoteSteps == {"create", "ingress", "gateway", "libp2p"}
After(step) == CASE step = "create" -> "ingress" [] step = "ingress" -> "gateway"
                 [] step = "gateway" -> "libp2p" [] step = "libp2p" -> "save"

CallCloudflare(c) ==
    /\ request[c].step \in RemoteSteps /\ request[c].op = "provision" /\ Possible(c)
    /\ cloud' = Effect(c)
    /\ request' = [request EXCEPT ![c].step = After(@),
           ![c].tunnel = IF request[c].step = "create" THEN request[c].run ELSE @]
    /\ UNCHANGED <<setting, pairing, desktop, contested, runs, struck>>

\* Mutant: a call that fails is taken for done.
FailUnnoticed(c) ==
    /\ request[c].step \in RemoteSteps /\ request[c].op = "provision"
    /\ IF Possible(c) THEN Struck ELSE UNCHANGED struck
    /\ request' = [request EXCEPT ![c].step = After(@),
           ![c].tunnel = IF request[c].step = "create" THEN request[c].run ELSE @]
    /\ UNCHANGED <<setting, pairing, desktop, cloud, contested, runs>>

\* A call fails: the row gets its tunnelLastError, and what was created before
\* is forgotten.
FailProvision(c) ==
    /\ request[c].step \in RemoteSteps /\ request[c].op = "provision"
    /\ IF Possible(c) THEN Struck ELSE UNCHANGED struck
    /\ Leave(c)
    /\ UNCHANGED <<setting, pairing, desktop, cloud, contested, runs>>

\* The call has had its effect, but its answer, or that of the request for
\* the token, does not arrive.
LoseAnswer(c) ==
    /\ request[c].step \in RemoteSteps /\ request[c].op = "provision" /\ Possible(c)
    /\ Struck /\ cloud' = Effect(c) /\ Leave(c)
    /\ UNCHANGED <<setting, pairing, desktop, contested, runs>>

\* The row may have been deleted meanwhile: the update throws.
SaveProvision(c) ==
    LET r == request[c] IN
    /\ At(c, "provision", "save")
    /\ desktop' = IF ~Exists(r.of) THEN desktop
           ELSE [desktop EXCEPT ![r.of] = [@ EXCEPT !.on = TRUE,
                    !.tunnel = r.tunnel, !.gateway = r.gateway, !.libp2p = r.libp2p]]
    /\ Leave(c)
    /\ UNCHANGED <<setting, pairing, cloud, contested, runs, struck>>

-----------------------------------------------------------------------------
(* revokeTunnelForDevice.                                                  *)

BeginRevoke(c, d) ==
    LET row == desktop[d] IN
    /\ request[c] = NoRequest /\ Exists(d)
    /\ request' = [request EXCEPT ![c] =
           [step |-> "gateway", op |-> "revoke", of |-> d, tunnel |-> row.tunnel,
            gateway |-> row.gateway, libp2p |-> row.libp2p]]
    /\ contested' = IF row.tunnel # 0 THEN contested \cup {row.tunnel} ELSE contested
    /\ UNCHANGED <<setting, pairing, desktop, cloud, runs, struck>>

\* A call that fails is noted and the next one made.
DeleteRemote(c) ==
    LET r == request[c]
        without == CASE r.step = "gateway" ->
                          [cloud EXCEPT !.records = {x \in @ : x.name # <<"gateway", r.gateway>>}]
                     [] r.step = "libp2p" ->
                          [cloud EXCEPT !.records = {x \in @ : x.name # <<"libp2p", r.libp2p>>}]
                     [] r.step = "tunnel" ->
                          [cloud EXCEPT !.tunnels = {t \in @ : t.id # r.tunnel}]
    IN /\ r.step \in {"gateway", "libp2p", "tunnel"} /\ r.op = "revoke"
       /\ \/ cloud' = without /\ UNCHANGED struck
          \/ UNCHANGED cloud /\ Struck
       /\ Enter(c, CASE r.step = "gateway" -> "libp2p" [] r.step = "libp2p" -> "tunnel"
                     [] r.step = "tunnel" -> "save")
       /\ UNCHANGED <<setting, pairing, desktop, contested, runs>>

SaveRevoke(c) ==
    LET d == request[c].of IN
    /\ At(c, "revoke", "save")
    /\ desktop' = IF ~Exists(d) THEN desktop
           ELSE [desktop EXCEPT ![d] = [@ EXCEPT !.on = FALSE, !.tunnel = 0,
                                                !.gateway = 0, !.libp2p = 0]]
    /\ Leave(c)
    /\ UNCHANGED <<setting, pairing, cloud, contested, runs, struck>>

\* The web server dies.
BreakOff(c) ==
    /\ request[c] # NoRequest /\ Struck
    /\ Leave(c)
    /\ UNCHANGED <<setting, pairing, desktop, cloud, contested, runs>>

DesktopNext ==
    \/ \E c \in setting.requests :
          \/ \E k \in Codes : BeginClaim(c, k)
          \/ \E d \in Devices : CommitPairing(c, d) \/ BeginProvision(c, d) \/ BeginRevoke(c, d)
          \/ RefusePairing(c) \/ CallCloudflare(c) \/ FailProvision(c) \/ LoseAnswer(c)
          \/ SaveProvision(c) \/ DeleteRemote(c) \/ SaveRevoke(c) \/ BreakOff(c)
    \/ \E k \in Codes : Expire(k)
    \/ \E d \in Devices : Disconnect(d) \/ RemoveByOwner(d)

DesktopSpec == DesktopInit /\ [][DesktopNext]_desktopVars

-----------------------------------------------------------------------------
\* Safety of claimRelayPairing: however claims of one code overlap and however
\* their device fares later, a code links one device.
PairingClaimedOnce ==
    \A d, e \in Devices :
        desktop[d].code = desktop[e].code /\ desktop[d].code # NoCode => d = e

\* Safety of provisionTunnelForDevice: whatever failed, lost its answer or
\* overlapped before, a device that is shown with a finished tunnel has one,
\* with the rules of the hostnames in its row, and both names lead to it;
\* unless a revocation or a second provision worked on that tunnel.
EnabledTunnelsWork ==
    \A d \in Devices : Complete(desktop[d]) /\ desktop[d].tunnel \notin contested =>
        LET row == desktop[d] IN
        /\ Tunnel(row.tunnel, d, row.gateway, row.libp2p) \in cloud.tunnels
        /\ {Record("gateway", row.gateway, row.tunnel),
            Record("libp2p", row.libp2p, row.tunnel)} \subseteq cloud.records
=============================================================================
