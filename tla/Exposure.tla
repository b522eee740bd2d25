------------------------------ MODULE Exposure ------------------------------
(* How instances are reached from other machines: `tailscale enable/disable`   *)
(* put Tailscale Serve in front of a local instance, `proxy` and `dns` put a   *)
(* reverse proxy in front of a network instance, and `remove` and `uninstall`  *)
(* offer to take all of it away.                                               *)
(*                                                                             *)
(* One terminal runs one command after the other; any call of a tool may fail  *)
(* and any command may be interrupted between two steps.  Tailscale, the       *)
(* container runtime and the operator are external.                            *)
EXTENDS Naturals, FiniteSets

CONSTANTS
    Local, Net,        \* names of local and of network instances
    Worlds,            \* sets of names: each behaviour is about the names of one of them
    Pairs,             \* the pairs <<web, mcp>> of Serve ports an operator asks for
    Shared,            \* names of container networks for `--network`
    Hosts, Label,      \* hostnames of network instances, and the leftmost label of each
    MaxCommands,       \* a bound of the model, for each of the worlds
    MaxFaults,         \* and one for all of them
    None

\* What the constants are: local and network names, and None, are all different.
Parameters ==
    /\ Local \cap Net = {} /\ None \notin Local \cup Net \cup Shared \cup Pairs
    /\ None \notin {"theirs", "swag", "bridge", "pasta", "name", "port", "detected", "installed"}
    /\ "theirs" \notin Shared
    /\ \A p \in Pairs : p[1] # p[2] /\ None \notin {p[1], p[2]}
    /\ None \notin [net : Shared, dns : BOOLEAN]
    /\ None \notin [form : {"name", "port"}, label : {Label[h] : h \in Hosts}]
    /\ Worlds \subseteq SUBSET (Local \cup Net)
    /\ MaxCommands \in [Worlds -> Nat] /\ MaxFaults \in Nat

ASSUME ExposureAssumption == Parameters

VARIABLES
    world,       \* the names the operator uses, the same at all times
    registered,  \* the names in instances.json
    json,        \* tailscale.json of each local name: its stage and its pair of ports
    env,         \* the pair PUBLIC_URL and PUBLIC_MCP_URL in data/.env name, None for loopback
    up,          \* the names that have a container
    box,         \* the environment the container of a local name was created with
    url,         \* the Serve port in the registry's public_url, None for loopback
    serve,       \* what Tailscale Serve forwards each port to
    loose,       \* ghost: ports a call left other than it said, by its time-out or an error
                 \* that passes for success
    client,      \* the Tailscale client: "missing", "theirs", or "ours", the CLI's
    choice,      \* tailscale_install.json: None, "detected" or "installed"
    theirs,      \* the operator's own proxy: None, "bridge" or "pasta"
    swag,        \* the CLI's SWAG: its compose file, and its container
    host,        \* the hostname of each network name
    conf,        \* the conf of each network name in each proxy's directory: the form of
                 \* its upstream and its server_name
    live,        \* the same as nginx has loaded it
    joined,      \* the container network of each network name
    linked,      \* the networks the running proxy was connected to besides its own
    cli,         \* the command in progress
    begun, faults,
    murky,       \* ghost: names of which nothing is claimed any more
    off,         \* ghost: names one of whose Serve ports was turned off or taken since `enable`
    routed       \* ghost: names `proxy` said were provisioned

ports == <<serve, loose>>
tailnet == <<json, env, url, ports>>
containers == <<up, box>>
install == <<client, choice>>
proxies == <<theirs, swag, host, conf, live, joined, linked>>
vars == <<world, registered, tailnet, containers, install, proxies, cli, begun, faults, murky,
          off, routed>>

Names == Local \cup Net
ServePorts == {p[1] : p \in Pairs} \cup {p[2] : p \in Pairs}
Optional(S) == S \cup {None}
Stages == {"none", "ports_on", "env_set", "recreated", "done"}
Networks == Shared \cup {"theirs"}
Idle == [pc |-> "idle", op |-> "none", n |-> None, pair |-> None, net |-> None, proxy |-> None,
         form |-> None, rest |-> {}, blind |-> FALSE]
Setup == [net : Shared, dns : BOOLEAN]
Labels == {Label[h] : h \in Hosts}
Confs == [{"theirs", "swag"} -> [Net -> Optional([form : {"name", "port"}, label : Labels])]]

TypeOK ==
    /\ registered \subseteq Names
    /\ json \in [Local -> [stage : Stages, pair : Optional(Pairs)]]
    /\ env \in [Local -> Optional(Pairs)]
    /\ up \subseteq Names /\ box \in [Local -> Optional(Pairs)]
    /\ url \in [Local -> Optional(ServePorts)]
    /\ serve \in [ServePorts -> Optional(Local)]
    /\ client \in {"missing", "theirs", "ours"} /\ choice \in {None, "detected", "installed"}
    /\ theirs \in {None, "bridge", "pasta"}
    /\ swag \in [file : Optional(Setup), box : Optional(Setup)]
    /\ conf \in Confs /\ live \in Confs /\ host \in [Net -> Hosts]
    /\ joined \in [Net -> Optional(Networks)] /\ linked \subseteq Shared
    /\ DOMAIN cli = DOMAIN Idle /\ cli.n \in Optional(Names) /\ cli.rest \subseteq Names
    /\ {begun, faults} \subseteq Nat
    /\ murky \subseteq Names /\ off \subseteq Local /\ routed \subseteq Net
    /\ loose \subseteq ServePorts

Nothing == [stage |-> "none", pair |-> None]

Init ==
    /\ world \in Worlds /\ registered = world
    /\ json = [n \in Local |-> Nothing] /\ env = [n \in Local |-> None]
    /\ up = world /\ box = [n \in Local |-> None]
    /\ url = [n \in Local |-> None] /\ serve = [p \in ServePorts |-> None]
    /\ loose = {}
    /\ client \in IF world \cap Local = {} THEN {"missing"} ELSE {"missing", "theirs"}
    /\ choice = None
    /\ theirs \in IF world \cap Net = {} THEN {None} ELSE {None, "bridge", "pasta"}
    /\ swag = [file |-> None, box |-> None]
    /\ conf = [p \in {"theirs", "swag"} |-> [n \in Net |-> None]] /\ live = conf
    /\ joined = [n \in Net |-> None] /\ linked = {}
    /\ host \in [Net -> Hosts]
    /\ \A m, n \in world \cap Net : host[m] = host[n] => m = n
    /\ \A n \in Net \ world : host[n] = CHOOSE h \in Hosts : TRUE
    /\ cli = Idle /\ begun = 0 /\ faults = 0
    /\ murky = {} /\ off = {} /\ routed = {}

-----------------------------------------------------------------------------
Fault == faults < MaxFaults /\ faults' = faults + 1
NoFault == UNCHANGED faults
At(pc) == cli.pc = pc
Goto(pc) == cli' = [cli EXCEPT !.pc = pc]
End == cli' = Idle
Begin(command) ==
    /\ cli = Idle /\ begun < MaxCommands[world] /\ begun' = begun + 1
    /\ cli' = command

Stage(n, stage) == json' = [json EXCEPT ![n] = [stage |-> stage, pair |-> cli.pair]]

\* `tailscale serve --https=<port> off` knows no instance.
Owner(port) == {serve[port]} \ {None}

\* disable_serve_port(): an error whose text has "not" in it passes for success.
TurnOff(port) ==
    \/ serve' = [serve EXCEPT ![port] = None] /\ loose' = loose \ {port} /\ NoFault
    \/ loose' = loose \cup {port} /\ Fault /\ UNCHANGED serve

\* `compose up --force-recreate`: the container gets data/.env as it is now, or the
\* command fails and leaves the old container or none, or the new one after a time-out.
Recreated(n) ==
    /\ up' = up \cup {n}
    /\ box' = IF n \in Local THEN [box EXCEPT ![n] = env[n]] ELSE box
RecreateFails(n) == Fault /\ (Recreated(n) \/ (up' \in {up, up \ {n}} /\ UNCHANGED box))

-----------------------------------------------------------------------------
(* tailscale enable *)

EnableBegin(n, pair) ==
    /\ n \in registered
    /\ Begin([Idle EXCEPT !.pc = "ready", !.op = "enable", !.n = n, !.pair = pair])
    /\ UNCHANGED <<registered, tailnet, containers, install, proxies, faults, murky, off,
                   routed>>

\* ensure_tailscale_ready(): a client that is there is recorded if nothing is recorded
\* yet, a missing one is installed.  Declined, not logged in, or a new client that is
\* not on the PATH yet: the command ends.
Ready ==
    /\ At("ready")
    /\ \/ /\ client # "missing"
          /\ choice' = IF choice = None THEN "detected" ELSE choice
          /\ UNCHANGED client
          /\ (Goto("checks") /\ NoFault) \/ (End /\ Fault)
       \/ /\ client = "missing"
          /\ \/ client' = "ours" /\ choice' = "installed" /\ Goto("checks") /\ NoFault
             \/ client' = "ours" /\ UNCHANGED choice /\ End /\ Fault
             \/ End /\ NoFault /\ UNCHANGED install
    /\ UNCHANGED <<registered, tailnet, containers, proxies, begun, murky, off, routed>>

\* A failure before any port is on is recorded as stage NONE, whatever stage the name
\* was at: what an earlier `enable` left on is forgotten.
Forgets(n) == murky' = IF json[n].stage # "none" THEN murky \cup {n} ELSE murky

\* wait_for_stable_backend(), the host name, provision_cert().
Checks ==
    /\ At("checks")
    /\ \/ Goto("web") /\ NoFault /\ UNCHANGED <<json, murky>>
       \/ End /\ Fault /\ UNCHANGED <<json, murky>>
       \/ End /\ Fault /\ Stage(cli.n, "none") /\ Forgets(cli.n)
    /\ UNCHANGED <<registered, env, url, ports, containers, install, proxies, begun, off,
                   routed>>

\* enable_serve_port(): the port is served by this instance, whoever had it.
Serve(port) ==
    /\ serve' = [serve EXCEPT ![port] = cli.n]
    /\ off' = off \cup (Owner(port) \ {cli.n})

\* A call that takes more than 30 seconds has failed, and may have done its work.
ServeStep(pc, port, next) ==
    /\ At(pc)
    /\ \/ Serve(port) /\ loose' = loose \ {port} /\ Goto(next) /\ NoFault
       \/ Serve(port) /\ loose' = loose \cup {port} /\ Goto("undo") /\ Fault
       \/ Goto("undo") /\ Fault /\ UNCHANGED <<ports, off>>
    /\ UNCHANGED <<registered, json, env, url, containers, install, proxies, begun, murky,
                   routed>>

EnableWeb == ServeStep("web", cli.pair[1], "mcp")
EnableMcp == ServeStep("mcp", cli.pair[2], "record")

\* The web port is turned off, the other is not; when that fails too, nothing is recorded.
Undo ==
    /\ At("undo")
    /\ \/ /\ TurnOff(cli.pair[1]) /\ off' = off \cup Owner(cli.pair[1])
          /\ Stage(cli.n, "none") /\ Forgets(cli.n)
       \/ Fault /\ murky' = murky \cup {cli.n} /\ UNCHANGED <<json, ports, off>>
       \/ /\ Fault /\ murky' = murky \cup {cli.n} /\ UNCHANGED <<json, loose>>
          /\ serve' = [serve EXCEPT ![cli.pair[1]] = None]
          /\ off' = off \cup Owner(cli.pair[1])
    /\ End
    /\ UNCHANGED <<registered, env, url, containers, install, proxies, begun, routed>>

\* Slip: the stage is written only when all is done.
RecordLater ==
    /\ At("record") /\ Goto("env")
    /\ UNCHANGED <<registered, tailnet, containers, install, proxies, begun, faults, murky, off,
                   routed>>

\* Both ports are on.  Those of an earlier `enable` with other ports are forgotten.
Record ==
    /\ At("record") /\ Goto("env")
    /\ Stage(cli.n, "ports_on")
    /\ murky' = IF json[cli.n].pair \notin {None, cli.pair} THEN murky \cup {cli.n} ELSE murky
    /\ UNCHANGED <<registered, env, url, ports, containers, install, proxies, begun, faults,
                   off, routed>>

\* The five lines of data/.env.
EnableEnv ==
    /\ At("env")
    /\ \/ /\ env' = [env EXCEPT ![cli.n] = cli.pair]
          /\ Stage(cli.n, "env_set") /\ Goto("up") /\ NoFault
       \/ /\ Fault /\ End /\ Stage(cli.n, "ports_on")
          /\ env' \in {env, [env EXCEPT ![cli.n] = cli.pair]}
    /\ UNCHANGED <<registered, url, ports, containers, install, proxies, begun, murky, off,
                   routed>>

EnableUp ==
    /\ At("up")
    /\ \/ Recreated(cli.n) /\ Stage(cli.n, "recreated") /\ Goto("url") /\ NoFault
       \/ RecreateFails(cli.n) /\ Stage(cli.n, "env_set") /\ End
    /\ UNCHANGED <<registered, env, url, ports, install, proxies, begun, murky, off, routed>>

\* update_instance(public_url), then the last stage.
EnableUrl ==
    /\ At("url") /\ Goto("done")
    /\ url' = [url EXCEPT ![cli.n] = cli.pair[1]]
    /\ UNCHANGED <<registered, json, env, ports, containers, install, proxies, begun, faults,
                   murky, off, routed>>

EnableDone ==
    /\ At("done") /\ End
    /\ Stage(cli.n, "done") /\ off' = off \ {cli.n}
    /\ UNCHANGED <<registered, env, url, ports, containers, install, proxies, begun, faults,
                   murky, routed>>

-----------------------------------------------------------------------------
(* tailscale disable *)

\* Refused at stage NONE.
DisableBegin(n) ==
    /\ n \in registered /\ json[n].stage # "none"
    /\ Begin([Idle EXCEPT !.pc = "off1", !.op = "disable", !.n = n, !.pair = json[n].pair])
    /\ UNCHANGED <<registered, tailnet, containers, install, proxies, faults, murky, off,
                   routed>>

\* disable_serve_port() for both ports, in `disable` and after `remove`; an error ends it,
\* a time-out may have turned the port off.
OffStep(pc, port, next) ==
    /\ At(pc)
    /\ \/ TurnOff(port) /\ off' = off \cup Owner(port) \cup {cli.n} /\ Goto(next)
       \/ End /\ Fault /\ UNCHANGED <<ports, off>>
       \/ /\ End /\ Fault /\ UNCHANGED loose
          /\ serve' = [serve EXCEPT ![port] = None] /\ off' = off \cup Owner(port) \cup {cli.n}
    /\ UNCHANGED <<registered, json, env, url, containers, install, proxies, begun, murky,
                   routed>>

TurnOffWeb == OffStep("off1", cli.pair[1], "off2")

TurnOffMcp == OffStep("off2", cli.pair[2], IF cli.op = "disable" THEN "denv" ELSE "client")

DisableEnv ==
    /\ At("denv") /\ Goto("dup")
    /\ env' = [env EXCEPT ![cli.n] = None]
    /\ UNCHANGED <<registered, json, url, ports, containers, install, proxies, begun, faults,
                   murky, off, routed>>

DisableUp ==
    /\ At("dup")
    /\ (Recreated(cli.n) /\ Goto("durl") /\ NoFault) \/ (RecreateFails(cli.n) /\ End)
    /\ UNCHANGED <<registered, tailnet, install, proxies, begun, murky, off, routed>>

DisableUrl ==
    /\ At("durl") /\ Goto("dclear")
    /\ url' = [url EXCEPT ![cli.n] = None]
    /\ UNCHANGED <<registered, json, env, ports, containers, install, proxies, begun, faults,
                   murky, off, routed>>

DisableClear ==
    /\ At("dclear") /\ Goto("client")
    /\ json' = [json EXCEPT ![cli.n] = Nothing] /\ off' = off \ {cli.n}
    /\ UNCHANGED <<registered, env, url, ports, containers, install, proxies, begun, faults,
                   murky, routed>>

\* Slip: the other instances are not looked at.
NoOther(unread) == TRUE

\* _any_other_instance_has_tailscale_enabled() is false: an instance whose tailscale.json
\* cannot be read counts as one that has not.
Unused(unread) == \A m \in (registered \cap Local) \ unread : json[m].stage = "none"

\* _offer_tailscale_client_removal_if_unused().
OfferClient ==
    /\ At("client") /\ End
    /\ \/ choice = "installed" /\ Unused({}) /\ client' = "missing" /\ NoFault
       \/ /\ choice = "installed" /\ Fault /\ client' = "missing"
          /\ \E m \in registered \cap Local : Unused({m})
       \/ choice = "installed" /\ Unused({}) /\ Fault /\ UNCHANGED client
       \/ NoFault /\ UNCHANGED client
    /\ UNCHANGED <<registered, tailnet, containers, choice, proxies, begun, murky, off, routed>>

-----------------------------------------------------------------------------
(* proxy *)

\* What `ps` shows of the two proxies; both want ports 80 and 443, so one can run.
Running == IF swag.box # None THEN "swag" ELSE IF theirs # None THEN "theirs" ELSE None
NetworkOf(p) == IF p = "swag" THEN swag.box.net ELSE "theirs"
Networked(p) == {NetworkOf(p)} \cup linked

\* detect_existing_proxy(); a `ps` that fails shows none.
Detects(p) == (p = Running /\ NoFault) \/ (p = None /\ Running # None /\ Fault)

\* nginx starts with the confs that are in its directory.
Restarted(p) == live' = [live EXCEPT ![p] = conf[p]]

\* The CLI's SWAG is a new container: it is on the network of its compose file, and on
\* no other; without one nothing is reached any more.
Remade(net) ==
    /\ Restarted("swag") /\ linked' = {}
    /\ routed' = {m \in routed : joined[m] = net}
Lost == routed' = {} /\ linked' = {}

\* Compose file and container of SWAG, rewritten and brought up; the container fails
\* to start, or the old one stays, when the command fails, or is the new one when it took
\* too long.
SwagUp(setup, next) ==
    \/ /\ theirs = None /\ NoFault
       /\ swag' = [file |-> setup, box |-> setup] /\ next
    \/ /\ (theirs # None /\ NoFault) \/ Fault
       /\ End /\ UNCHANGED live
       /\ \/ swag' = [file |-> setup, box |-> swag.box] /\ UNCHANGED <<routed, linked>>
          \/ swag.box # None /\ swag' = [file |-> setup, box |-> None] /\ Lost
    \/ /\ theirs = None /\ Fault /\ End
       /\ swag' = [file |-> setup, box |-> setup] /\ Remade(setup.net)

ProxyBegin(n, net) ==
    /\ n \in registered
    /\ Begin([Idle EXCEPT !.pc = "detect", !.op = "proxy", !.n = n, !.net = net])
    /\ UNCHANGED <<registered, tailnet, containers, install, proxies, faults, murky, off,
                   routed>>

DetectProxy ==
    /\ At("detect")
    /\ \E p \in {None, "swag", "theirs"} :
          /\ Detects(p)
          /\ \/ p # None /\ cli' = [cli EXCEPT !.pc = "attach", !.proxy = p]
             \/ p = None /\ cli' = [cli EXCEPT !.pc = "install", !.blind = (Running # None)]
    /\ UNCHANGED <<registered, tailnet, containers, install, proxies, begun, murky, off, routed>>

\* install_swag(), which knows nothing of DNS settings, or the operator declines.  `up`
\* leaves a container alone that is as its compose file says.
InstallSwag ==
    LET setup == [net |-> cli.net, dns |-> FALSE] IN
    /\ At("install")
    /\ \/ SwagUp(setup,
                 /\ cli' = [cli EXCEPT !.pc = "attach", !.proxy = "swag"]
                 /\ IF swag.box = setup THEN UNCHANGED <<live, routed, linked>>
                    ELSE Remade(cli.net))
       \/ End /\ NoFault /\ UNCHANGED <<swag, live, routed, linked>>
    /\ UNCHANGED <<registered, tailnet, containers, install, theirs, host, conf, joined,
                   begun, murky, off>>

\* Slip: the instance joins the network that was asked for, wherever the proxy is.
AttachAsAsked ==
    /\ At("attach")
    /\ joined' = [joined EXCEPT ![cli.n] = cli.net]
    /\ Recreated(cli.n) /\ cli' = [cli EXCEPT !.pc = "confs", !.form = "name"] /\ NoFault
    /\ UNCHANGED <<registered, tailnet, install, theirs, swag, host, conf, live, linked, begun,
                   murky, off, routed>>

\* The instance is recreated on the network, to be found by its name there.
Joins == Recreated(cli.n) /\ cli' = [cli EXCEPT !.pc = "confs", !.form = "name"]

\* A proxy in pasta mode is given the published ports; with another one the instance
\* shares its network: attached, written to the compose files, recreated.  When `inspect`
\* does not tell the proxy's networks, the proxy is connected to the one that was asked
\* for, which one in pasta mode refuses.
Attach ==
    /\ At("attach")
    /\ \/ /\ cli.proxy = "theirs" /\ theirs = "pasta"
          /\ cli' = [cli EXCEPT !.pc = "confs", !.form = "port"] /\ NoFault
          /\ UNCHANGED <<containers, joined, linked>>
       \/ /\ ~(cli.proxy = "theirs" /\ theirs = "pasta")
          /\ \E net \in Networked(cli.proxy) : joined' = [joined EXCEPT ![cli.n] = net]
          /\ (Joins /\ NoFault) \/ (RecreateFails(cli.n) /\ End)
          /\ UNCHANGED linked
       \/ /\ ~(cli.proxy = "theirs" /\ theirs = "pasta")
          /\ joined' = [joined EXCEPT ![cli.n] = cli.net] /\ Joins
          /\ linked' = linked \cup {cli.net} /\ Fault
       \/ End /\ Fault /\ UNCHANGED <<containers, joined, linked>>
    /\ routed' = routed \ {cli.n}
    /\ UNCHANGED <<registered, tailnet, install, theirs, swag, host, conf, live, begun, murky,
                   off>>

\* server_name is the leftmost label of the hostname, with any domain.
InstallConfs ==
    /\ At("confs") /\ Goto("reload")
    /\ conf' = [conf EXCEPT ![cli.proxy][cli.n] =
                    [form |-> cli.form, label |-> Label[host[cli.n]]]]
    /\ UNCHANGED <<registered, tailnet, containers, install, theirs, swag, host, live, joined,
                   linked, begun, faults, murky, off, routed>>

Reload ==
    /\ At("reload") /\ End
    /\ \/ Restarted(cli.proxy) /\ routed' = routed \cup {cli.n} /\ NoFault
       \/ Fault /\ (Restarted(cli.proxy) \/ UNCHANGED live) /\ UNCHANGED routed
    /\ UNCHANGED <<registered, tailnet, containers, install, theirs, swag, host, conf, joined,
                   linked, begun, murky, off>>

\* dns duckdns, dns cloudflare: only for the CLI's own SWAG, which is made again on the
\* --network of this command, and leaves the instances on another behind.
ConfigureDns(n, net) ==
    /\ n \in registered /\ swag.file # None
    /\ cli = Idle /\ begun < MaxCommands[world] /\ begun' = begun + 1
    /\ SwagUp([net |-> net, dns |-> TRUE], UNCHANGED cli /\ Remade(net))
    /\ UNCHANGED <<registered, tailnet, containers, install, theirs, host, conf, joined, murky,
                   off>>

-----------------------------------------------------------------------------
(* remove and uninstall: what they offer after the instances are gone *)

Gone(S, kept) ==
    /\ registered' = registered \ S
    /\ up' = up \ S /\ box' = [n \in Local |-> IF n \in S THEN None ELSE box[n]]
    /\ json' = [n \in Local |-> IF n \in S \ kept THEN Nothing ELSE json[n]]
    /\ routed' = routed \ S

\* tailscale.json is read before the data directory may go.
Remove(n) ==
    /\ n \in registered
    /\ Begin(IF n \in Net
             THEN [Idle EXCEPT !.pc = "rdetect", !.op = "remove", !.n = n, !.rest = {n}]
             ELSE IF json[n].stage # "none"
             THEN [Idle EXCEPT !.pc = "off1", !.op = "remove", !.n = n, !.pair = json[n].pair]
             ELSE Idle)
    /\ \E kept \in SUBSET {n} : Gone({n}, kept)
    /\ UNCHANGED <<env, url, ports, install, proxies, faults, murky, off>>

\* Every instance is removed, and the CLI's configuration directory with it.
Uninstall ==
    /\ Begin([Idle EXCEPT !.pc = IF registered \cap Net = {} THEN "ustates" ELSE "rdetect",
                          !.op = "uninstall", !.rest = registered])
    /\ \E kept \in {{}, registered} : Gone(registered, kept)
    /\ choice' = None
    /\ off' = off \cup {n \in registered \cap Local : json[n].stage # "none"}
    /\ UNCHANGED <<env, url, ports, client, proxies, faults, murky>>

\* The offers about the proxy are over.
Leave == IF cli.op = "uninstall" THEN Goto("ustates") ELSE End

HasConf(S) == {n \in S \cap Net : conf[cli.proxy][n] # None}

RemoveDetects ==
    /\ At("rdetect")
    /\ \E p \in {None, "swag", "theirs"} :
          /\ Detects(p)
          /\ IF p = None THEN Leave ELSE cli' = [cli EXCEPT !.pc = "rconfs", !.proxy = p]
    /\ UNCHANGED <<registered, tailnet, containers, install, proxies, begun, murky, off, routed>>

\* remove_confs() and reload_proxy(), whose failure is only reported.  `remove` ends
\* here when there is no conf or the operator declines, `uninstall` goes on.
RemoveConfs ==
    /\ At("rconfs")
    /\ \/ /\ HasConf(cli.rest) # {}
          /\ conf' = [conf EXCEPT ![cli.proxy] =
                [n \in Net |-> IF n \in cli.rest THEN None ELSE conf[cli.proxy][n]]]
          /\ \/ live' = [live EXCEPT ![cli.proxy] = conf'[cli.proxy]] /\ NoFault
             \/ Fault /\ UNCHANGED live
          /\ Goto("rswag")
       \/ /\ (IF cli.op = "remove" THEN End ELSE Goto("rswag"))
          /\ NoFault /\ UNCHANGED <<conf, live>>
    /\ UNCHANGED <<registered, tailnet, containers, install, theirs, swag, host, joined, linked,
                   begun, murky, off, routed>>

\* Somebody else needs SWAG: a conf of another instance, or one that is registered.
SwagNeeded == (\E n \in Net : conf["swag"][n] # None) \/ registered \cap Net # {}

\* remove_managed_swag(): compose down, then the whole directory.
RemoveSwag ==
    /\ At("rswag")
    /\ \/ /\ cli.proxy = "swag" /\ ~SwagNeeded /\ NoFault
          /\ swag' = [file |-> None, box |-> None] /\ Lost
          /\ conf' = [conf EXCEPT !["swag"] = [n \in Net |-> None]]
          /\ live' = [live EXCEPT !["swag"] = [n \in Net |-> None]]
       \/ /\ cli.proxy = "swag" /\ ~SwagNeeded /\ Fault /\ UNCHANGED <<conf, live>>
          /\ \/ UNCHANGED <<swag, linked, routed>>
             \/ swag' = [swag EXCEPT !.box = None] /\ Lost
       \/ NoFault /\ UNCHANGED <<swag, conf, live, linked, routed>>
    /\ Leave
    /\ UNCHANGED <<registered, tailnet, containers, install, theirs, host, joined, begun, murky,
                   off>>

\* The Serve ports of the removed instances, those whose turning off fails and those that
\* were not recorded excepted; `off` was marked when their states were read.
UninstallServe ==
    /\ At("ustates") /\ Goto("uclient")
    /\ \E done \in SUBSET {p \in ServePorts : serve[p] \in cli.rest \cap off} :
          serve' = [p \in ServePorts |-> IF p \in done THEN None ELSE serve[p]]
    /\ UNCHANGED <<registered, json, env, url, loose, containers, install, proxies, begun,
                   faults, murky, off, routed>>

UninstallClient ==
    /\ At("uclient") /\ End
    /\ client' \in IF choice = "installed" THEN {client, "missing"} ELSE {client}
    /\ UNCHANGED <<registered, tailnet, containers, choice, proxies, begun, faults, murky, off,
                   routed>>

-----------------------------------------------------------------------------
(* create, update, and what happens outside of the CLI *)

\* A new instance under an old name.  A kept directory keeps its tailscale.json.  The
\* operator gives every network instance a hostname of its own.
Create(n) ==
    /\ n \in world \ registered
    /\ Begin(Idle)
    /\ registered' = registered \cup {n}
    /\ up' = up \cup {n} /\ UNCHANGED box
    /\ IF n \in Local
       THEN /\ env' = [env EXCEPT ![n] = None] /\ url' = [url EXCEPT ![n] = None]
            /\ UNCHANGED joined
       ELSE joined' = [joined EXCEPT ![n] = None] /\ UNCHANGED <<env, url>>
    /\ IF n \in Net
       THEN \E h \in Hosts \ {host[m] : m \in registered \cap Net} :
                host' = [host EXCEPT ![n] = h]
       ELSE UNCHANGED host
    /\ murky' = IF n \in Local THEN murky \cup {n} ELSE murky
    /\ UNCHANGED <<json, ports, install, theirs, swag, conf, live, linked, faults, off, routed>>

\* update, or a start after a failed recreate: the container is made again.
Update(n) ==
    /\ n \in registered /\ cli = Idle /\ begun < MaxCommands[world] /\ begun' = begun + 1
    /\ Recreated(n)
    /\ UNCHANGED <<registered, tailnet, install, proxies, cli, faults, murky, off, routed>>

\* The operator installs Tailscale, or stops the CLI's SWAG.
Operator ==
    /\ cli = Idle /\ begun < MaxCommands[world] /\ begun' = begun + 1
    /\ \/ client = "missing" /\ client' = "theirs" /\ UNCHANGED <<swag, routed, linked>>
       \/ swag.box # None /\ swag' = [swag EXCEPT !.box = None] /\ Lost /\ UNCHANGED client
    /\ UNCHANGED <<registered, tailnet, containers, choice, theirs, host, conf, live, joined,
                   cli, faults, murky, off>>

\* Ctrl-C, or an exception nobody catches.
Interrupt ==
    /\ cli # Idle /\ Fault /\ End
    /\ murky' = murky \cup ({cli.n} \cap Names)
    /\ UNCHANGED <<registered, tailnet, containers, install, proxies, begun, off, routed>>

Tailscale ==
    \/ \E n \in Local, pair \in Pairs : EnableBegin(n, pair)
    \/ \E n \in Local : DisableBegin(n)
    \/ Ready \/ Checks \/ EnableWeb \/ EnableMcp \/ Undo \/ Record
    \/ EnableEnv \/ EnableUp \/ EnableUrl \/ EnableDone
    \/ TurnOffWeb \/ TurnOffMcp \/ DisableEnv \/ DisableUp \/ DisableUrl \/ DisableClear
    \/ OfferClient

Proxy ==
    \/ \E n \in Net, net \in Shared : ProxyBegin(n, net) \/ ConfigureDns(n, net)
    \/ DetectProxy \/ InstallSwag \/ Attach \/ InstallConfs \/ Reload
    \/ RemoveDetects \/ RemoveConfs \/ RemoveSwag

Next ==
    /\ UNCHANGED world
    /\ \/ Tailscale \/ Proxy
       \/ \E n \in Names : Remove(n) \/ Create(n) \/ Update(n)
       \/ Uninstall \/ UninstallServe \/ UninstallClient
       \/ Operator \/ Interrupt

Spec == Init /\ [][Next]_vars

-----------------------------------------------------------------------------
\* An instance of which something is claimed: registered, not being worked on.
Settled == (registered \cap Local) \ (murky \cup {cli.n})

\* "Works from any partial stage" (tailscale.py:989-997): wherever `enable` or `disable`
\* stopped, an instance whose stage is NONE is on loopback in its data/.env, its
\* container and the registry: `disable` refuses it, so nothing else would put it back.
OffMeansOff ==
    \A n \in Settled : json[n].stage = "none" =>
        env[n] = None /\ (n \in up => box[n] = None) /\ url[n] = None

\* A Serve port that forwards to an instance is one of those its tailscale.json records,
\* at a stage `disable` accepts, but for a port that a call of tailscale left other than
\* it said: no other failure of `enable` leaves one on that only the operator could find.
ServedIsRecorded ==
    \A p \in ServePorts \ loose : serve[p] \in Settled =>
        /\ json[serve[p]].stage # "none"
        /\ p \in {json[serve[p]].pair[1], json[serve[p]].pair[2]}

\* What a failed `enable` says (tailscale.py:908): "no Tailscale Serve ports were left on
\* (rolled back)".  It does not hold: only the web port is turned off.
RolledBack ==
    \A p \in ServePorts : serve[p] \in Settled => json[serve[p]].stage # "none"

\* What `tailscale status` calls enabled is served: both ports, the container's
\* environment and the registry agree, unless another instance's command took or turned
\* off a port of the pair, or a `disable` did not get to its end.
DoneMeansServed ==
    \A n \in Settled \ off : json[n].stage = "done" =>
        LET pair == json[n].pair
        IN /\ serve[pair[1]] = n /\ serve[pair[2]] = n
           /\ env[n] = pair /\ (n \in up => box[n] = pair) /\ url[n] = pair[1]

\* The Tailscale client is removed only when it serves no registered instance, but for
\* one whose tailscale.json could not be read just then, and for a port that was left on
\* unknown to the CLI.
ClientGoesUnused ==
    client # "missing" /\ client' = "missing" =>
        \E unread \in IF UNCHANGED faults THEN {{}} ELSE {{m} : m \in Local} :
            \A p \in ServePorts \ loose : serve[p] \notin Settled \ unread

\* No step takes the client from an instance it serves.
ClientInUseKept == [][ClientGoesUnused]_vars

\* _any_other_instance_has_tailscale_enabled() is "True if any currently-registered
\* instance has Tailscale Serve on" (commands.py:730), so that the client stays.  It does
\* not hold: an instance whose tailscale.json cannot be read is passed over.
ServingClientKept ==
    [][client # "missing" /\ client' = "missing" =>
        \A n \in registered \cap Local : json[n].stage # "done"]_vars

\* The names whose conf, as nginx has loaded it, claims the label of this hostname: nginx
\* takes the first of them.
Answering(h) == {m \in Net : live[Running][m] # None /\ live[Running][m].label = Label[h]}

\* An instance that `proxy` provisioned is one the running proxy routes to: its conf is
\* loaded and claims the label of its hostname, and the proxy shares its network, or knows
\* its published port, whatever was provisioned, removed or torn down for others since.
ProvisionedRouted ==
    \A n \in (routed \cap registered) \ (murky \cup {cli.n}) : n \in up =>
        /\ Running # None
        /\ n \in Answering(host[n])
        /\ \/ live[Running][n].form = "port" /\ Running = "theirs" /\ theirs = "pasta"
           \/ live[Running][n].form = "name" /\ joined[n] \in Networked(Running)

\* "The reverse proxy routes each instance by its own hostname" (docs/multi-instance.md:28).
\* It does not hold for two hostnames with the same leftmost label.
RoutedByHostname ==
    \A n \in (routed \cap registered) \ (murky \cup {cli.n}) : n \in up =>
        Answering(host[n]) = {n}

\* The DNS and TLS settings of the CLI's SWAG are given up only with SWAG itself, when
\* no instance is registered or configured that needs them (commands.py:752-763), or
\* overwritten by a `proxy` that does not see SWAG running.
SettingsGoUnused ==
    swag.file # None /\ swag.file.dns /\ (swag'.file = None \/ ~swag'.file.dns) =>
        \/ /\ swag'.file = None /\ registered \cap Net = {}
           /\ \A n \in Net : conf["swag"][n] = None
        \/ swag'.file # None /\ (Running # "swag" \/ cli.blind)

\* No step gives up SWAG's settings but so.
SettingsKept == [][SettingsGoUnused]_vars

\* What instances share stays while one of them uses it.
SharedKept == ClientInUseKept /\ SettingsKept

\* The stage in tailscale.json is what the ports, the containers and the registry show,
\* wherever a command stopped, for the instances that are Settled.
StageIsTrue == TypeOK /\ OffMeansOff /\ ServedIsRecorded /\ DoneMeansServed
=============================================================================
