--------------------------- MODULE ExposureProofs ---------------------------
(***************************************************************************)
(* What the CLI tells of the instances it exposes, for any number of       *)
(* instances, networks and ports, any commands and any failures: the stage *)
(* of tailscale.json is true, what was provisioned is routed, and what     *)
(* instances share is not taken from one by a command for another.         *)
(***************************************************************************)
EXTENDS Exposure, TLAPS

(* Where a command is, by the subcommand it belongs to. *)
Enabling == {"ready", "checks", "web", "mcp", "undo", "record", "env", "up", "url", "done"}
Disabling == {"off1", "off2", "denv", "dup", "durl", "dclear"}
Proxying == {"detect", "install", "attach", "confs", "reload"}
Leaving == {"rdetect", "rconfs", "rswag", "ustates", "uclient"}
PCs == {"idle", "client"} \cup Enabling \cup Disabling \cup Proxying \cup Leaving

(* What a command in progress carries. *)
Commands ==
    [pc : PCs, op : {"none", "enable", "disable", "proxy", "remove", "uninstall"},
     n : Optional(Names), pair : Optional(Pairs), net : Optional(Shared),
     proxy : Optional({"swag", "theirs"}), form : Optional({"name", "port"}), rest : SUBSET Names,
     blind : BOOLEAN]

(* Whom each command is about, and what it knows. *)
CliOK ==
    /\ cli \in Commands
    /\ cli.pc \in Enabling =>
           cli.op = "enable" /\ cli.n \in Local /\ cli.n \in registered /\ cli.pair \in Pairs
    /\ cli.pc \in Disabling => cli.op \in {"disable", "remove"} /\ cli.n \in Local /\ cli.pair \in Pairs
    /\ cli.pc \in {"denv", "dup", "durl", "dclear"} => cli.op = "disable"
    /\ cli.op = "disable" => cli.n \in registered
    /\ cli.pc \in Proxying => cli.op = "proxy" /\ cli.n \in Net /\ cli.n \in registered /\ cli.net \in Shared
    /\ cli.pc \in Leaving => cli.rest \cap registered = {}
    /\ cli.op = "uninstall" => registered = {}
    /\ cli.pc \in {"ustates", "uclient"} => cli.op = "uninstall"
    /\ cli.pc = "attach" => cli.proxy # None
    /\ cli.pc \in {"confs", "reload"} => cli.proxy # None /\ cli.form # None
    /\ cli.pc \in {"rconfs", "rswag"} => cli.proxy # None

(* The types, and what is known of the command in progress. *)
Typed == TypeOK /\ CliOK

(* A command that has ended is about nobody. *)
LEMMA IdleOK ==
    ASSUME cli' = Idle
    PROVE  CliOK' /\ cli'.pc = "idle" /\ cli'.op = "none" /\ cli'.n = None
  <1>1. /\ Idle.pc = "idle" /\ Idle.op = "none" /\ Idle.n = None /\ Idle \in Commands
    BY DEF Idle, Commands, PCs, Optional
  <1> QED
    BY <1>1 DEF CliOK, Enabling, Disabling, Proxying, Leaving

(* Going on, a command keeps all it carries. *)
LEMMA GoneOn ==
    ASSUME CliOK, NEW label \in PCs, Goto(label)
    PROVE  /\ cli' \in Commands /\ cli'.pc = label /\ cli'.op = cli.op /\ cli'.n = cli.n
           /\ cli'.pair = cli.pair /\ cli'.net = cli.net /\ cli'.proxy = cli.proxy
           /\ cli'.form = cli.form /\ cli'.rest = cli.rest
  BY DEF CliOK, Commands, Goto

(* A step of `tailscale enable` to the next. *)
LEMMA EnablingOn ==
    ASSUME CliOK, cli.pc \in Enabling, NEW label \in Enabling, Goto(label), registered' = registered
    PROVE  CliOK'
  <1>1. /\ cli' \in Commands /\ cli'.pc = label /\ cli'.op = cli.op /\ cli'.n = cli.n
        /\ cli'.pair = cli.pair
    BY GoneOn DEF PCs
  <1>2. label \in Enabling /\ label \notin Disabling /\ label \notin Proxying /\ label \notin Leaving
    BY DEF Enabling, Disabling, Proxying, Leaving
  <1> QED
    BY <1>1, <1>2 DEF CliOK, Disabling, Leaving, Proxying

(* A step of `tailscale disable`, or of the turning off of ports in        *)
(* `remove`.                                                               *)
LEMMA DisablingOn ==
    ASSUME CliOK, cli.pc \in Disabling, NEW label \in Disabling \cup {"client"}, Goto(label),
           label \in {"off1", "off2", "client"} \/ cli.op = "disable", registered' = registered
    PROVE  CliOK'
  <1>1. /\ cli' \in Commands /\ cli'.pc = label /\ cli'.op = cli.op /\ cli'.n = cli.n
        /\ cli'.pair = cli.pair
    BY GoneOn DEF PCs
  <1>2. label \notin Enabling /\ label \notin Proxying /\ label \notin Leaving
    BY DEF Enabling, Disabling, Proxying, Leaving
  <1> QED
    BY <1>1, <1>2 DEF CliOK, Disabling, Leaving, Proxying

(* The command stays right when others do not unregister what it is about. *)
LEMMA CliStays ==
    ASSUME CliOK, cli' = cli, registered' \subseteq Names,
           (registered \subseteq registered' /\ cli = Idle) \/ registered' = registered
    PROVE  CliOK'
  <1>1. CASE registered' = registered
    BY <1>1 DEF CliOK
  <1>2. CASE cli = Idle
    BY <1>2, IdleOK
  <1> QED
    BY <1>1, <1>2

-----------------------------------------------------------------------------
(* tailscale *)

(* update_stage() records a stage and the pair of the command for one      *)
(* instance.                                                               *)
LEMMA StageTyped ==
    ASSUME Parameters, TypeOK, NEW n \in Local, NEW stage \in Stages, cli.pair \in Pairs, Stage(n, stage)
    PROVE  /\ json' \in [Local -> [stage : Stages, pair : Optional(Pairs)]]
           /\ json'[n].stage = stage /\ json'[n].pair = cli.pair
           /\ \A m \in Local \ {n} : json'[m] = json[m]
  BY DEF Stage, TypeOK, Optional

(* Turning a port off, or being told so, keeps the types. *)
LEMMA TurnOffTyped ==
    ASSUME Parameters, TypeOK, NEW port \in ServePorts, TurnOff(port)
    PROVE  /\ serve' \in [ServePorts -> Optional(Local)] /\ loose' \subseteq ServePorts
           /\ faults' \in Nat
  BY DEF TurnOff, TypeOK, Optional, NoFault, Fault

(* `tailscale enable` keeps the types. *)
LEMMA EnableTyped ==
    ASSUME Parameters, Typed,
           \/ Ready \/ Checks \/ EnableWeb \/ EnableMcp \/ Undo \/ Record
           \/ EnableEnv \/ EnableUp \/ EnableUrl \/ EnableDone
    PROVE  Typed'
  <1>0. /\ cli.pc \in Enabling /\ cli.n \in Local /\ cli.n \in Names /\ cli.pair \in Pairs
        /\ TypeOK /\ CliOK /\ registered' = registered
    BY DEF Typed, CliOK, Ready, Checks, EnableWeb, EnableMcp, ServeStep, Undo, Record, EnableEnv, EnableUp,
           EnableUrl, EnableDone, At, Enabling, Names
  <1>1. CliOK'
    <2>1. End \/ \E label \in Enabling : Goto(label)
      BY DEF Ready, Checks, EnableWeb, EnableMcp, ServeStep, Undo, Record, EnableEnv, EnableUp,
             EnableUrl, EnableDone, Enabling
    <2> QED
      BY <1>0, <2>1, IdleOK, EnablingOn DEF End
  <1>2. /\ DOMAIN cli' = DOMAIN Idle /\ cli'.n \in Optional(Names) /\ cli'.rest \subseteq Names
    BY <1>1 DEF CliOK, Commands, Idle
  <1>3. cli.pair[1] \in ServePorts /\ cli.pair[2] \in ServePorts
    BY <1>0 DEF ServePorts
  <1>4. faults' \in Nat
    BY <1>0 DEF TypeOK, Ready, Checks, EnableWeb, EnableMcp, ServeStep, Undo, Record, EnableEnv, EnableUp,
             EnableUrl, EnableDone, TurnOff, Fault, NoFault, RecreateFails
  <1>5. json' \in [Local -> [stage : Stages, pair : Optional(Pairs)]]
    <2>1. json' = json \/ \E stage \in Stages : Stage(cli.n, stage)
      BY DEF Ready, Checks, EnableWeb, EnableMcp, ServeStep, Undo, Record, EnableEnv, EnableUp,
             EnableUrl, EnableDone, Stages, tailnet, ports
    <2> QED
      BY <1>0, <2>1, StageTyped DEF TypeOK
  <1>6. env' \in [Local -> Optional(Pairs)] /\ url' \in [Local -> Optional(ServePorts)]
    <2>1. env' = env \/ env' = [env EXCEPT ![cli.n] = cli.pair]
      BY DEF Ready, Checks, EnableWeb, EnableMcp, ServeStep, Undo, Record, EnableEnv, EnableUp,
             EnableUrl, EnableDone, tailnet, ports
    <2>2. url' = url \/ url' = [url EXCEPT ![cli.n] = cli.pair[1]]
      BY DEF Ready, Checks, EnableWeb, EnableMcp, ServeStep, Undo, Record, EnableEnv, EnableUp,
             EnableUrl, EnableDone, tailnet, ports
    <2> QED
      BY <1>0, <1>3, <2>1, <2>2 DEF TypeOK, Optional
  <1>7. serve' \in [ServePorts -> Optional(Local)] /\ off' \subseteq Local /\ loose' \subseteq ServePorts
    <2>1. ASSUME NEW port \in ServePorts, TurnOff(port)
          PROVE  serve' \in [ServePorts -> Optional(Local)] /\ loose' \subseteq ServePorts
      BY <1>0, <2>1, TurnOffTyped
    <2>2. ASSUME NEW port \in ServePorts
          PROVE  /\ Owner(port) \subseteq Local
                 /\ [serve EXCEPT ![port] = cli.n] \in [ServePorts -> Optional(Local)]
                 /\ [serve EXCEPT ![port] = None] \in [ServePorts -> Optional(Local)]
      BY <1>0 DEF Owner, TypeOK, Optional
    <2>4. CASE EnableWeb \/ EnableMcp
      <3>1. PICK port \in ServePorts, pc \in {"web", "mcp"}, next \in {"mcp", "record"} :
                  ServeStep(pc, port, next)
        BY <1>3, <2>4 DEF EnableWeb, EnableMcp
      <3>2. loose \subseteq ServePorts /\ off \subseteq Local /\ serve \in [ServePorts -> Optional(Local)]
        BY <1>0 DEF TypeOK
      <3>3. loose' \in {loose, loose \ {port}, loose \cup {port}}
        BY <3>1 DEF ServeStep, ports
      <3>4. /\ serve' \in {serve, [serve EXCEPT ![port] = cli.n]}
            /\ off' \in {off, off \cup (Owner(port) \ {cli.n})}
        BY <3>1 DEF ServeStep, Serve, ports
      <3> QED
        BY <2>2, <3>2, <3>3, <3>4
    <2>5. CASE Undo
      <3>1. loose \subseteq ServePorts /\ off \subseteq Local /\ serve \in [ServePorts -> Optional(Local)]
        BY <1>0 DEF TypeOK
      <3>2. /\ off' \in {off, off \cup Owner(cli.pair[1])}
            /\ \/ TurnOff(cli.pair[1])
               \/ loose' = loose /\ serve' \in {serve, [serve EXCEPT ![cli.pair[1]] = None]}
        BY <2>5 DEF Undo, ports
      <3> QED
        BY <1>3, <2>1, <2>2, <3>1, <3>2
    <2>6. CASE Ready \/ Checks \/ Record \/ EnableEnv \/ EnableUp \/ EnableUrl \/ EnableDone
      BY <1>0, <2>6 DEF Ready, Checks, Record, EnableEnv, EnableUp, EnableUrl, EnableDone, TypeOK, tailnet, ports
    <2> QED
      BY <2>4, <2>5, <2>6
  <1>8. up' \subseteq Names /\ box' \in [Local -> Optional(Pairs)]
    <2>1. CASE EnableUp
      BY <1>0, <2>1 DEF EnableUp, Recreated, RecreateFails, TypeOK
    <2>2. CASE ~EnableUp
      BY <1>0, <2>2 DEF Ready, Checks, EnableWeb, EnableMcp, ServeStep, Undo, Record, EnableEnv,
             EnableUrl, EnableDone, containers, TypeOK
    <2> QED
      BY <2>1, <2>2
  <1>9. client' \in {"missing", "theirs", "ours"} /\ choice' \in {None, "detected", "installed"}
    <2>1. CASE Ready
      BY <1>0, <2>1 DEF Ready, install, TypeOK
    <2>2. CASE ~Ready
      BY <1>0, <2>2 DEF Checks, EnableWeb, EnableMcp, ServeStep, Undo, Record, EnableEnv, EnableUp,
             EnableUrl, EnableDone, install, TypeOK
    <2> QED
      BY <2>1, <2>2
  <1>10. murky' \subseteq Names
    BY <1>0 DEF Ready, Checks, EnableWeb, EnableMcp, ServeStep, Undo, Record, EnableEnv, EnableUp,
           EnableUrl, EnableDone, Forgets, TypeOK
  <1>11. UNCHANGED <<theirs, swag, host, conf, live, joined, linked, begun, routed>>
    BY DEF Ready, Checks, EnableWeb, EnableMcp, ServeStep, Undo, Record, EnableEnv, EnableUp,
           EnableUrl, EnableDone, proxies
  <1>12. TypeOK'
    BY <1>0, <1>2, <1>4, <1>5, <1>6, <1>7, <1>8, <1>9, <1>10, <1>11 DEF TypeOK, Confs, Labels
  <1> QED
    BY <1>1, <1>12 DEF Typed

(* A command begins when none is in progress. *)
LEMMA BegunTyped ==
    ASSUME TypeOK, NEW command, Begin(command)
    PROVE  cli = Idle /\ cli' = command /\ begun' \in Nat
  BY DEF Begin, TypeOK

(* `tailscale enable` and `disable` begin well. *)
LEMMA TailscaleBegins ==
    ASSUME Parameters, Typed, NEW n \in Local,
           (\E pair \in Pairs : EnableBegin(n, pair)) \/ DisableBegin(n),
           \A m \in Local : json[m].stage # "none" => json[m].pair \in Pairs
    PROVE  Typed'
  <1>0. TypeOK /\ n \in Names /\ n \in registered /\ registered' = registered
    BY DEF Typed, Names, EnableBegin, DisableBegin
  <1>1. PICK pair \in Pairs : \E pc \in {"ready", "off1"} :
            Begin([Idle EXCEPT !.pc = pc, !.op = IF pc = "ready" THEN "enable" ELSE "disable", !.n = n, !.pair = pair])
    BY DEF EnableBegin, DisableBegin
  <1>2. PICK pc \in {"ready", "off1"} :
            Begin([Idle EXCEPT !.pc = pc, !.op = IF pc = "ready" THEN "enable" ELSE "disable", !.n = n, !.pair = pair])
    BY <1>1
  <1>3. /\ begun' \in Nat
        /\ cli' = [Idle EXCEPT !.pc = pc, !.op = IF pc = "ready" THEN "enable" ELSE "disable", !.n = n, !.pair = pair]
    BY <1>0, <1>2, BegunTyped
  <1>4. /\ cli' \in Commands /\ cli'.pc = pc /\ cli'.n = n /\ cli'.pair = pair
        /\ cli'.op = (IF pc = "ready" THEN "enable" ELSE "disable")
    BY <1>0, <1>3 DEF Commands, Idle, Optional, PCs, Enabling, Disabling
  <1>5. CliOK'
    BY <1>0, <1>4 DEF CliOK, Enabling, Disabling, Proxying, Leaving
  <1>6. /\ DOMAIN cli' = DOMAIN Idle /\ cli'.n \in Optional(Names) /\ cli'.rest \subseteq Names
    BY <1>4 DEF Commands, Idle
  <1>7. UNCHANGED <<registered, tailnet, containers, install, proxies, faults, murky, off, routed>>
    BY DEF EnableBegin, DisableBegin
  <1>8. TypeOK'
    BY <1>0, <1>3, <1>6, <1>7 DEF TypeOK, tailnet, ports, containers, install, proxies, Confs, Labels
  <1> QED
    BY <1>5, <1>8 DEF Typed

(* `tailscale disable`, and the offer to remove the client, keep the       *)
(* types.                                                                  *)
LEMMA DisableTyped ==
    ASSUME Parameters, Typed,
           \/ TurnOffWeb \/ TurnOffMcp \/ DisableEnv \/ DisableUp \/ DisableUrl \/ DisableClear
           \/ OfferClient
    PROVE  Typed'
  <1>0. TypeOK /\ CliOK /\ registered' = registered
    BY DEF Typed, TurnOffWeb, TurnOffMcp, OffStep, DisableEnv, DisableUp, DisableUrl, DisableClear, OfferClient
  <1>1. ~OfferClient => cli.pc \in Disabling /\ cli.n \in Local /\ cli.n \in Names /\ cli.pair \in Pairs
    BY <1>0 DEF CliOK, TurnOffWeb, TurnOffMcp, OffStep, DisableEnv, DisableUp, DisableUrl, DisableClear, At,
           Disabling, Names
  <1>2. CliOK'
    <2>1. CASE End
      BY <2>1, IdleOK DEF End
    <2>2. CASE ~End
      <3>1. PICK label \in Disabling \cup {"client"} :
                Goto(label) /\ (label \in {"off1", "off2", "client"} \/ cli.op = "disable")
        BY <1>0, <2>2 DEF TurnOffWeb, TurnOffMcp, OffStep, DisableEnv, DisableUp, DisableUrl, DisableClear,
               OfferClient, Disabling, CliOK, At
      <3>2. cli.pc \in Disabling
        BY <1>1, <2>2 DEF OfferClient
      <3> QED
        BY <1>0, <3>1, <3>2, DisablingOn
    <2> QED
      BY <2>1, <2>2
  <1>3. /\ DOMAIN cli' = DOMAIN Idle /\ cli'.n \in Optional(Names) /\ cli'.rest \subseteq Names
    BY <1>2 DEF CliOK, Commands, Idle
  <1>4. faults' \in Nat
    BY <1>0 DEF TypeOK, TurnOffWeb, TurnOffMcp, OffStep, DisableEnv, DisableUp, DisableUrl, DisableClear,
           OfferClient, TurnOff, Fault, NoFault, RecreateFails
  <1>5. serve' \in [ServePorts -> Optional(Local)] /\ off' \subseteq Local /\ loose' \subseteq ServePorts
    <2>1. ASSUME NEW port \in ServePorts, TurnOff(port)
          PROVE  serve' \in [ServePorts -> Optional(Local)] /\ loose' \subseteq ServePorts
      BY <1>0, <2>1, TurnOffTyped
    <2>2. ASSUME NEW port \in ServePorts
          PROVE  /\ Owner(port) \subseteq Local
                 /\ [serve EXCEPT ![port] = None] \in [ServePorts -> Optional(Local)]
      BY <1>0 DEF Owner, TypeOK, Optional
    <2>3. CASE TurnOffWeb \/ TurnOffMcp
      <3>1. cli.pair[1] \in ServePorts /\ cli.pair[2] \in ServePorts /\ cli.n \in Local
        BY <1>1, <2>3 DEF ServePorts, TurnOffWeb, TurnOffMcp, OffStep, OfferClient, At
      <3>2. PICK port \in ServePorts, pc \in {"off1", "off2"}, next \in {"off2", "client", "denv"} :
                  OffStep(pc, port, next)
        BY <2>3, <3>1 DEF TurnOffWeb, TurnOffMcp
      <3>3. loose \subseteq ServePorts /\ off \subseteq Local /\ serve \in [ServePorts -> Optional(Local)]
        BY <1>0 DEF TypeOK
      <3>4. /\ off' \in {off, off \cup Owner(port) \cup {cli.n}, off \cup Owner(port)}
            /\ \/ TurnOff(port)
               \/ loose' = loose /\ serve' \in {serve, [serve EXCEPT ![port] = None]}
        BY <3>2 DEF OffStep, ports
      <3> QED
        BY <2>1, <2>2, <3>1, <3>3, <3>4
    <2>4. CASE DisableEnv \/ DisableUp \/ DisableUrl \/ DisableClear \/ OfferClient
      BY <1>0, <2>4 DEF DisableEnv, DisableUp, DisableUrl, DisableClear, OfferClient, TypeOK, tailnet, ports
    <2> QED
      BY <2>3, <2>4
  <1>6. CASE TurnOffWeb \/ TurnOffMcp
    <2>1. UNCHANGED <<registered, json, env, url, containers, install, proxies, begun, murky, routed>>
      BY <1>6 DEF TurnOffWeb, TurnOffMcp, OffStep
    <2>2. TypeOK'
      BY <1>0, <1>3, <1>4, <1>5, <2>1 DEF TypeOK, containers, install, proxies, Confs, Labels
    <2> QED
      BY <1>2, <2>2 DEF Typed
  <1>7. CASE DisableEnv \/ DisableUrl \/ DisableClear
    <2>1. /\ env' \in [Local -> Optional(Pairs)] /\ url' \in [Local -> Optional(ServePorts)]
          /\ json' \in [Local -> [stage : Stages, pair : Optional(Pairs)]]
      <3>1. env' = env \/ env' = [env EXCEPT ![cli.n] = None]
        BY <1>7 DEF DisableEnv, DisableUrl, DisableClear
      <3>2. url' = url \/ url' = [url EXCEPT ![cli.n] = None]
        BY <1>7 DEF DisableEnv, DisableUrl, DisableClear
      <3>3. json' = json \/ json' = [json EXCEPT ![cli.n] = Nothing]
        BY <1>7 DEF DisableEnv, DisableUrl, DisableClear
      <3>4. Nothing \in [stage : Stages, pair : Optional(Pairs)]
        BY DEF Nothing, Stages, Optional
      <3> QED
        BY <1>0, <3>1, <3>2, <3>3, <3>4, SMTT(30) DEF TypeOK, Optional
    <2>2. UNCHANGED <<registered, containers, install, proxies, begun, murky, routed>>
      BY <1>7 DEF DisableEnv, DisableUrl, DisableClear
    <2>3. TypeOK'
      BY <1>0, <1>3, <1>4, <1>5, <2>1, <2>2 DEF TypeOK, containers, install, proxies, Confs, Labels
    <2> QED
      BY <1>2, <2>3 DEF Typed
  <1>8. CASE DisableUp
    <2>1. up' \subseteq Names /\ box' \in [Local -> Optional(Pairs)]
      <3>1. cli.n \in Names
        BY <1>1, <1>8 DEF DisableUp, OfferClient, At
      <3> QED
        BY <1>0, <1>8, <3>1 DEF DisableUp, Recreated, RecreateFails, TypeOK
    <2>2. UNCHANGED <<registered, tailnet, install, proxies, begun, murky, routed>>
      BY <1>8 DEF DisableUp
    <2>3. TypeOK'
      BY <1>0, <1>3, <1>4, <1>5, <2>1, <2>2 DEF TypeOK, tailnet, ports, install, proxies, Confs, Labels
    <2> QED
      BY <1>2, <2>3 DEF Typed
  <1>9. CASE OfferClient
    <2>1. client' \in {"missing", "theirs", "ours"}
      BY <1>0, <1>9 DEF OfferClient, TypeOK
    <2>2. UNCHANGED <<registered, tailnet, containers, choice, proxies, begun, murky, routed>>
      BY <1>9 DEF OfferClient
    <2>3. TypeOK'
      BY <1>0, <1>3, <1>4, <1>5, <2>1, <2>2 DEF TypeOK, tailnet, ports, containers, proxies, Confs, Labels
    <2> QED
      BY <1>2, <2>3 DEF Typed
  <1> QED
    BY <1>6, <1>7, <1>8, <1>9

-----------------------------------------------------------------------------
(* proxy and dns *)

(* What is known of the proxy that runs and of its network. *)
LEMMA ProxyFacts ==
    ASSUME Parameters, TypeOK
    PROVE  /\ swag.file \in Optional(Setup) /\ swag.box \in Optional(Setup)
           /\ swag = [file |-> swag.file, box |-> swag.box]
           /\ swag.box # None => swag.box \in Setup /\ swag.box.net \in Shared
           /\ Running \in {None, "swag", "theirs"}
           /\ Running = "swag" => NetworkOf(Running) \in Shared
           /\ Running = "theirs" => NetworkOf(Running) = "theirs"
           /\ Running # None => Networked(Running) \subseteq Networks
           /\ None # "swag" /\ None # "theirs"
  <1>1. swag \in [file : Optional(Setup), box : Optional(Setup)]
    BY DEF TypeOK
  <1>2. None # "swag" /\ None # "theirs"
    BY DEF Parameters
  <1>3. swag.box # None => swag.box \in Setup /\ swag.box.net \in Shared
    BY <1>1 DEF Optional, Setup
  <1>4. Running \in {None, "swag", "theirs"}
    BY DEF Running
  <1>5. Running = "swag" => swag.box # None
    BY <1>2 DEF Running
  <1>6. Running # None => NetworkOf(Running) \in Networks
    BY <1>3, <1>4, <1>5 DEF NetworkOf, Networks
  <1>7. Running # None => Networked(Running) \subseteq Networks
    BY <1>6 DEF Networked, TypeOK, Networks
  <1> QED
    BY <1>1, <1>2, <1>3, <1>4, <1>5, <1>7 DEF NetworkOf

(* Bringing SWAG up leaves it with the settings asked for, running or not. *)
LEMMA SwagUpTyped ==
    ASSUME Parameters, TypeOK, NEW setup \in Setup, NEW next \in BOOLEAN, SwagUp(setup, next)
    PROVE  /\ swag' \in [file : Optional(Setup), box : Optional(Setup)]
           /\ faults' \in Nat /\ swag'.file = setup
           /\ \/ next /\ swag'.box = setup /\ theirs = None
              \/ End /\ live' = live /\ swag'.box = swag.box /\ UNCHANGED <<routed, linked>>
              \/ End /\ live' = live /\ Lost
              \/ End /\ swag'.box = setup /\ theirs = None /\ Remade(setup.net)
  <1>1. swag.box \in Optional(Setup) /\ setup \in Optional(Setup) /\ None \in Optional(Setup)
    BY ProxyFacts DEF Optional
  <1>2. swag' \in {[file |-> setup, box |-> setup], [file |-> setup, box |-> swag.box], [file |-> setup, box |-> None]}
    BY DEF SwagUp
  <1>3. swag' \in [file : Optional(Setup), box : Optional(Setup)] /\ swag'.file = setup
    BY <1>1, <1>2
  <1>4. faults' \in Nat
    BY DEF SwagUp, NoFault, Fault, TypeOK
  <1>5. \/ next /\ swag'.box = setup /\ theirs = None
        \/ End /\ live' = live /\ swag'.box = swag.box /\ UNCHANGED <<routed, linked>>
        \/ End /\ live' = live /\ Lost
        \/ End /\ swag'.box = setup /\ theirs = None /\ Remade(setup.net)
    BY DEF SwagUp
  <1> QED
    BY <1>3, <1>4, <1>5

(* Of SWAG's new container, or of none, the types hold. *)
LEMMA RemadeTyped ==
    ASSUME TypeOK
    PROVE  /\ \A net : Remade(net) => live' \in Confs /\ linked' \subseteq Shared /\ routed' \subseteq Net
           /\ Lost => linked' \subseteq Shared /\ routed' \subseteq Net
           /\ UNCHANGED <<live, routed, linked>> =>
                  live' \in Confs /\ linked' \subseteq Shared /\ routed' \subseteq Net
  <1>1. live \in Confs /\ conf \in Confs /\ linked \subseteq Shared /\ routed \subseteq Net
    BY DEF TypeOK
  <1>2. [live EXCEPT !["swag"] = conf["swag"]] \in Confs
    BY <1>1 DEF Confs
  <1> QED
    BY <1>1, <1>2 DEF Remade, Restarted, Lost

(* `proxy` begins well, and `dns` keeps the types. *)
LEMMA ProxyTyped ==
    ASSUME Parameters, Typed, NEW n \in Net, NEW net \in Shared, ProxyBegin(n, net) \/ ConfigureDns(n, net)
    PROVE  Typed'
  <1>0. TypeOK /\ CliOK /\ n \in Names /\ n \in registered /\ registered' = registered
    BY DEF Typed, Names, ProxyBegin, ConfigureDns
  <1>1. CASE ProxyBegin(n, net)
    <2>1. /\ begun' \in Nat
          /\ cli' = [Idle EXCEPT !.pc = "detect", !.op = "proxy", !.n = n, !.net = net]
      BY <1>0, <1>1, BegunTyped DEF ProxyBegin
    <2>2. /\ cli' \in Commands /\ cli'.pc = "detect" /\ cli'.n = n /\ cli'.net = net /\ cli'.op = "proxy"
      BY <1>0, <2>1 DEF Commands, Idle, Optional, PCs, Proxying
    <2>3. CliOK'
      BY <1>0, <2>2 DEF CliOK, Enabling, Disabling, Proxying, Leaving
    <2>4. /\ DOMAIN cli' = DOMAIN Idle /\ cli'.n \in Optional(Names) /\ cli'.rest \subseteq Names
      BY <2>2 DEF Commands, Idle
    <2>5. UNCHANGED <<registered, tailnet, containers, install, proxies, faults, murky, off, routed>>
      BY <1>1 DEF ProxyBegin
    <2>6. TypeOK'
      BY <1>0, <2>1, <2>4, <2>5 DEF TypeOK, tailnet, ports, containers, install, proxies, Confs, Labels
    <2> QED
      BY <2>3, <2>6 DEF Typed
  <1>2. CASE ConfigureDns(n, net)
    <2> DEFINE setup == [net |-> net, dns |-> TRUE]
    <2>1. setup \in Setup
      BY DEF Setup
    <2> DEFINE next == UNCHANGED cli /\ Remade(net)
    <2>2. cli = Idle /\ begun' \in Nat /\ SwagUp(setup, next) /\ next \in BOOLEAN
      BY <1>0, <1>2 DEF ConfigureDns, TypeOK
    <2>n. next => cli' = cli /\ Remade(net)
      OBVIOUS
    <2> HIDE DEF setup, next
    <2>v. /\ swag' \in [file : Optional(Setup), box : Optional(Setup)] /\ faults' \in Nat
          /\ \/ next /\ swag'.box = setup /\ theirs = None
             \/ End /\ live' = live /\ swag'.box = swag.box /\ UNCHANGED <<routed, linked>>
             \/ End /\ live' = live /\ Lost
             \/ End /\ swag'.box = setup /\ theirs = None /\ Remade(setup.net)
      BY <1>0, <2>1, <2>2, SwagUpTyped
    <2>u. \/ next
          \/ End /\ live' = live /\ UNCHANGED <<routed, linked>>
          \/ End /\ live' = live /\ Lost
          \/ End /\ Remade(setup.net)
      BY <2>v
    <2>3. /\ swag' \in [file : Optional(Setup), box : Optional(Setup)] /\ live' \in Confs
          /\ linked' \subseteq Shared /\ routed' \subseteq Net
          /\ faults' \in Nat /\ (cli' = cli \/ End)
      <3>1. live \in Confs
        BY <1>0 DEF TypeOK
      <3> QED
        BY <1>0, <2>n, <2>u, <2>v, <3>1, RemadeTyped
    <2>4. CliOK'
      BY <2>2, <2>3, IdleOK DEF End
    <2>5. /\ DOMAIN cli' = DOMAIN Idle /\ cli'.n \in Optional(Names) /\ cli'.rest \subseteq Names
      BY <2>4 DEF CliOK, Commands, Idle
    <2>6. UNCHANGED <<registered, tailnet, containers, install, theirs, host, conf, joined, murky, off>>
      BY <1>2 DEF ConfigureDns
    <2>8. TypeOK'
      BY <1>0, <2>2, <2>3, <2>5, <2>6 DEF TypeOK, tailnet, ports, containers, install
    <2> QED
      BY <2>4, <2>8 DEF Typed
  <1> QED
    BY <1>1, <1>2

(* The steps of `proxy` keep the types. *)
LEMMA ProxyStepTyped ==
    ASSUME Parameters, Typed, cli.pc = "attach" => cli.proxy = Running,
           DetectProxy \/ InstallSwag \/ Attach \/ InstallConfs \/ Reload
    PROVE  Typed'
  <1>0. /\ TypeOK /\ CliOK /\ registered' = registered /\ cli \in Commands
        /\ cli.pc \in Proxying /\ cli.op = "proxy" /\ cli.n \in Net /\ cli.n \in registered
        /\ cli.net \in Shared
    BY DEF Typed, CliOK, DetectProxy, InstallSwag, Attach, InstallConfs, Reload, At, Proxying
  <1>1. ASSUME NEW pc \in Proxying, NEW p \in Optional({"swag", "theirs"}), NEW f \in Optional({"name", "port"}),
               cli' = [cli EXCEPT !.pc = pc, !.proxy = p, !.form = f],
               pc \in {"attach", "confs", "reload"} => p # None, pc \in {"confs", "reload"} => f # None
        PROVE  CliOK'
    <2>1. /\ cli' \in Commands /\ cli'.pc = pc /\ cli'.n = cli.n /\ cli'.net = cli.net /\ cli'.op = "proxy"
          /\ cli'.proxy = p /\ cli'.form = f
      BY <1>0, <1>1 DEF Commands, PCs
    <2> QED
      BY <1>0, <1>1, <2>1 DEF CliOK, Enabling, Disabling, Proxying, Leaving
  <1>2. cli.proxy \in Optional({"swag", "theirs"}) /\ cli.form \in Optional({"name", "port"})
    BY <1>0 DEF Commands
  <1>a. cli = [cli EXCEPT !.proxy = cli.proxy, !.form = cli.form]
    BY <1>0 DEF Commands
  <1>b. None \notin {"swag", "theirs", "name", "port"}
    BY DEF Parameters
  <1>3. CliOK'
    <2>1. CASE End
      BY <2>1, IdleOK DEF End
    <2>2. CASE ~End
      <3>1. CASE DetectProxy
        <4>1. CASE \E p \in {"swag", "theirs"} : cli' = [cli EXCEPT !.pc = "attach", !.proxy = p]
          <5>1. PICK p \in {"swag", "theirs"} : cli' = [cli EXCEPT !.pc = "attach", !.proxy = p]
            BY <4>1
          <5>2. cli' = [cli EXCEPT !.pc = "attach", !.proxy = p, !.form = cli.form]
            BY <1>0, <5>1 DEF Commands
          <5> QED
            BY <1>1, <1>2, <1>b, <5>2 DEF Proxying, Optional
        <4>2. CASE cli' = [cli EXCEPT !.pc = "install", !.blind = (Running # None)]
          <5>1. (Running # None) \in BOOLEAN
            OBVIOUS
          <5>2. /\ cli' \in Commands /\ cli'.pc = "install" /\ cli'.n = cli.n /\ cli'.net = cli.net
                /\ cli'.op = "proxy"
            BY <1>0, <4>2, <5>1 DEF Commands, PCs, Proxying
          <5> QED
            BY <1>0, <5>2 DEF CliOK, Enabling, Disabling, Proxying, Leaving
        <4> QED
          BY <3>1, <4>1, <4>2 DEF DetectProxy
      <3>2. CASE InstallSwag
        <4>1. cli' = [cli EXCEPT !.pc = "attach", !.proxy = "swag"]
          BY <2>2, <3>2 DEF InstallSwag, SwagUp
        <4>2. cli' = [cli EXCEPT !.pc = "attach", !.proxy = "swag", !.form = cli.form]
          BY <1>0, <4>1 DEF Commands
        <4> QED
          BY <1>1, <1>2, <1>b, <4>2 DEF Proxying, Optional
      <3>3. CASE Attach
        <4>1. PICK f \in {"name", "port"} : cli' = [cli EXCEPT !.pc = "confs", !.form = f]
          BY <2>2, <3>3 DEF Attach, Joins
        <4>2. cli' = [cli EXCEPT !.pc = "confs", !.proxy = cli.proxy, !.form = f]
          BY <1>0, <4>1 DEF Commands
        <4>3. cli.proxy # None
          BY <1>0, <3>3 DEF CliOK, Attach, At
        <4> QED
          BY <1>1, <1>2, <1>b, <4>2, <4>3 DEF Proxying, Optional
      <3>4. CASE InstallConfs
        <4>1. cli' = [cli EXCEPT !.pc = "reload", !.proxy = cli.proxy, !.form = cli.form]
          BY <1>0, <3>4 DEF Commands, Goto, InstallConfs
        <4>2. cli.proxy # None /\ cli.form # None
          BY <1>0, <3>4 DEF CliOK, InstallConfs, At
        <4> QED
          BY <1>1, <1>2, <4>1, <4>2 DEF Proxying
      <3>5. CASE Reload
        BY <2>2, <3>5 DEF Reload
      <3> QED
        BY <3>1, <3>2, <3>3, <3>4, <3>5
    <2> QED
      BY <2>1, <2>2
  <1>4. /\ DOMAIN cli' = DOMAIN Idle /\ cli'.n \in Optional(Names) /\ cli'.rest \subseteq Names
    BY <1>3 DEF CliOK, Commands, Idle
  <1>5. CASE DetectProxy
    <2>1. /\ faults' \in Nat
          /\ UNCHANGED <<registered, tailnet, containers, install, proxies, begun, murky, off, routed>>
      BY <1>0, <1>5 DEF DetectProxy, Detects, NoFault, Fault, TypeOK
    <2>2. TypeOK'
      BY <1>0, <1>4, <2>1 DEF TypeOK, tailnet, ports, containers, install, proxies, Confs, Labels
    <2> QED
      BY <1>3, <2>2 DEF Typed
  <1>6. CASE InstallSwag
    <2> DEFINE setup == [net |-> cli.net, dns |-> FALSE]
    <2>1. setup \in Setup
      BY <1>0 DEF Setup
    <2> DEFINE next == /\ cli' = [cli EXCEPT !.pc = "attach", !.proxy = "swag"]
                       /\ IF swag.box = setup THEN UNCHANGED <<live, routed, linked>>
                          ELSE Remade(cli.net)
    <2>2. \/ SwagUp(setup, next)
          \/ End /\ NoFault /\ UNCHANGED <<swag, live, routed, linked>>
      BY <1>6 DEF InstallSwag
    <2>n. next \in BOOLEAN /\ (next => UNCHANGED <<live, routed, linked>> \/ Remade(cli.net))
      OBVIOUS
    <2> HIDE DEF setup, next
    <2>3. /\ swag' \in [file : Optional(Setup), box : Optional(Setup)] /\ live' \in Confs
          /\ linked' \subseteq Shared /\ routed' \subseteq Net
          /\ faults' \in Nat
      <3>1. live \in Confs /\ swag \in [file : Optional(Setup), box : Optional(Setup)] /\ faults \in Nat
        BY <1>0 DEF TypeOK
      <3>2. CASE SwagUp(setup, next)
        <4>0. /\ swag' \in [file : Optional(Setup), box : Optional(Setup)] /\ faults' \in Nat
              /\ \/ next /\ swag'.box = setup /\ theirs = None
                 \/ End /\ live' = live /\ swag'.box = swag.box /\ UNCHANGED <<routed, linked>>
                 \/ End /\ live' = live /\ Lost
                 \/ End /\ swag'.box = setup /\ theirs = None /\ Remade(setup.net)
          BY <1>0, <2>1, <2>n, <3>2, SwagUpTyped
        <4>1. /\ swag' \in [file : Optional(Setup), box : Optional(Setup)] /\ faults' \in Nat
              /\ \/ next
                 \/ live' = live /\ UNCHANGED <<routed, linked>>
                 \/ live' = live /\ Lost
                 \/ Remade(setup.net)
          BY <4>0
        <4> QED
          <5>1. CASE next
            BY <1>0, <2>n, <4>1, <5>1, RemadeTyped
          <5>2. CASE live' = live /\ UNCHANGED <<routed, linked>>
            BY <1>0, <4>1, <5>2, RemadeTyped
          <5>3. CASE live' = live /\ Lost
            BY <1>0, <3>1, <4>1, <5>3, RemadeTyped
          <5>4. CASE Remade(setup.net)
            BY <1>0, <4>1, <5>4, RemadeTyped
          <5> QED
            BY <4>1, <5>1, <5>2, <5>3, <5>4
      <3>3. CASE End /\ NoFault /\ UNCHANGED <<swag, live, routed, linked>>
        BY <1>0, <3>1, <3>3, RemadeTyped DEF NoFault
      <3> QED
        BY <2>2, <3>2, <3>3
    <2>4. UNCHANGED <<registered, tailnet, containers, install, theirs, host, conf, joined, begun, murky, off>>
      BY <1>6 DEF InstallSwag
    <2>6. TypeOK'
      BY <1>0, <1>4, <2>3, <2>4 DEF TypeOK, tailnet, ports, containers, install
    <2> QED
      BY <1>3, <2>6 DEF Typed
  <1>7. CASE Attach
    <2>1. up' \subseteq Names /\ box' \in [Local -> Optional(Pairs)] /\ faults' \in Nat
      BY <1>0, <1>7 DEF Attach, Joins, Recreated, RecreateFails, NoFault, Fault, TypeOK, containers, Names
    <2>2. joined' \in [Net -> Optional(Networks)] /\ linked' \subseteq Shared
      <3>1. joined \in [Net -> Optional(Networks)] /\ linked \subseteq Shared
        BY <1>0 DEF TypeOK
      <3>2. Networked(cli.proxy) \subseteq Networks
        <4>1. cli.proxy = Running /\ cli.proxy # None
          BY <1>0, <1>7 DEF Attach, At, CliOK
        <4> QED
          BY <1>0, <4>1, ProxyFacts
      <3>3. /\ linked' = linked \/ linked' = linked \cup {cli.net}
            /\ joined' = joined \/ \E net \in Networked(cli.proxy) \cup {cli.net} : joined' = [joined EXCEPT ![cli.n] = net]
        BY <1>7 DEF Attach
      <3>4. cli.net \in Networks
        BY <1>0 DEF Networks
      <3>5. joined' \in [Net -> Optional(Networks)]
        <4>1. ASSUME NEW net \in Networks
              PROVE  [joined EXCEPT ![cli.n] = net] \in [Net -> Optional(Networks)]
          BY <3>1 DEF Optional
        <4> QED
          BY <3>1, <3>2, <3>3, <3>4, <4>1
      <3> QED
        BY <1>0, <3>1, <3>3, <3>5
    <2>3. UNCHANGED <<registered, tailnet, install, theirs, swag, host, conf, live, begun, murky, off>>
      BY <1>7 DEF Attach
    <2>4. routed' \subseteq Net
      BY <1>0, <1>7 DEF Attach, TypeOK
    <2>5. TypeOK'
      BY <1>0, <1>4, <2>1, <2>2, <2>3, <2>4 DEF TypeOK, tailnet, ports, install, Confs, Labels
    <2> QED
      BY <1>3, <2>5 DEF Typed
  <1>8. CASE InstallConfs
    <2> DEFINE new == [form |-> cli.form, label |-> Label[host[cli.n]]]
    <2>1. cli.form \in {"name", "port"} /\ cli.proxy \in {"swag", "theirs"}
      BY <1>0, <1>2, <1>8 DEF CliOK, InstallConfs, At, Optional
    <2>n. new \in [form : {"name", "port"}, label : Labels]
      <3>1. host[cli.n] \in Hosts
        BY <1>0 DEF TypeOK
      <3> QED
        BY <2>1, <3>1 DEF Labels
    <2>2. conf' = [conf EXCEPT ![cli.proxy] = [conf[cli.proxy] EXCEPT ![cli.n] = new]]
      BY <1>8 DEF InstallConfs
    <2> HIDE DEF new
    <2>3. conf' \in Confs
      <3>1. conf \in [{"theirs", "swag"} -> [Net -> Optional([form : {"name", "port"}, label : Labels])]]
        BY <1>0 DEF TypeOK, Confs
      <3>2. [conf[cli.proxy] EXCEPT ![cli.n] = new] \in [Net -> Optional([form : {"name", "port"}, label : Labels])]
        BY <2>1, <2>n, <3>1 DEF Optional
      <3> QED
        BY <2>1, <2>2, <3>1, <3>2 DEF Confs
    <2>4. UNCHANGED <<registered, tailnet, containers, install, theirs, swag, host, live, joined, linked,
                    begun, faults, murky, off, routed>>
      BY <1>8 DEF InstallConfs
    <2>5. TypeOK'
      BY <1>0, <1>4, <2>3, <2>4 DEF TypeOK, tailnet, ports, containers, install
    <2> QED
      BY <1>3, <2>5 DEF Typed
  <1>9. CASE Reload
    <2>1. cli.proxy \in {"swag", "theirs"}
      BY <1>0, <1>2, <1>9 DEF CliOK, Reload, At, Optional
    <2>2. live' = live \/ live' = [live EXCEPT ![cli.proxy] = conf[cli.proxy]]
      BY <1>9 DEF Reload, Restarted
    <2>3. live' \in Confs /\ routed' \subseteq Net /\ faults' \in Nat
      <3>1. live \in Confs /\ conf \in Confs
        BY <1>0 DEF TypeOK
      <3>2. [live EXCEPT ![cli.proxy] = conf[cli.proxy]] \in Confs
        BY <2>1, <3>1 DEF Confs
      <3>3. routed' \subseteq Net /\ faults' \in Nat
        BY <1>0, <1>9 DEF TypeOK, Reload, NoFault, Fault
      <3> QED
        BY <2>2, <3>1, <3>2, <3>3
    <2>4. UNCHANGED <<registered, tailnet, containers, install, theirs, swag, host, conf, joined, linked, begun,
                    murky, off>>
      BY <1>9 DEF Reload
    <2>5. TypeOK'
      BY <1>0, <1>4, <2>3, <2>4 DEF TypeOK, tailnet, ports, containers, install
    <2> QED
      BY <1>3, <2>5 DEF Typed
  <1> QED
    BY <1>5, <1>6, <1>7, <1>8, <1>9

-----------------------------------------------------------------------------
(* remove, uninstall, create, update, the operator, and interruptions *)

(* What is left of instances that are gone. *)
LEMMA GoneFacts ==
    ASSUME Parameters, TypeOK, NEW S \in SUBSET Names, NEW kept, Gone(S, kept)
    PROVE  /\ registered' = registered \ S /\ registered' \subseteq Names
           /\ up' = up \ S /\ up' \subseteq Names
           /\ box' \in [Local -> Optional(Pairs)]
           /\ json' \in [Local -> [stage : Stages, pair : Optional(Pairs)]]
           /\ \A n \in Local : /\ n \notin S => json'[n] = json[n] /\ box'[n] = box[n]
                               /\ json'[n] = json[n] \/ json'[n] = Nothing
           /\ routed' = routed \ S /\ routed' \subseteq Net
  <1>1. Nothing \in [stage : Stages, pair : Optional(Pairs)]
    BY DEF Nothing, Stages, Optional
  <1>2. box' \in [Local -> Optional(Pairs)]
    BY DEF Gone, TypeOK, Optional
  <1>3. json' \in [Local -> [stage : Stages, pair : Optional(Pairs)]]
    BY <1>1 DEF Gone, TypeOK
  <1>4. ASSUME NEW n \in Local
        PROVE  /\ n \notin S => json'[n] = json[n] /\ box'[n] = box[n]
               /\ json'[n] = json[n] \/ json'[n] = Nothing
    BY DEF Gone
  <1> QED
    BY <1>2, <1>3, <1>4 DEF Gone, TypeOK

(* `remove` keeps the types. *)
LEMMA RemoveTyped ==
    ASSUME Parameters, Typed, NEW n \in Names, Remove(n),
           \A m \in Local : json[m].stage # "none" => json[m].pair \in Pairs
    PROVE  Typed'
  <1>0. TypeOK /\ CliOK /\ n \in registered
    BY DEF Typed, Remove
  <1> DEFINE command == IF n \in Net THEN [Idle EXCEPT !.pc = "rdetect", !.op = "remove", !.n = n, !.rest = {n}]
             ELSE IF json[n].stage # "none"
             THEN [Idle EXCEPT !.pc = "off1", !.op = "remove", !.n = n, !.pair = json[n].pair]
             ELSE Idle
  <1>1. Begin(command)
    BY DEF Remove
  <1>2. begun' \in Nat /\ cli' = command
    BY <1>0, <1>1, BegunTyped
  <1>3. PICK kept \in SUBSET {n} : Gone({n}, kept)
    BY DEF Remove
  <1>4. /\ registered' = registered \ {n} /\ registered' \subseteq Names /\ up' \subseteq Names
        /\ box' \in [Local -> Optional(Pairs)]
        /\ json' \in [Local -> [stage : Stages, pair : Optional(Pairs)]] /\ routed' \subseteq Net
    BY <1>0, <1>3, GoneFacts
  <1>5. CliOK'
    <2>1. CASE n \in Net
      <3>1. /\ cli' \in Commands /\ cli'.pc = "rdetect" /\ cli'.op = "remove" /\ cli'.rest = {n}
        BY <1>2, <2>1 DEF Commands, Idle, Optional, PCs, Leaving
      <3> QED
        BY <1>4, <3>1 DEF CliOK, Enabling, Disabling, Proxying, Leaving
    <2>2. CASE n \notin Net /\ json[n].stage # "none"
      <3>1. n \in Local /\ json[n].pair \in Pairs
        BY <2>2 DEF Names
      <3>2. /\ cli' \in Commands /\ cli'.pc = "off1" /\ cli'.op = "remove" /\ cli'.n = n /\ cli'.pair = json[n].pair
        BY <1>2, <2>2, <3>1 DEF Commands, Idle, Optional, PCs, Disabling
      <3> QED
        BY <3>1, <3>2 DEF CliOK, Enabling, Disabling, Proxying, Leaving
    <2>3. CASE cli' = Idle
      BY <2>3, IdleOK
    <2> QED
      BY <1>2, <2>1, <2>2, <2>3
  <1>6. /\ DOMAIN cli' = DOMAIN Idle /\ cli'.n \in Optional(Names) /\ cli'.rest \subseteq Names
    BY <1>5 DEF CliOK, Commands, Idle
  <1>7. UNCHANGED <<env, url, ports, install, proxies, faults, murky, off>>
    BY DEF Remove
  <1>8. TypeOK'
    BY <1>0, <1>2, <1>4, <1>6, <1>7 DEF TypeOK, ports, install, proxies, Confs, Labels
  <1> QED
    BY <1>5, <1>8 DEF Typed

(* `uninstall` keeps the types. *)
LEMMA UninstallTyped ==
    ASSUME Parameters, Typed, Uninstall
    PROVE  Typed'
  <1>0. TypeOK /\ CliOK /\ registered \in SUBSET Names
    BY DEF Typed, TypeOK
  <1> DEFINE pc == IF registered \cap Net = {} THEN "ustates" ELSE "rdetect"
  <1>1. Begin([Idle EXCEPT !.pc = pc, !.op = "uninstall", !.rest = registered])
    BY DEF Uninstall
  <1>2. begun' \in Nat /\ cli' = [Idle EXCEPT !.pc = pc, !.op = "uninstall", !.rest = registered]
    BY <1>0, <1>1, BegunTyped
  <1>3. PICK kept \in {{}, registered} : Gone(registered, kept)
    BY DEF Uninstall
  <1>4. /\ registered' = registered \ registered /\ up' \subseteq Names
        /\ box' \in [Local -> Optional(Pairs)]
        /\ json' \in [Local -> [stage : Stages, pair : Optional(Pairs)]] /\ routed' \subseteq Net
    BY <1>0, <1>3, GoneFacts
  <1>5. pc \in {"ustates", "rdetect"}
    OBVIOUS
  <1> HIDE DEF pc
  <1>6. CliOK'
    <2>1. /\ cli' \in Commands /\ cli'.pc = pc /\ cli'.op = "uninstall" /\ cli'.rest = registered
      BY <1>0, <1>2, <1>5 DEF Commands, Idle, Optional, PCs, Leaving
    <2> QED
      BY <1>4, <1>5, <2>1 DEF CliOK, Enabling, Disabling, Proxying, Leaving
  <1>7. /\ DOMAIN cli' = DOMAIN Idle /\ cli'.n \in Optional(Names) /\ cli'.rest \subseteq Names
    BY <1>6 DEF CliOK, Commands, Idle
  <1>8. /\ choice' = None /\ off' \subseteq Local
        /\ UNCHANGED <<env, url, ports, client, proxies, faults, murky>>
    BY <1>0 DEF Uninstall, TypeOK
  <1>9. TypeOK'
    BY <1>0, <1>2, <1>4, <1>7, <1>8 DEF TypeOK, ports, proxies, Confs, Labels
  <1> QED
    BY <1>6, <1>9 DEF Typed

(* What `remove` and `uninstall` offer, one thing after the other. *)
LEMMA LeavingOn ==
    ASSUME CliOK, cli.pc \in Leaving, NEW label \in Leaving, NEW p \in Optional({"swag", "theirs"}),
           cli' = [cli EXCEPT !.pc = label, !.proxy = p],
           label \in {"ustates", "uclient"} => cli.op = "uninstall",
           label \in {"rconfs", "rswag"} => p # None, registered' = registered
    PROVE  CliOK'
  <1>1. /\ cli' \in Commands /\ cli'.pc = label /\ cli'.op = cli.op /\ cli'.n = cli.n
        /\ cli'.proxy = p /\ cli'.rest = cli.rest
    BY DEF CliOK, Commands, PCs
  <1>2. label \notin Enabling /\ label \notin Disabling /\ label \notin Proxying
        /\ label \notin {"attach", "confs", "reload", "denv", "dup", "durl", "dclear"}
    BY DEF Enabling, Disabling, Proxying, Leaving
  <1> QED
    BY <1>1, <1>2 DEF CliOK

(* The offers of `remove` and `uninstall` keep the types. *)
LEMMA LeavingTyped ==
    ASSUME Parameters, Typed,
           RemoveDetects \/ RemoveConfs \/ RemoveSwag \/ UninstallServe \/ UninstallClient
    PROVE  Typed'
  <1>0. /\ TypeOK /\ CliOK /\ cli \in Commands /\ cli.pc \in Leaving /\ registered' = registered
        /\ begun' = begun
    BY DEF Typed, CliOK, RemoveDetects, RemoveConfs, RemoveSwag, UninstallServe, UninstallClient, At, Leaving
  <1>a. None \notin {"swag", "theirs"}
    BY DEF Parameters
  <1>1. cli.pc \in {"rconfs", "rswag"} => cli.proxy \in {"swag", "theirs"}
    BY <1>0, <1>a DEF CliOK, Commands, Optional
  <1>2. \A label : Goto(label) => cli' = [cli EXCEPT !.pc = label, !.proxy = cli.proxy]
    BY <1>0 DEF Goto, Commands
  <1>3. CliOK'
    <2>1. CASE End
      BY <2>1, IdleOK DEF End
    <2>2. CASE ~End
      <3>1. ASSUME NEW label \in Leaving, Goto(label),
                   label \in {"ustates", "uclient"} => cli.op = "uninstall",
                   label \in {"rconfs", "rswag"} => cli.proxy # None
            PROVE  CliOK'
        <4>1. /\ cli.proxy \in Optional({"swag", "theirs"})
              /\ cli' = [cli EXCEPT !.pc = label, !.proxy = cli.proxy]
          BY <1>0, <1>2, <3>1 DEF Commands
        <4> QED
          BY <1>0, <3>1, <4>1, LeavingOn
      <3>2. CASE \E p \in {"swag", "theirs"} : cli' = [cli EXCEPT !.pc = "rconfs", !.proxy = p]
        <4>1. PICK p \in {"swag", "theirs"} : cli' = [cli EXCEPT !.pc = "rconfs", !.proxy = p]
          BY <3>2
        <4>2. p \in Optional({"swag", "theirs"}) /\ p # None /\ "rconfs" \in Leaving
          BY <1>a DEF Optional, Leaving
        <4> QED
          BY <1>0, <4>1, <4>2, LeavingOn
      <3>3. /\ Goto("ustates") /\ cli.op = "uninstall" => CliOK'
            /\ Goto("uclient") /\ cli.op = "uninstall" => CliOK'
            /\ Goto("rswag") /\ cli.proxy # None => CliOK'
        BY <3>1 DEF Leaving
      <3>4. RemoveDetects => \/ Goto("ustates") /\ cli.op = "uninstall"
                             \/ \E p \in {"swag", "theirs"} : cli' = [cli EXCEPT !.pc = "rconfs", !.proxy = p]
        BY <2>2 DEF RemoveDetects, Leave
      <3>5. RemoveConfs => Goto("rswag") /\ cli.proxy # None
        BY <1>0, <2>2 DEF RemoveConfs, CliOK, At
      <3>6. RemoveSwag => Goto("ustates") /\ cli.op = "uninstall"
        BY <2>2 DEF RemoveSwag, Leave
      <3>7. UninstallServe => Goto("uclient") /\ cli.op = "uninstall"
        BY <1>0 DEF UninstallServe, CliOK, At
      <3>8. UninstallClient => End
        BY DEF UninstallClient
      <3> QED
        BY <2>2, <3>2, <3>3, <3>4, <3>5, <3>6, <3>7, <3>8
    <2> QED
      BY <2>1, <2>2
  <1>4. /\ DOMAIN cli' = DOMAIN Idle /\ cli'.n \in Optional(Names) /\ cli'.rest \subseteq Names
    BY <1>3 DEF CliOK, Commands, Idle
  <1>5. CASE RemoveDetects
    <2>1. /\ faults' \in Nat
          /\ UNCHANGED <<registered, tailnet, containers, install, proxies, murky, off, routed>>
      BY <1>0, <1>5 DEF RemoveDetects, Detects, NoFault, Fault, TypeOK
    <2>2. TypeOK'
      BY <1>0, <1>4, <2>1 DEF TypeOK, tailnet, ports, containers, install, proxies, Confs, Labels
    <2> QED
      BY <1>3, <2>2 DEF Typed
  <1>6. CASE RemoveConfs
    <2>1. cli.proxy \in {"swag", "theirs"}
      BY <1>1, <1>6 DEF RemoveConfs, At
    <2> DEFINE left == [n \in Net |-> IF n \in cli.rest THEN None ELSE conf[cli.proxy][n]]
    <2>2. left \in [Net -> Optional([form : {"name", "port"}, label : Labels])]
      <3>1. conf[cli.proxy] \in [Net -> Optional([form : {"name", "port"}, label : Labels])]
        BY <1>0, <2>1 DEF TypeOK, Confs
      <3> QED
        BY <3>1 DEF Optional
    <2>3. conf' = conf \/ conf' = [conf EXCEPT ![cli.proxy] = left]
      BY <1>6 DEF RemoveConfs
    <2>4. live' = live \/ live' = [live EXCEPT ![cli.proxy] = conf'[cli.proxy]]
      BY <1>6 DEF RemoveConfs
    <2> HIDE DEF left
    <2>5. conf' \in Confs
      BY <1>0, <2>1, <2>2, <2>3 DEF TypeOK, Confs, Labels
    <2>6. live' \in Confs
      BY <1>0, <2>1, <2>4, <2>5 DEF TypeOK, Confs, Labels
    <2>7. faults' \in Nat
      BY <1>0, <1>6 DEF RemoveConfs, NoFault, Fault, TypeOK
    <2>8. UNCHANGED <<registered, tailnet, containers, install, theirs, swag, host, joined, linked, murky, off,
                    routed>>
      BY <1>6 DEF RemoveConfs
    <2>9. TypeOK'
      BY <1>0, <1>4, <2>5, <2>6, <2>7, <2>8 DEF TypeOK, tailnet, ports, containers, install
    <2> QED
      BY <1>3, <2>9 DEF Typed
  <1>7. CASE RemoveSwag
    <2> DEFINE none == [n \in Net |-> None]
    <2>1. none \in [Net -> Optional([form : {"name", "port"}, label : Labels])]
      BY DEF Optional
    <2>2. /\ conf' = conf \/ conf' = [conf EXCEPT !["swag"] = none]
          /\ live' = live \/ live' = [live EXCEPT !["swag"] = none]
          /\ \/ swag' = swag
             \/ swag' = [file |-> None, box |-> None]
             \/ swag' = [swag EXCEPT !.box = None]
      BY <1>7 DEF RemoveSwag
    <2> HIDE DEF none
    <2>3. conf' \in Confs /\ live' \in Confs
      BY <1>0, <2>1, <2>2 DEF TypeOK, Confs, Labels
    <2>4. swag' \in [file : Optional(Setup), box : Optional(Setup)]
      BY <1>0, <2>2 DEF TypeOK, Optional
    <2>5. faults' \in Nat
      BY <1>0, <1>7 DEF RemoveSwag, NoFault, Fault, TypeOK
    <2>6. UNCHANGED <<registered, tailnet, containers, install, theirs, host, joined, murky, off>>
      BY <1>7 DEF RemoveSwag
    <2>l. linked' \subseteq Shared /\ routed' \subseteq Net
      <3>1. Lost \/ UNCHANGED <<linked, routed>>
        BY <1>7 DEF RemoveSwag
      <3> QED
        BY <1>0, <3>1 DEF Lost, TypeOK
    <2>7. TypeOK'
      BY <1>0, <1>4, <2>3, <2>4, <2>5, <2>6, <2>l DEF TypeOK, tailnet, ports, containers, install
    <2> QED
      BY <1>3, <2>7 DEF Typed
  <1>8. CASE UninstallServe
    <2>1. PICK done : serve' = [p \in ServePorts |-> IF p \in done THEN None ELSE serve[p]]
      BY <1>8 DEF UninstallServe
    <2>2. serve' \in [ServePorts -> Optional(Local)]
      BY <1>0, <2>1 DEF TypeOK, Optional
    <2>3. UNCHANGED <<registered, json, env, url, loose, containers, install, proxies, faults, murky, off,
                    routed>>
      BY <1>8 DEF UninstallServe
    <2>4. TypeOK'
      BY <1>0, <1>4, <2>2, <2>3 DEF TypeOK, containers, install, proxies, Confs, Labels
    <2> QED
      BY <1>3, <2>4 DEF Typed
  <1>9. CASE UninstallClient
    <2>1. /\ client' \in {"missing", "theirs", "ours"}
          /\ UNCHANGED <<registered, tailnet, containers, choice, proxies, faults, murky, off, routed>>
      BY <1>0, <1>9 DEF UninstallClient, TypeOK
    <2>2. TypeOK'
      BY <1>0, <1>4, <2>1 DEF TypeOK, tailnet, ports, containers, proxies, Confs, Labels
    <2> QED
      BY <1>3, <2>2 DEF Typed
  <1> QED
    BY <1>5, <1>6, <1>7, <1>8, <1>9

(* `create` keeps the types. *)
LEMMA CreateTyped ==
    ASSUME Parameters, Typed, NEW n \in Names, Create(n)
    PROVE  Typed'
  <1>0. TypeOK /\ Begin(Idle)
    BY DEF Typed, Create
  <1>1. begun' \in Nat /\ cli' = Idle
    BY <1>0, BegunTyped
  <1>2. CliOK'
    BY <1>1, IdleOK
  <1>3. /\ DOMAIN cli' = DOMAIN Idle /\ cli'.n \in Optional(Names) /\ cli'.rest \subseteq Names
    BY <1>2 DEF CliOK, Commands, Idle
  <1>4. registered' \subseteq Names /\ up' \subseteq Names /\ box' = box /\ murky' \subseteq Names
    BY <1>0 DEF Create, TypeOK
  <1>5. /\ env' \in [Local -> Optional(Pairs)] /\ url' \in [Local -> Optional(ServePorts)]
        /\ joined' \in [Net -> Optional(Networks)] /\ host' \in [Net -> Hosts]
    <2>2. host' \in [Net -> Hosts]
      <3>1. host' = host \/ \E h \in Hosts : host' = [host EXCEPT ![n] = h]
        BY DEF Create
      <3>2. host \in [Net -> Hosts]
        BY <1>0 DEF TypeOK
      <3> QED
        BY <3>1, <3>2
    <2>1. /\ env' = env \/ env' = [env EXCEPT ![n] = None]
          /\ url' = url \/ url' = [url EXCEPT ![n] = None]
          /\ joined' = joined \/ joined' = [joined EXCEPT ![n] = None]
      BY DEF Create
    <2> QED
      BY <1>0, <2>1, <2>2 DEF TypeOK, Optional
  <1>6. UNCHANGED <<json, ports, install, theirs, swag, conf, live, linked, faults, off, routed>>
    BY DEF Create
  <1>7. TypeOK'
    BY <1>0, <1>1, <1>3, <1>4, <1>5, <1>6 DEF TypeOK, ports, install, Confs, Labels
  <1> QED
    BY <1>2, <1>7 DEF Typed

(* The types hold after a step that touches containers, client and SWAG    *)
(* alone.                                                                  *)
LEMMA TypeKept ==
    ASSUME TypeOK, DOMAIN cli' = DOMAIN Idle, cli'.n \in Optional(Names), cli'.rest \subseteq Names,
           UNCHANGED <<registered, tailnet, choice, theirs, host, conf, live, joined, off>>,
           linked' \subseteq Shared,
           up' \subseteq Names, box' \in [Local -> Optional(Pairs)],
           client' \in {"missing", "theirs", "ours"},
           swag' \in [file : Optional(Setup), box : Optional(Setup)],
           begun' \in Nat, faults' \in Nat, murky' \subseteq Names, routed' \subseteq Net
    PROVE  TypeOK'
  <1>1. /\ registered' \subseteq Names
        /\ json' \in [Local -> [stage : Stages, pair : Optional(Pairs)]]
        /\ env' \in [Local -> Optional(Pairs)]
        /\ url' \in [Local -> Optional(ServePorts)]
        /\ serve' \in [ServePorts -> Optional(Local)] /\ loose' \subseteq ServePorts
        /\ choice' \in {None, "detected", "installed"}
        /\ theirs' \in {None, "bridge", "pasta"}
    BY DEF TypeOK, tailnet, ports
  <1>2. /\ conf' \in Confs /\ live' \in Confs /\ host' \in [Net -> Hosts]
        /\ joined' \in [Net -> Optional(Networks)] /\ off' \subseteq Local
    BY DEF TypeOK, Confs, Labels
  <1>3. {begun', faults'} \subseteq Nat
    OBVIOUS
  <1> QED
    BY <1>1, <1>2, <1>3 DEF TypeOK

(* `update`, the operator and an interruption keep the types. *)
LEMMA OthersTyped ==
    ASSUME Parameters, Typed,
           (\E n \in Names : Update(n)) \/ Operator \/ Interrupt \/ UNCHANGED vars
    PROVE  Typed'
  <1>0. TypeOK /\ CliOK /\ registered' = registered
    BY DEF Typed, Update, Operator, Interrupt, vars
  <1>1. CliOK'
    BY <1>0, CliStays, IdleOK DEF Update, Operator, Interrupt, End, vars, TypeOK
  <1>2. /\ DOMAIN cli' = DOMAIN Idle /\ cli'.n \in Optional(Names) /\ cli'.rest \subseteq Names
    BY <1>1 DEF CliOK, Commands, Idle
  <1>3. ASSUME NEW n \in Names, Update(n)
        PROVE  TypeOK'
    <2>1. up' \subseteq Names /\ box' \in [Local -> Optional(Pairs)]
      BY <1>0, <1>3 DEF Update, Recreated, TypeOK
    <2>2. begun' \in Nat /\ UNCHANGED <<registered, tailnet, install, proxies, faults, murky, off, routed>>
      BY <1>0, <1>3 DEF Update, TypeOK
    <2> QED
      BY <1>0, <1>2, <2>1, <2>2 DEF TypeOK, tailnet, ports, install, proxies, Confs, Labels
  <1>4. ASSUME Operator
        PROVE  TypeOK'
    <2>1. swag' \in [file : Optional(Setup), box : Optional(Setup)]
      <3>1. swag' = swag \/ swag' = [swag EXCEPT !.box = None]
        BY <1>4 DEF Operator
      <3> QED
        BY <1>0, <3>1 DEF TypeOK, Optional
    <2>2. /\ client' \in {"missing", "theirs", "ours"} /\ routed' \subseteq Net /\ begun' \in Nat
          /\ linked' \subseteq Shared
      BY <1>0, <1>4 DEF Operator, Lost, TypeOK
    <2>3. UNCHANGED <<registered, tailnet, containers, choice, theirs, host, conf, live, joined, faults, murky, off>>
      BY <1>4 DEF Operator
    <2> QED
      BY <1>0, <1>2, <2>1, <2>2, <2>3, TypeKept DEF TypeOK, containers
  <1>5. ASSUME Interrupt
        PROVE  TypeOK'
    <2>1. /\ faults' \in Nat /\ murky' \subseteq Names
          /\ UNCHANGED <<registered, tailnet, containers, install, proxies, begun, off, routed>>
      BY <1>0, <1>5 DEF Interrupt, Fault, TypeOK
    <2> QED
      BY <1>0, <1>2, <2>1 DEF TypeOK, tailnet, ports, containers, install, proxies, Confs, Labels
  <1>6. ASSUME UNCHANGED vars
        PROVE  TypeOK'
    BY <1>0, <1>2, <1>6 DEF vars, TypeOK, tailnet, ports, containers, install, proxies, Confs, Labels
  <1> QED
    BY <1>1, <1>3, <1>4, <1>5, <1>6 DEF Typed

(* The types hold at the start. *)
LEMMA InitTyped ==
    ASSUME Parameters, Init
    PROVE  Typed
  <1>1. CliOK
    <2>1. /\ Idle.pc = "idle" /\ Idle.op = "none" /\ Idle \in Commands
      BY DEF Idle, Commands, PCs, Optional
    <2> QED
      BY <2>1 DEF Init, CliOK, Enabling, Disabling, Proxying, Leaving
  <1>2. /\ DOMAIN cli = DOMAIN Idle /\ cli.n \in Optional(Names) /\ cli.rest \subseteq Names
    BY <1>1 DEF CliOK, Commands, Idle
  <1>3. conf \in Confs /\ live \in Confs
    BY DEF Init, Confs, Labels, Optional
  <1>4. Nothing \in [stage : Stages, pair : Optional(Pairs)]
    BY DEF Nothing, Stages, Optional
  <1>6. registered \subseteq Names /\ up \subseteq Names
    BY DEF Init, Parameters, Names
  <1>7. client \in {"missing", "theirs", "ours"} /\ theirs \in {None, "bridge", "pasta"}
    BY DEF Init
  <1>5. TypeOK
    BY <1>2, <1>3, <1>4, <1>6, <1>7 DEF Init, TypeOK, Optional
  <1> QED
    BY <1>1, <1>5 DEF Typed

-----------------------------------------------------------------------------
(* What tailscale.json says and what is on.                                *)

(* A stage is recorded with the ports it is about. *)
RecordedPairs == \A n \in Local : json[n].stage # "none" => json[n].pair \in Pairs

(* The instances of which something is claimed, the one of the command included. *)
Claimed == (registered \cap Local) \ murky

(* The ports that `enable` has turned on for n and not recorded yet.       *)
Fresh(n) ==
    IF cli.n # n THEN {}
    ELSE IF cli.pc \in {"mcp", "undo"} THEN {cli.pair[1]}
    ELSE IF cli.pc = "record" THEN {cli.pair[1], cli.pair[2]} ELSE {}

(* What has no stage has no origin in its .env, container and settings. *)
LooksOff(n) == json[n].stage = "none" => env[n] = None /\ (n \in up => box[n] = None) /\ url[n] = None

(* What is served is recorded, but for the ports just turned on and those  *)
(* that a call left other than it said.                                    *)
LooksServed(n) ==
    \A p \in ServePorts \ loose : serve[p] = n /\ p \notin Fresh(n) =>
        json[n].stage # "none" /\ p \in {json[n].pair[1], json[n].pair[2]}

(* What is "done" is served on both ports, and its container knows. *)
LooksDone(n) ==
    n \notin off /\ json[n].stage = "done" =>
        /\ serve[json[n].pair[1]] = n /\ serve[json[n].pair[2]] = n
        /\ env[n] = json[n].pair /\ (n \in up => box[n] = json[n].pair) /\ url[n] = json[n].pair[1]

(* The stage of n is what its ports and its container show. *)
Looks(n) == LooksOff(n) /\ LooksServed(n) /\ LooksDone(n)

(* What the command in progress has done so far.                           *)
Enabled ==
    /\ cli.pc \in {"mcp", "record", "env", "up", "url", "done"} => serve[cli.pair[1]] = cli.n
    /\ cli.pc \in {"record", "env", "up", "url", "done"} => serve[cli.pair[2]] = cli.n
    /\ cli.pc \in {"env", "up", "url", "done"} => json[cli.n].stage # "none" /\ json[cli.n].pair = cli.pair
    /\ cli.pc \in {"up", "url", "done"} => env[cli.n] = cli.pair
    /\ cli.pc \in {"url", "done"} => box[cli.n] = cli.pair
    /\ cli.pc = "done" => url[cli.n] = cli.pair[1]

(* What `tailscale disable` has done so far. *)
Disabled ==
    cli.pc \in Disabling /\ cli.op = "disable" =>
        /\ json[cli.n].stage # "none" /\ json[cli.n].pair = cli.pair
        /\ cli.pc # "off1" => cli.n \in off /\ (cli.pair[1] \in loose \/ serve[cli.pair[1]] # cli.n)
        /\ cli.pc \notin {"off1", "off2"} => cli.pair[2] \in loose \/ serve[cli.pair[2]] # cli.n
        /\ cli.pc \in {"dup", "durl", "dclear"} => env[cli.n] = None
        /\ cli.pc \in {"durl", "dclear"} => box[cli.n] = None
        /\ cli.pc = "dclear" => url[cli.n] = None

(* The inductive invariant of the stages. *)
StageInv == RecordedPairs /\ (\A n \in Claimed : Looks(n)) /\ Enabled /\ Disabled

(* A step that takes nothing from n and gives it nothing.                  *)
Alike(n) ==
    /\ json'[n] = json[n] /\ env'[n] = env[n] /\ url'[n] = url[n]
    /\ n \in up' => (n \in up /\ box'[n] = box[n]) \/ box'[n] = env[n]
    /\ \A p \in ServePorts \ loose' : serve'[p] = n => serve[p] = n /\ p \notin loose
    /\ \/ n \in off'
       \/ n \notin off /\ \A p \in ServePorts : serve[p] = n => serve'[p] = n
    /\ Fresh(n) \subseteq Fresh(n)'

(* A step that takes no port from n unmarked, and gives it none.           *)
Untaken(n) ==
    /\ \A p \in ServePorts \ loose' : serve'[p] = n => serve[p] = n /\ p \notin loose
    /\ \/ n \in off'
       \/ n \notin off /\ \A p \in ServePorts : serve[p] = n => serve'[p] = n

(* A port that is turned off, or said to be, is taken from its owner only. *)
LEMMA OffUntaken ==
    ASSUME TypeOK, NEW port \in ServePorts, NEW m \in Local, m # None, off' = off \cup Owner(port),
           TurnOff(port) \/ (UNCHANGED loose /\ serve' = [serve EXCEPT ![port] = None])
    PROVE  Untaken(m)
  <1>1. serve \in [ServePorts -> Optional(Local)]
    BY DEF TypeOK
  <1>2. serve[port] = m => m \in off'
    BY DEF Owner
  <1>3. CASE serve' = [serve EXCEPT ![port] = None] /\ loose' \in {loose, loose \ {port}}
    <2>1. \A p \in ServePorts : serve'[p] = IF p = port THEN None ELSE serve[p]
      BY <1>1, <1>3
    <2> QED
      BY <1>2, <1>3, <2>1 DEF Untaken
  <1>4. CASE serve' = serve /\ loose' = loose \cup {port}
    BY <1>4 DEF Untaken
  <1> QED
    BY <1>3, <1>4 DEF TurnOff

(* A step that is Alike for n leaves its stage true. *)
LEMMA AlikeLooks ==
    ASSUME RecordedPairs, NEW n \in Local, Alike(n), Looks(n)
    PROVE  Looks(n)'
  <1>1. LooksOff(n)'
    BY DEF Alike, Looks, LooksOff
  <1>2. LooksServed(n)'
    BY DEF Alike, Looks, LooksServed
  <1>3. LooksDone(n)'
    <2>1. json[n].stage = "done" => json[n].pair[1] \in ServePorts /\ json[n].pair[2] \in ServePorts
      BY DEF RecordedPairs, ServePorts
    <2> QED
      BY <2>1 DEF Alike, Looks, LooksDone
  <1> QED
    BY <1>1, <1>2, <1>3 DEF Looks

(* Only `enable`, between its two ports and its record, has turned on more *)
(* than is recorded.                                                       *)
LEMMA NothingFresh ==
    ASSUME NEW n \in Local
    PROVE  /\ cli.n # n \/ cli.pc \notin {"mcp", "undo", "record"} => Fresh(n) = {}
           /\ cli'.n # n \/ cli'.pc \notin {"mcp", "undo", "record"} => Fresh(n)' = {}
  BY DEF Fresh

(* Outside `enable` and `disable` nothing is said of a command. *)
LEMMA NothingPromised ==
    ASSUME cli'.pc \notin {"mcp", "record", "env", "up", "url", "done"} \cup Disabling
           \/ (cli'.pc \in {"off1", "off2"} /\ cli'.op = "remove")
    PROVE  Enabled' /\ Disabled'
  BY DEF Enabled, Disabled, Disabling

(* A step that changes nothing of Tailscale, for any instance of which     *)
(* something is claimed afterwards.                                        *)
LEMMA QuietStage ==
    ASSUME Parameters, Typed, StageInv, UNCHANGED <<json, env, url, ports, off>>,
           registered' \subseteq registered,
           murky \subseteq murky',
           \A n \in Local \cap registered' : n \in up' => (n \in up /\ box'[n] = box[n]) \/ box'[n] = env[n],
           cli.pc \notin {"mcp", "undo", "record"} \/ cli' = cli \/ cli.n \in murky',
           Enabled' /\ Disabled'
    PROVE  StageInv'
  <1>1. RecordedPairs'
    BY DEF StageInv, RecordedPairs
  <1>3. ASSUME NEW n \in Claimed'
        PROVE  Looks(n)'
    <2>1. n \in Local /\ n \in registered' /\ n \in Claimed /\ n \notin murky'
      BY <1>3 DEF Claimed
    <2>2. Fresh(n) \subseteq Fresh(n)'
      <3>1. CASE cli' = cli
        BY <3>1 DEF Fresh
      <3>2. CASE cli' # cli
        BY <2>1, <3>2, NothingFresh
      <3> QED
        BY <3>1, <3>2
    <2>3. Alike(n)
      BY <2>1, <2>2 DEF Alike, ports
    <2> QED
      BY <2>1, <2>3, AlikeLooks DEF StageInv
  <1> QED
    BY <1>1, <1>3 DEF StageInv

(* `tailscale enable` keeps the stages true, those of the others included. *)
LEMMA EnableStage ==
    ASSUME Parameters, Typed, StageInv,
           \/ Ready \/ Checks \/ EnableWeb \/ EnableMcp \/ Undo \/ Record
           \/ EnableEnv \/ EnableUp \/ EnableUrl \/ EnableDone
    PROVE  StageInv'
  <1>0. /\ TypeOK /\ CliOK /\ cli \in Commands /\ registered' = registered
        /\ cli.pc \in Enabling /\ cli.op = "enable" /\ cli.n \in Local /\ cli.pair \in Pairs
    BY DEF Typed, CliOK, Ready, Checks, EnableWeb, EnableMcp, ServeStep, Undo, Record, EnableEnv, EnableUp,
           EnableUrl, EnableDone, At, Enabling
  <1>1. PICK c \in Local : c = cli.n
    BY <1>0
  <1>2. PICK pair \in Pairs : pair = cli.pair
    BY <1>0
  <1>3. pair[1] \in ServePorts /\ pair[2] \in ServePorts /\ pair # None
    BY <1>2 DEF ServePorts, Parameters
  <1>4. ASSUME NEW label \in Enabling, Goto(label)
        PROVE  cli'.pc = label /\ cli'.n = c /\ cli'.pair = pair /\ cli'.op = "enable"
    BY <1>0, <1>1, <1>2, <1>4, GoneOn DEF PCs
  <1>5. End => cli'.pc = "idle" /\ cli'.n = None
    BY DEF End, Idle
  <1>6. murky \subseteq murky'
    BY DEF Ready, Checks, EnableWeb, EnableMcp, ServeStep, Undo, Record, EnableEnv, EnableUp, EnableUrl,
           EnableDone, Forgets
  <1>7. ASSUME NEW stage \in Stages, Stage(cli.n, stage)
        PROVE  /\ json'[c].stage = stage /\ json'[c].pair = pair
               /\ \A m \in Local \ {c} : json'[m] = json[m]
    BY <1>0, <1>1, <1>2, <1>7, StageTyped
  <1>8. json' = json \/ \E stage \in Stages : Stage(cli.n, stage)
    BY DEF Ready, Checks, EnableWeb, EnableMcp, ServeStep, Undo, Record, EnableEnv, EnableUp,
           EnableUrl, EnableDone, Stages, tailnet, ports
  <1>9. RecordedPairs'
    BY <1>7, <1>8 DEF StageInv, RecordedPairs
  (* The other instances. *)
  <1>10. ASSUME NEW m \in Claimed', m # c
         PROVE  Looks(m)'
    <2>1. m \in Local /\ m \in Claimed /\ m # None
      BY <1>0, <1>6, <1>10 DEF Claimed, Parameters
    <2>2. cli'.n \in {c, None}
      <3>1. End \/ \E label \in Enabling : Goto(label)
        BY DEF Ready, Checks, EnableWeb, EnableMcp, ServeStep, Undo, Record, EnableEnv, EnableUp,
               EnableUrl, EnableDone, Enabling
      <3> QED
        BY <1>4, <1>5, <3>1
    <2>3. Fresh(m) \subseteq Fresh(m)'
      BY <1>1, <1>10, <2>1, <2>2, NothingFresh
    <2>4. json'[m] = json[m]
      BY <1>7, <1>8, <1>10, <2>1
    <2>5. env'[m] = env[m] /\ url'[m] = url[m]
      <3>1. env' = env \/ env' = [env EXCEPT ![cli.n] = cli.pair]
        BY DEF Ready, Checks, EnableWeb, EnableMcp, ServeStep, Undo, Record, EnableEnv, EnableUp,
               EnableUrl, EnableDone, tailnet, ports
      <3>2. url' = url \/ url' = [url EXCEPT ![cli.n] = cli.pair[1]]
        BY DEF Ready, Checks, EnableWeb, EnableMcp, ServeStep, Undo, Record, EnableEnv, EnableUp,
               EnableUrl, EnableDone, tailnet, ports
      <3> QED
        BY <1>0, <1>1, <1>10, <2>1, <3>1, <3>2 DEF TypeOK
    <2>6. m \in up' => m \in up /\ box'[m] = box[m]
      <3>1. CASE EnableUp
        BY <1>0, <1>1, <1>10, <2>1, <3>1 DEF EnableUp, Recreated, RecreateFails, TypeOK
      <3>2. CASE ~EnableUp
        BY <3>2 DEF Ready, Checks, EnableWeb, EnableMcp, ServeStep, Undo, Record, EnableEnv,
               EnableUrl, EnableDone, containers
      <3> QED
        BY <3>1, <3>2
    <2>7. Untaken(m)
      <3>1. serve \in [ServePorts -> Optional(Local)]
        BY <1>0 DEF TypeOK
      <3>2. ASSUME NEW port \in ServePorts, serve' = [serve EXCEPT ![port] = c],
                   off' = off \cup (Owner(port) \ {c}), loose' \in {loose \ {port}, loose \cup {port}}
            PROVE  Untaken(m)
        <4>1. \A p \in ServePorts : serve'[p] = IF p = port THEN c ELSE serve[p]
          BY <3>1, <3>2
        <4>2. serve[port] = m => m \in off'
          BY <1>10, <2>1, <3>2 DEF Owner
        <4> QED
          BY <1>10, <3>2, <4>1, <4>2 DEF Untaken
      <3>4. CASE EnableWeb \/ EnableMcp
        <4>1. PICK port \in {pair[1], pair[2]}, pc \in {"web", "mcp"}, next \in {"mcp", "record"} :
                  ServeStep(pc, port, next)
          BY <1>2, <3>4 DEF EnableWeb, EnableMcp
        <4>2. \/ /\ serve' = [serve EXCEPT ![port] = c] /\ off' = off \cup (Owner(port) \ {c})
                 /\ loose' \in {loose \ {port}, loose \cup {port}}
              \/ UNCHANGED <<serve, loose, off>>
          BY <1>1, <4>1 DEF ServeStep, Serve, ports
        <4>3. CASE UNCHANGED <<serve, loose, off>>
          BY <4>3 DEF Untaken
        <4> QED
          BY <1>3, <3>2, <4>2, <4>3
      <3>5. CASE Undo
        <4>1. \/ TurnOff(pair[1]) /\ off' = off \cup Owner(pair[1])
              \/ UNCHANGED <<serve, loose, off>>
              \/ /\ serve' = [serve EXCEPT ![pair[1]] = None] /\ off' = off \cup Owner(pair[1])
                 /\ UNCHANGED loose
          BY <1>2, <3>5 DEF Undo, ports
        <4>2. CASE UNCHANGED <<serve, loose, off>>
          BY <4>2 DEF Untaken
        <4> QED
          BY <1>0, <1>3, <2>1, <4>1, <4>2, OffUntaken
      <3>6. CASE Ready \/ Checks \/ Record \/ EnableEnv \/ EnableUp \/ EnableUrl \/ EnableDone
        <4>1. serve' = serve /\ loose' = loose /\ (off' = off \/ off' = off \ {cli.n})
          BY <3>6 DEF Ready, Checks, Record, EnableEnv, EnableUp, EnableUrl, EnableDone, tailnet, ports
        <4> QED
          BY <1>1, <1>10, <4>1 DEF Untaken
      <3> QED
        BY <3>4, <3>5, <3>6
    <2>8. Alike(m)
      BY <2>3, <2>4, <2>5, <2>6, <2>7 DEF Alike, Untaken
    <2> QED
      BY <2>1, <2>8, AlikeLooks DEF StageInv
  (* The instance that is enabled. *)
  <1>11. serve \in [ServePorts -> Optional(Local)] /\ serve[pair[1]] \in Optional(Local)
    BY <1>0, <1>3 DEF TypeOK
  <1>12. /\ cli.pc \in {"mcp", "record", "env", "up", "url", "done"} => serve[pair[1]] = c
         /\ cli.pc \in {"record", "env", "up", "url", "done"} => serve[pair[2]] = c
         /\ cli.pc \in {"env", "up", "url", "done"} => json[c].stage # "none" /\ json[c].pair = pair
         /\ cli.pc \in {"up", "url", "done"} => env[c] = pair
         /\ cli.pc \in {"url", "done"} => box[c] = pair
         /\ cli.pc = "done" => url[c] = pair[1]
    BY <1>1, <1>2 DEF StageInv, Enabled
  <1>13. ASSUME NEW label \in Enabling, Goto(label),
                label \in {"mcp", "record", "env", "up", "url", "done"} => serve'[pair[1]] = c,
                label \in {"record", "env", "up", "url", "done"} => serve'[pair[2]] = c,
                label \in {"env", "up", "url", "done"} => json'[c].stage # "none" /\ json'[c].pair = pair,
                label \in {"up", "url", "done"} => env'[c] = pair,
                label \in {"url", "done"} => box'[c] = pair,
                label = "done" => url'[c] = pair[1]
         PROVE  Enabled' /\ Disabled'
    <2>1. cli'.pc = label /\ cli'.n = c /\ cli'.pair = pair
      BY <1>4, <1>13
    <2>2. Enabled'
      BY <1>13, <2>1 DEF Enabled
    <2>3. cli'.pc \notin Disabling
      BY <1>13, <2>1 DEF Disabling, Enabling
    <2> QED
      BY <2>2, <2>3 DEF Disabled
  <1>14. End => Enabled' /\ Disabled'
    BY <1>5, NothingPromised DEF Disabling
  <1>15. ASSUME c \in Claimed'
         PROVE  /\ c \in Claimed /\ c \notin murky' /\ Looks(c)
                /\ LooksOff(c) /\ LooksServed(c) /\ LooksDone(c)
    BY <1>0, <1>6, <1>15 DEF Claimed, StageInv, Looks
  <1>16. cli.pc \notin {"mcp", "undo", "record"} => Fresh(c) = {}
    BY NothingFresh
  <1>17. End => Fresh(c)' = {}
    BY <1>5, NothingFresh
  <1> DEFINE Right == (c \in Claimed' => Looks(c)') /\ Enabled' /\ Disabled'
  <1>18. ASSUME Ready
        PROVE  Right
    <2>1. UNCHANGED <<json, env, url, serve, loose, up, box, off>> /\ cli.pc = "ready"
      BY <1>18 DEF Ready, tailnet, ports, containers, At
    <2>2. End \/ Goto("checks")
      BY <1>18 DEF Ready
    <2>3. Fresh(c) = {}
      BY <1>16, <2>1
    <2>4. Alike(c)
      BY <2>1, <2>3 DEF Alike
    <2> QED
      BY <1>13, <1>14, <1>15, <2>2, <2>4, AlikeLooks DEF StageInv, Enabling
  <1>19. ASSUME Checks
        PROVE  Right
    <2>1. UNCHANGED <<env, url, serve, loose, up, box, off>> /\ cli.pc = "checks"
      BY <1>19 DEF Checks, containers, ports, At
    <2>2. Fresh(c) = {}
      BY <1>16, <2>1
    <2>3. CASE (Goto("web") \/ End) /\ UNCHANGED json
      <3>1. Alike(c)
        BY <2>1, <2>2, <2>3 DEF Alike
      <3> QED
        BY <1>13, <1>14, <1>15, <2>3, <3>1, AlikeLooks DEF StageInv, Enabling
    <2>4. CASE End /\ Stage(cli.n, "none") /\ Forgets(cli.n)
      <3>1. json'[c].stage = "none"
        BY <1>7, <2>4 DEF Stages
      <3>2. c \in Claimed' => json[c].stage = "none"
        BY <1>1, <1>15, <2>4 DEF Forgets
      <3>3. c \in Claimed' => LooksOff(c)' /\ LooksServed(c)' /\ LooksDone(c)'
        BY <1>15, <2>1, <2>2, <3>1, <3>2 DEF LooksOff, LooksServed, LooksDone
      <3> QED
        BY <1>14, <2>4, <3>3 DEF Looks
    <2> QED
      BY <1>19, <2>3, <2>4 DEF Checks
  <1>20. ASSUME EnableWeb
        PROVE  Right
    <2>1. UNCHANGED <<json, env, url, up, box>> /\ cli.pc = "web"
      BY <1>20 DEF EnableWeb, ServeStep, containers, At
    <2>2. Fresh(c) = {}
      BY <1>16, <2>1
    <2>3. CASE /\ serve' = [serve EXCEPT ![pair[1]] = c] /\ off' = off \cup (Owner(pair[1]) \ {c})
               /\ loose' = loose \ {pair[1]} /\ Goto("mcp")
      <3>1. cli'.pc = "mcp" /\ cli'.n = c /\ cli'.pair = pair
        BY <1>4, <2>3 DEF Enabling
      <3>2. Fresh(c)' = {pair[1]}
        BY <3>1 DEF Fresh
      <3>3. serve'[pair[1]] = c /\ (\A p \in ServePorts : p # pair[1] => serve'[p] = serve[p])
            /\ (c \in off' <=> c \in off) /\ loose' = loose \ {pair[1]}
        BY <1>3, <1>11, <2>3
      <3>4. json[c].stage = "done" => json[c].pair[1] \in ServePorts /\ json[c].pair[2] \in ServePorts
        BY DEF StageInv, RecordedPairs, ServePorts
      <3>5. c \in Claimed' => LooksOff(c)' /\ LooksServed(c)' /\ LooksDone(c)'
        BY <1>15, <2>1, <2>2, <3>2, <3>3, <3>4 DEF LooksOff, LooksServed, LooksDone
      <3> QED
        BY <1>13, <2>3, <3>3, <3>5 DEF Looks, Enabling
    <2>4. CASE Goto("undo") /\ UNCHANGED <<serve, loose, off>>
      <3>1. Alike(c)
        BY <2>1, <2>2, <2>4 DEF Alike
      <3> QED
        BY <1>13, <1>15, <2>4, <3>1, AlikeLooks DEF StageInv, Enabling
    <2>5. CASE /\ serve' = [serve EXCEPT ![pair[1]] = c] /\ off' = off \cup (Owner(pair[1]) \ {c})
               /\ loose' = loose \cup {pair[1]} /\ Goto("undo")
      <3>1. serve'[pair[1]] = c /\ (\A p \in ServePorts : p # pair[1] => serve'[p] = serve[p])
            /\ (c \in off' <=> c \in off) /\ pair[1] \in loose'
        BY <1>3, <1>11, <2>5
      <3>2. Alike(c)
        BY <2>1, <2>2, <2>5, <3>1 DEF Alike
      <3> QED
        BY <1>13, <1>15, <2>5, <3>2, AlikeLooks DEF StageInv, Enabling
    <2> QED
      BY <1>1, <1>2, <1>20, <2>3, <2>4, <2>5 DEF EnableWeb, ServeStep, Serve, ports
  <1>21. ASSUME EnableMcp
        PROVE  Right
    <2>1. UNCHANGED <<json, env, url, up, box>> /\ cli.pc = "mcp"
      BY <1>21 DEF EnableMcp, ServeStep, containers, At
    <2>2. Fresh(c) = {pair[1]} /\ serve[pair[1]] = c
      BY <1>1, <1>2, <1>12, <2>1 DEF Fresh
    <2>3. CASE /\ serve' = [serve EXCEPT ![pair[2]] = c] /\ off' = off \cup (Owner(pair[2]) \ {c})
               /\ loose' = loose \ {pair[2]} /\ Goto("record")
      <3>1. cli'.pc = "record" /\ cli'.n = c /\ cli'.pair = pair
        BY <1>4, <2>3 DEF Enabling
      <3>2. Fresh(c)' = {pair[1], pair[2]}
        BY <3>1 DEF Fresh
      <3>3. /\ serve'[pair[2]] = c /\ serve'[pair[1]] = c
            /\ \A p \in ServePorts : p # pair[2] => serve'[p] = serve[p]
            /\ c \in off' <=> c \in off
            /\ loose' = loose \ {pair[2]}
        BY <1>3, <1>11, <2>2, <2>3
      <3>4. json[c].stage = "done" => json[c].pair[1] \in ServePorts /\ json[c].pair[2] \in ServePorts
        BY DEF StageInv, RecordedPairs, ServePorts
      <3>5. c \in Claimed' => LooksOff(c)' /\ LooksServed(c)' /\ LooksDone(c)'
        BY <1>15, <2>1, <2>2, <3>2, <3>3, <3>4 DEF LooksOff, LooksServed, LooksDone
      <3> QED
        BY <1>13, <2>3, <3>3, <3>5 DEF Looks, Enabling
    <2>4. CASE Goto("undo") /\ UNCHANGED <<serve, loose, off>>
      <3>1. cli'.pc = "undo" /\ cli'.n = c /\ cli'.pair = pair
        BY <1>4, <2>4 DEF Enabling
      <3>2. Fresh(c)' = {pair[1]}
        BY <3>1 DEF Fresh
      <3>3. Alike(c)
        BY <2>1, <2>2, <2>4, <3>2 DEF Alike
      <3> QED
        BY <1>13, <1>15, <2>4, <3>3, AlikeLooks DEF StageInv, Enabling
    <2>5. CASE /\ serve' = [serve EXCEPT ![pair[2]] = c] /\ off' = off \cup (Owner(pair[2]) \ {c})
               /\ loose' = loose \cup {pair[2]} /\ Goto("undo")
      <3>1. cli'.pc = "undo" /\ cli'.n = c /\ cli'.pair = pair
        BY <1>4, <2>5 DEF Enabling
      <3>2. Fresh(c)' = {pair[1]}
        BY <3>1 DEF Fresh
      <3>3. serve'[pair[2]] = c /\ (\A p \in ServePorts : p # pair[2] => serve'[p] = serve[p])
            /\ (c \in off' <=> c \in off) /\ pair[2] \in loose'
        BY <1>3, <1>11, <2>5
      <3>4. Alike(c)
        BY <2>1, <2>2, <2>5, <3>2, <3>3 DEF Alike
      <3> QED
        BY <1>13, <1>15, <2>5, <3>4, AlikeLooks DEF StageInv, Enabling
    <2> QED
      BY <1>1, <1>2, <1>21, <2>3, <2>4, <2>5 DEF EnableMcp, ServeStep, Serve, ports
  <1>22. ASSUME Undo
        PROVE  Right
    <2>1. UNCHANGED <<env, url, up, box>> /\ cli.pc = "undo" /\ End
      BY <1>22 DEF Undo, containers, At
    <2>2. Fresh(c) = {pair[1]} /\ Fresh(c)' = {}
      BY <1>1, <1>2, <1>17, <2>1 DEF Fresh
    <2>3. CASE TurnOff(cli.pair[1]) /\ Stage(cli.n, "none") /\ Forgets(cli.n)
      <3>1. json'[c].stage = "none"
        BY <1>7, <2>3 DEF Stages
      <3>2. c \in Claimed' => json[c].stage = "none"
        BY <1>1, <1>15, <2>3 DEF Forgets
      <3>3. \A p \in ServePorts \ loose' : serve'[p] = c => serve[p] = c /\ p # pair[1] /\ p \notin loose
        <4>1. CASE serve' = [serve EXCEPT ![pair[1]] = None] /\ loose' = loose \ {pair[1]}
          <5>1. \A p \in ServePorts : serve'[p] = IF p = pair[1] THEN None ELSE serve[p]
            BY <1>11, <4>1
          <5> QED
            BY <1>1, <4>1, <5>1 DEF Parameters
        <4>2. CASE loose' = loose \cup {pair[1]} /\ serve' = serve
          BY <4>2
        <4> QED
          BY <1>2, <2>3, <4>1, <4>2 DEF TurnOff
      <3>4. c # None
        BY DEF Parameters
      <3>5. c \in Claimed' => LooksOff(c)' /\ LooksServed(c)' /\ LooksDone(c)'
        BY <1>15, <2>1, <2>2, <3>1, <3>2, <3>3, <3>4 DEF LooksOff, LooksServed, LooksDone
      <3> QED
        BY <1>14, <2>1, <3>5 DEF Looks
    <2>4. CASE murky' = murky \cup {cli.n}
      BY <1>1, <1>14, <1>15, <2>1, <2>4
    <2> QED
      BY <1>22, <2>3, <2>4 DEF Undo
  <1>23. ASSUME Record
        PROVE  Right
    <2>1. /\ UNCHANGED <<env, url, serve, loose, up, box, off>> /\ cli.pc = "record" /\ Goto("env")
          /\ murky' = IF json[c].pair \notin {None, pair} THEN murky \cup {c} ELSE murky
      BY <1>1, <1>2, <1>23 DEF Record, containers, ports, At
    <2>2. json'[c].stage = "ports_on" /\ json'[c].pair = pair
      BY <1>7, <1>23 DEF Record, Stages
    <2>3. Fresh(c) = {pair[1], pair[2]}
      BY <1>1, <1>2, <2>1 DEF Fresh
    <2>4. c \in Claimed' => json[c].pair \in {None, pair}
      BY <1>15, <2>1
    <2>5. json[c].stage # "none" => json[c].pair # None
      BY DEF StageInv, RecordedPairs, Parameters
    <2>6. c \in Claimed' => LooksOff(c)' /\ LooksServed(c)' /\ LooksDone(c)'
      BY <1>15, <2>1, <2>2, <2>3, <2>4, <2>5 DEF LooksOff, LooksServed, LooksDone
    <2> QED
      BY <1>12, <1>13, <2>1, <2>2, <2>6 DEF Looks, Enabling
  <1>24. ASSUME EnableEnv \/ EnableUp
        PROVE  Right
    <2>1. UNCHANGED <<url, serve, loose, off>> /\ cli.pc \in {"env", "up"}
      BY <1>24 DEF EnableEnv, EnableUp, ports, At
    <2>2. PICK stage \in {"ports_on", "env_set", "recreated"} : Stage(cli.n, stage)
      BY <1>24 DEF EnableEnv, EnableUp
    <2>3. json'[c].stage = stage /\ json'[c].pair = pair
      BY <1>7, <2>2 DEF Stages
    <2>4. Fresh(c) = {}
      BY <1>16, <2>1
    <2>5. c \in Claimed' => LooksOff(c)' /\ LooksServed(c)' /\ LooksDone(c)'
      BY <1>12, <1>15, <2>1, <2>3, <2>4 DEF LooksOff, LooksServed, LooksDone
    <2>6. CASE End
      BY <1>14, <2>5, <2>6 DEF Looks
    <2>7. CASE ~End /\ EnableEnv
      <3>1. Goto("up") /\ env' = [env EXCEPT ![c] = pair]
        BY <1>1, <1>2, <2>7 DEF EnableEnv
      <3>2. env'[c] = pair
        BY <1>0, <3>1 DEF TypeOK
      <3> QED
        BY <1>12, <1>13, <2>1, <2>3, <2>5, <3>1, <3>2 DEF Looks, Enabling
    <2>8. CASE ~End /\ EnableUp
      <3>1. Goto("url") /\ Recreated(c) /\ env' = env /\ cli.pc = "up"
        BY <1>1, <2>8 DEF EnableUp, At
      <3>2. box'[c] = env[c]
        BY <1>0, <3>1 DEF Recreated, TypeOK
      <3> QED
        BY <1>12, <1>13, <2>1, <2>3, <2>5, <3>1, <3>2 DEF Looks, Enabling
    <2> QED
      BY <1>24, <2>6, <2>7, <2>8
  <1>25. ASSUME EnableUrl
        PROVE  Right
    <2>1. UNCHANGED <<json, env, serve, loose, up, box, off>> /\ cli.pc = "url" /\ Goto("done")
      BY <1>25 DEF EnableUrl, containers, ports, At
    <2>2. url'[c] = pair[1]
      BY <1>0, <1>1, <1>2, <1>25 DEF EnableUrl, TypeOK
    <2>3. Fresh(c) = {}
      BY <1>16, <2>1
    <2>4. c \in Claimed' => LooksOff(c)' /\ LooksServed(c)' /\ LooksDone(c)'
      BY <1>12, <1>15, <2>1, <2>2, <2>3 DEF LooksOff, LooksServed, LooksDone
    <2> QED
      BY <1>12, <1>13, <2>1, <2>2, <2>4 DEF Looks, Enabling
  <1>26. ASSUME EnableDone
        PROVE  Right
    <2>1. UNCHANGED <<env, url, serve, loose, up, box>> /\ cli.pc = "done" /\ End
      BY <1>26 DEF EnableDone, containers, ports, At
    <2>2. json'[c].stage = "done" /\ json'[c].pair = pair
      BY <1>7, <1>26 DEF EnableDone, Stages
    <2>3. Fresh(c) = {}
      BY <1>16, <2>1
    <2>4. c \in Claimed' => LooksOff(c)' /\ LooksServed(c)' /\ LooksDone(c)'
      BY <1>12, <1>15, <2>1, <2>2, <2>3 DEF LooksOff, LooksServed, LooksDone
    <2> QED
      BY <1>14, <2>1, <2>4 DEF Looks
  <1>27. Right
    BY <1>18, <1>19, <1>20, <1>21, <1>22, <1>23, <1>24, <1>25, <1>26
  <1> QED
    BY <1>9, <1>10, <1>27 DEF StageInv

(* `tailscale disable` and the turning off of ports after `remove`.        *)
LEMMA DisableStage ==
    ASSUME Parameters, Typed, StageInv,
           TurnOffWeb \/ TurnOffMcp \/ DisableEnv \/ DisableUp \/ DisableUrl \/ DisableClear
    PROVE  StageInv'
  <1>0. /\ TypeOK /\ CliOK /\ cli \in Commands /\ registered' = registered /\ murky' = murky
        /\ cli.pc \in Disabling /\ cli.op \in {"disable", "remove"} /\ cli.n \in Local /\ cli.pair \in Pairs
        /\ cli.pc \notin {"off1", "off2"} => cli.op = "disable"
    BY DEF Typed, CliOK, TurnOffWeb, TurnOffMcp, OffStep, DisableEnv, DisableUp, DisableUrl, DisableClear, At,
           Disabling
  <1>1. PICK c \in Local : c = cli.n
    BY <1>0
  <1>2. PICK pair \in Pairs : pair = cli.pair
    BY <1>0
  <1>3. pair[1] \in ServePorts /\ pair[2] \in ServePorts /\ c # None
    BY <1>2 DEF ServePorts, Parameters
  <1>4. ASSUME NEW label \in Disabling \cup {"client"}, Goto(label)
        PROVE  cli'.pc = label /\ cli'.n = c /\ cli'.pair = pair /\ cli'.op = cli.op
    BY <1>0, <1>1, <1>2, <1>4, GoneOn DEF PCs
  <1>5. End => cli'.pc = "idle" /\ cli'.n = None
    BY DEF End, Idle
  <1>6. ASSUME NEW m \in Claimed'
        PROVE  m \in Local /\ m \in registered /\ m \in Claimed /\ m # None /\ Looks(m) /\ Fresh(m) = {}
    <2>1. m \in Local /\ m \in registered /\ m \in Claimed
      BY <1>0, <1>6 DEF Claimed
    <2>2. Fresh(m) = {}
      BY <1>0, <2>1, NothingFresh DEF Disabling
    <2> QED
      BY <2>1, <2>2 DEF StageInv, Parameters
  <1>7. /\ serve \in [ServePorts -> Optional(Local)]
        /\ json \in [Local -> [stage : Stages, pair : Optional(Pairs)]]
        /\ env \in [Local -> Optional(Pairs)] /\ box \in [Local -> Optional(Pairs)]
        /\ url \in [Local -> Optional(ServePorts)]
    BY <1>0 DEF TypeOK
  <1>8. cli.op = "disable" =>
            /\ json[c].stage # "none" /\ json[c].pair = pair
            /\ cli.pc # "off1" => c \in off /\ (pair[1] \in loose \/ serve[pair[1]] # c)
            /\ cli.pc \notin {"off1", "off2"} => pair[2] \in loose \/ serve[pair[2]] # c
            /\ cli.pc \in {"dup", "durl", "dclear"} => env[c] = None
            /\ cli.pc \in {"durl", "dclear"} => box[c] = None
            /\ cli.pc = "dclear" => url[c] = None
    BY <1>0, <1>1, <1>2 DEF StageInv, Disabled
  <1>9. ASSUME NEW label \in Disabling, Goto(label),
               cli.op = "disable" =>
                 /\ json'[c].stage # "none" /\ json'[c].pair = pair
                 /\ label # "off1" => c \in off' /\ (pair[1] \in loose' \/ serve'[pair[1]] # c)
                 /\ label \notin {"off1", "off2"} => pair[2] \in loose' \/ serve'[pair[2]] # c
                 /\ label \in {"dup", "durl", "dclear"} => env'[c] = None
                 /\ label \in {"durl", "dclear"} => box'[c] = None
                 /\ label = "dclear" => url'[c] = None
        PROVE  Enabled' /\ Disabled'
    <2>1. cli'.pc = label /\ cli'.n = c /\ cli'.pair = pair /\ cli'.op = cli.op
      BY <1>4, <1>9
    <2>2. Disabled'
      BY <1>9, <2>1 DEF Disabled
    <2>3. cli'.pc \notin {"mcp", "record", "env", "up", "url", "done"}
      BY <1>9, <2>1 DEF Disabling
    <2> QED
      BY <2>2, <2>3 DEF Enabled
  <1>10. End \/ Goto("client") => Enabled' /\ Disabled'
    BY <1>4, <1>5, NothingPromised DEF Disabling
  <1> DEFINE Right == (\A m \in Claimed' : Looks(m)') /\ RecordedPairs' /\ Enabled' /\ Disabled'
  <1>11. ASSUME \A m \in Claimed' : Alike(m), json' = json
         PROVE  (\A m \in Claimed' : Looks(m)') /\ RecordedPairs'
    <2>1. RecordedPairs'
      BY <1>11 DEF StageInv, RecordedPairs
    <2>2. ASSUME NEW m \in Claimed'
          PROVE  Looks(m)'
      BY <1>6, <1>11, AlikeLooks DEF StageInv
    <2> QED
      BY <2>1, <2>2
  <1>12. ASSUME NEW pc, NEW port \in {pair[1], pair[2]}, NEW next \in Disabling \cup {"client"},
                OffStep(pc, port, next)
         PROVE  /\ (\A m \in Claimed' : Looks(m)') /\ RecordedPairs' /\ cli.pc = pc
                /\ UNCHANGED <<json, env, url, box>>
                /\ \/ End
                   \/ /\ Goto(next) /\ c \in off' /\ (port \in loose' \/ serve'[port] # c)
                      /\ \A p \in ServePorts \ {port} : serve'[p] = serve[p] /\ (p \in loose' <=> p \in loose)
    <2>1. UNCHANGED <<json, env, url, up, box>> /\ cli.pc = pc /\ port \in ServePorts
      BY <1>3, <1>12 DEF OffStep, containers, At
    <2>2. CASE /\ off' = off \cup Owner(port) \cup {c}
               /\ TurnOff(port) \/ (UNCHANGED loose /\ serve' = [serve EXCEPT ![port] = None])
      <3>1. ASSUME NEW m \in Claimed'
            PROVE  Alike(m)
        <4>1. m # None /\ Fresh(m) = {} /\ m \in Local
          BY <1>6
        <4>2. Untaken(m)
          <5>1. CASE serve' = [serve EXCEPT ![port] = None] /\ loose' \in {loose, loose \ {port}}
            <6>1. \A p \in ServePorts : serve'[p] = IF p = port THEN None ELSE serve[p]
              BY <1>7, <5>1
            <6>2. serve[port] = m => m \in off'
              BY <2>2, <4>1 DEF Owner
            <6> QED
              BY <2>2, <4>1, <5>1, <6>1, <6>2 DEF Untaken
          <5>2. CASE serve' = serve /\ loose' = loose \cup {port}
            BY <2>2, <5>2 DEF Untaken
          <5> QED
            BY <2>2, <5>1, <5>2 DEF TurnOff
        <4> QED
          BY <2>1, <4>1, <4>2 DEF Alike, Untaken
      <3>2. /\ port \in loose' \/ serve'[port] = None \/ End
            /\ \A p \in ServePorts \ {port} : serve'[p] = serve[p] /\ (p \in loose' <=> p \in loose)
        <4>1. \/ serve' = [serve EXCEPT ![port] = None] /\ loose' \in {loose, loose \ {port}}
              \/ serve' = serve /\ loose' = loose \cup {port}
          BY <2>2 DEF TurnOff
        <4> QED
          BY <1>7, <2>1, <4>1
      <3>3. c \in off' /\ (End \/ Goto(next))
        BY <1>12, <2>2 DEF OffStep
      <3> QED
        BY <1>1, <1>3, <1>11, <2>1, <3>1, <3>2, <3>3
    <2>3. CASE End /\ UNCHANGED <<serve, loose, off>>
      <3>1. ASSUME NEW m \in Claimed'
            PROVE  Alike(m)
        BY <1>6, <2>1, <2>3 DEF Alike
      <3> QED
        BY <1>11, <2>1, <2>3, <3>1
    <2>4. CASE /\ End /\ UNCHANGED loose /\ serve' = [serve EXCEPT ![port] = None]
               /\ off' = off \cup Owner(port) \cup {c}
      BY <2>2, <2>4
    <2> QED
      BY <1>1, <1>12, <2>2, <2>3, <2>4 DEF OffStep, ports
  <1>13. ASSUME TurnOffWeb
         PROVE  Right
    <2>1. OffStep("off1", pair[1], "off2")
      BY <1>2, <1>13 DEF TurnOffWeb
    <2> QED
      BY <1>8, <1>9, <1>10, <1>12, <2>1 DEF Disabling
  <1>14. ASSUME TurnOffMcp
         PROVE  Right
    <2> DEFINE next == IF cli.op = "disable" THEN "denv" ELSE "client"
    <2>1. OffStep("off2", pair[2], next) /\ next \in Disabling \cup {"client"}
      BY <1>2, <1>14 DEF TurnOffMcp, Disabling
    <2>2. (\A m \in Claimed' : Looks(m)') /\ RecordedPairs' /\ cli.pc = "off2"
      BY <1>12, <2>1
    <2>3. UNCHANGED <<json, env, url, box>>
      BY <1>12, <2>1
    <2>4. \/ End
          \/ /\ Goto(next) /\ c \in off' /\ (pair[2] \in loose' \/ serve'[pair[2]] # c)
             /\ \A p \in ServePorts \ {pair[2]} : serve'[p] = serve[p] /\ (p \in loose' <=> p \in loose)
      BY <1>12, <2>1
    <2>5. CASE cli.op = "disable" /\ ~End
      <3>1. Goto("denv") /\ "denv" \in Disabling
        BY <2>4, <2>5 DEF Disabling
      <3>0. pair[1] # pair[2]
        BY DEF Parameters
      <3>2. pair[1] \in loose' \/ serve'[pair[1]] # c
        BY <1>3, <1>8, <2>2, <2>4, <2>5, <3>0
      <3> QED
        BY <1>8, <1>9, <2>2, <2>3, <2>4, <2>5, <3>1, <3>2
    <2> QED
      BY <1>10, <2>2, <2>4, <2>5
  <1>15. ASSUME DisableEnv \/ DisableUp \/ DisableUrl
         PROVE  Right
    <2>1. /\ UNCHANGED <<json, serve, loose, off>> /\ cli.pc \in {"denv", "dup", "durl"} /\ cli.op = "disable"
          /\ cli.n = c
      BY <1>0, <1>1, <1>15 DEF DisableEnv, DisableUp, DisableUrl, At, tailnet, ports
    <2>2. c \in off /\ json[c].stage # "none"
      BY <1>8, <2>1
    <2>3. RecordedPairs'
      BY <2>1 DEF StageInv, RecordedPairs
    <2>4. LooksOff(c)' /\ LooksDone(c)'
      BY <2>1, <2>2 DEF LooksOff, LooksDone
    <2>5. ASSUME NEW m \in Claimed'
          PROVE  LooksServed(m)'
      BY <1>6, <2>1, <1>5 DEF Looks, LooksServed
    <2>6. ASSUME NEW m \in Claimed', m # c
          PROVE  Alike(m)
      <3>1. m \in Local /\ Fresh(m) = {}
        BY <1>6
      <3>2. env'[m] = env[m] /\ url'[m] = url[m]
        BY <1>7, <1>15, <2>1, <2>6, <3>1 DEF DisableEnv, DisableUp, DisableUrl, tailnet, ports
      <3>3. m \in up' => m \in up /\ box'[m] = box[m]
        BY <1>7, <1>15, <2>1, <2>6, <3>1 DEF DisableEnv, DisableUp, DisableUrl, containers, Recreated, RecreateFails
      <3> QED
        BY <2>1, <3>1, <3>2, <3>3 DEF Alike
    <2>7. ASSUME NEW m \in Claimed'
          PROVE  Looks(m)'
      <3>1. CASE m = c
        BY <2>4, <2>5, <2>7, <3>1 DEF Looks
      <3>2. CASE m # c
        BY <1>6, <2>6, <2>7, <3>2, AlikeLooks DEF StageInv
      <3> QED
        BY <3>1, <3>2
    <2>8. Enabled' /\ Disabled'
      <3>1. CASE DisableEnv
        <4>1. Goto("dup") /\ env'[c] = None
          BY <1>7, <2>1, <3>1 DEF DisableEnv
        <4> QED
          BY <1>8, <1>9, <2>1, <4>1 DEF Disabling
      <3>2. CASE DisableUp /\ ~End
        <4>1. Goto("durl") /\ box'[c] = env[c] /\ UNCHANGED env /\ cli.pc = "dup"
          BY <1>7, <2>1, <3>2 DEF DisableUp, Recreated, tailnet, ports, At
        <4> QED
          BY <1>8, <1>9, <2>1, <4>1 DEF Disabling
      <3>3. CASE DisableUrl
        <4>1. Goto("dclear") /\ url'[c] = None /\ UNCHANGED <<env, box>> /\ cli.pc = "durl"
          BY <1>7, <2>1, <3>3 DEF DisableUrl, containers, At
        <4> QED
          BY <1>8, <1>9, <2>1, <4>1 DEF Disabling
      <3> QED
        BY <1>10, <1>15, <3>1, <3>2, <3>3
    <2> QED
      BY <2>3, <2>7, <2>8
  <1>16. ASSUME DisableClear
         PROVE  Right
    <2>1. /\ UNCHANGED <<env, url, serve, loose, up, box>> /\ cli.pc = "dclear" /\ cli.op = "disable"
          /\ off' = off \ {c} /\ Goto("client") /\ json' = [json EXCEPT ![c] = Nothing]
      BY <1>0, <1>1, <1>16 DEF DisableClear, At, containers, ports
    <2>2. /\ json[c].pair = pair /\ (pair[1] \in loose \/ serve[pair[1]] # c)
          /\ pair[2] \in loose \/ serve[pair[2]] # c
          /\ env[c] = None /\ box[c] = None /\ url[c] = None
      BY <1>8, <2>1
    <2>3. json'[c].stage = "none" /\ \A m \in Local \ {c} : json'[m] = json[m]
      BY <1>7, <2>1 DEF Nothing
    <2>4. RecordedPairs'
      BY <2>3 DEF StageInv, RecordedPairs
    <2>5. ASSUME c \in Claimed'
          PROVE  Looks(c)'
      <3>1. Looks(c) /\ Fresh(c) = {}
        BY <1>6, <2>5
      <3>2. \A p \in ServePorts \ loose : serve[p] # c
        BY <2>2, <3>1 DEF Looks, LooksServed
      <3> QED
        BY <2>1, <2>2, <2>3, <3>2 DEF Looks, LooksOff, LooksServed, LooksDone
    <2>6. ASSUME NEW m \in Claimed', m # c
          PROVE  Looks(m)'
      <3>1. m \in Local /\ Fresh(m) = {}
        BY <1>6
      <3>2. Alike(m)
        BY <2>1, <2>3, <2>6, <3>1 DEF Alike
      <3> QED
        BY <1>6, <2>6, <3>2, AlikeLooks DEF StageInv
    <2> QED
      BY <1>10, <2>1, <2>4, <2>5, <2>6
  <1> QED
    BY <1>13, <1>14, <1>15, <1>16 DEF StageInv

(* `enable` and `disable` begin with nothing turned on or off. *)
LEMMA TailscaleBeginsStage ==
    ASSUME Parameters, Typed, StageInv, NEW n \in Local,
           (\E pair \in Pairs : EnableBegin(n, pair)) \/ DisableBegin(n)
    PROVE  StageInv'
  <1>1. cli = Idle /\ UNCHANGED <<json, env, url, ports, up, box, off, registered, murky>>
    BY DEF EnableBegin, DisableBegin, Begin, tailnet, ports, containers
  <1>2. Enabled' /\ Disabled'
    <2>1. CASE \E pair \in Pairs : EnableBegin(n, pair)
      <3>1. cli'.pc = "ready"
        BY <2>1 DEF EnableBegin, Begin, Idle
      <3> QED
        BY <3>1, NothingPromised DEF Disabling
    <2>2. CASE DisableBegin(n)
      <3>1. cli'.pc = "off1" /\ cli'.n = n /\ cli'.pair = json[n].pair /\ json[n].stage # "none"
        BY <2>2 DEF DisableBegin, Begin, Idle
      <3> QED
        BY <1>1, <3>1 DEF Enabled, Disabled
    <2> QED
      BY <2>1, <2>2
  <1>3. cli.pc = "idle"
    BY <1>1 DEF Idle
  <1>4. registered' \subseteq registered /\ murky \subseteq murky'
    BY <1>1
  <1>5. \A m \in Local \cap registered' : m \in up' => (m \in up /\ box'[m] = box[m]) \/ box'[m] = env[m]
    BY <1>1
  <1> QED
    BY <1>1, <1>2, <1>3, <1>4, <1>5, QuietStage

(* `proxy` and the offers about proxy and client leave Tailscale alone. *)
LEMMA ProxyStage ==
    ASSUME Parameters, Typed, StageInv,
           \/ OfferClient \/ DetectProxy \/ InstallSwag \/ Attach \/ InstallConfs \/ Reload
           \/ RemoveDetects \/ RemoveConfs \/ RemoveSwag \/ UninstallClient
    PROVE  StageInv'
  <1>1. /\ UNCHANGED <<json, env, url, ports, off, registered, murky>>
        /\ cli.pc \in {"client", "detect", "install", "attach", "confs", "reload"} \cup Leaving
    BY DEF OfferClient, DetectProxy, InstallSwag, Attach, InstallConfs, Reload, RemoveDetects, RemoveConfs,
           RemoveSwag, UninstallClient, tailnet, ports, At, Leaving
  <1>2. cli'.pc \in {"attach", "install", "confs", "reload", "idle"} \cup Leaving
    <2>1. \A label : /\ Goto(label) => cli'.pc = label
                     /\ \A p : cli' = [cli EXCEPT !.pc = label, !.proxy = p] => cli'.pc = label
                     /\ \A f : cli' = [cli EXCEPT !.pc = label, !.form = f] => cli'.pc = label
                     /\ \A f : cli' = [cli EXCEPT !.pc = label, !.blind = f] => cli'.pc = label
      BY DEF Goto, Typed, CliOK, Commands
    <2>2. End => cli'.pc = "idle"
      BY DEF End, Idle
    <2>3. CASE DetectProxy \/ InstallSwag \/ InstallConfs \/ Reload \/ OfferClient
      BY <2>1, <2>2, <2>3 DEF DetectProxy, InstallSwag, SwagUp, InstallConfs, Reload, OfferClient
    <2>4. CASE Attach
      BY <2>1, <2>2, <2>4 DEF Attach, Joins
    <2>5. CASE RemoveDetects \/ RemoveConfs \/ RemoveSwag \/ UninstallClient
      BY <2>1, <2>2, <2>5 DEF RemoveDetects, RemoveConfs, RemoveSwag, UninstallClient, Leave, Leaving
    <2> QED
      BY <2>3, <2>4, <2>5
  <1>3. Enabled' /\ Disabled'
    BY <1>2, NothingPromised DEF Disabling, Leaving
  <1>4. cli.pc \notin {"mcp", "undo", "record"}
    BY <1>1 DEF Leaving
  <1>5. registered' \subseteq registered /\ murky \subseteq murky'
    BY <1>1
  <1>6. \A m \in Local \cap registered' : m \in up' => (m \in up /\ box'[m] = box[m]) \/ box'[m] = env[m]
    <2>1. CASE Attach
      <3>1. cli.n \notin Local
        BY <2>1 DEF Parameters, Typed, CliOK, Attach, At, Proxying
      <3> QED
        BY <2>1, <3>1 DEF Attach, Joins, Recreated, RecreateFails, containers
    <2>2. CASE ~Attach
      BY <2>2 DEF OfferClient, DetectProxy, InstallSwag, InstallConfs, Reload, RemoveDetects, RemoveConfs,
             RemoveSwag, UninstallClient, containers
    <2> QED
      BY <2>1, <2>2
  <1> QED
    BY <1>1, <1>3, <1>4, <1>5, <1>6, QuietStage

(* A command that has ended promises nothing. *)
LEMMA IdleStage ==
    ASSUME cli' = Idle
    PROVE  Enabled' /\ Disabled'
  <1>1. cli'.pc = "idle"
    BY DEF Idle
  <1> QED
    BY <1>1, NothingPromised DEF Disabling

(* `proxy`, `dns`, `update` and the operator keep the stages true. *)
LEMMA OutsideStage ==
    ASSUME Parameters, Typed, StageInv,
           \/ \E n \in Net, net \in Shared : ProxyBegin(n, net) \/ ConfigureDns(n, net)
           \/ \E n \in Names : Update(n)
           \/ Operator
    PROVE  StageInv'
  <1>1. /\ UNCHANGED <<json, env, url, ports, off, registered, murky>> /\ cli = Idle
    BY DEF ProxyBegin, ConfigureDns, Update, Operator, tailnet, ports, Begin
  <1>2. cli.pc = "idle"
    BY <1>1 DEF Idle
  <1>3. Enabled' /\ Disabled'
    <2>1. CASE \E n \in Net, net \in Shared : ProxyBegin(n, net)
      <3>1. cli'.pc = "detect"
        BY <2>1 DEF ProxyBegin, Begin, Idle
      <3> QED
        BY <3>1, NothingPromised DEF Disabling
    <2>2. CASE cli' = Idle
      BY <2>2, IdleStage
    <2>3. (\E n \in Net, net \in Shared : ConfigureDns(n, net)) \/ (\E n \in Names : Update(n)) \/ Operator
              => cli' = Idle
      BY <1>1 DEF ConfigureDns, SwagUp, End, Update, Operator
    <2> QED
      BY <2>1, <2>2, <2>3
  <1>4. registered' \subseteq registered /\ murky \subseteq murky'
    BY <1>1
  <1>5. \A m \in Local \cap registered' : m \in up' => (m \in up /\ box'[m] = box[m]) \/ box'[m] = env[m]
    <2>1. CASE \E n \in Names : Update(n)
      <3>1. PICK n \in Names : Update(n)
        BY <2>1
      <3>2. box \in [Local -> Optional(Pairs)]
        BY DEF Typed, TypeOK
      <3> QED
        BY <3>1, <3>2 DEF Update, Recreated
    <2>2. CASE ~\E n \in Names : Update(n)
      BY <2>2 DEF ProxyBegin, ConfigureDns, Operator, containers
    <2> QED
      BY <2>1, <2>2
  <1> QED
    BY <1>1, <1>2, <1>3, <1>4, <1>5, QuietStage

(* After an interruption nothing is claimed of the instance of the         *)
(* command.                                                                *)
LEMMA InterruptStage ==
    ASSUME Parameters, Typed, StageInv, Interrupt
    PROVE  StageInv'
  <1>1. /\ UNCHANGED <<json, env, url, ports, off, registered, up, box>> /\ cli' = Idle
        /\ murky' = murky \cup ({cli.n} \cap Names)
    BY DEF Interrupt, tailnet, ports, containers, End
  <1>2. cli.pc \notin {"mcp", "undo", "record"} \/ cli.n \in murky'
    BY <1>1 DEF Typed, CliOK, Enabling, Names
  <1>3. registered' \subseteq registered /\ murky \subseteq murky'
    BY <1>1
  <1>4. \A m \in Local \cap registered' : m \in up' => (m \in up /\ box'[m] = box[m]) \/ box'[m] = env[m]
    BY <1>1
  <1> QED
    BY <1>1, <1>2, <1>3, <1>4, IdleStage, QuietStage

(* A stuttering step keeps the stages true. *)
LEMMA StutterStage ==
    ASSUME StageInv, UNCHANGED vars
    PROVE  StageInv'
  BY DEF StageInv, RecordedPairs, Claimed, Looks, LooksOff, LooksServed, LooksDone, Fresh, Enabled, Disabled,
         vars, tailnet, ports, containers

(* `remove`: the others keep what they have.                               *)
LEMMA RemoveStage ==
    ASSUME Parameters, Typed, StageInv, NEW n \in Names, Remove(n)
    PROVE  StageInv'
  <1>1. TypeOK /\ cli = Idle /\ UNCHANGED <<env, url, serve, loose, off, murky>>
    BY DEF Typed, Remove, Begin, ports
  <1>2. PICK kept \in SUBSET {n} : Gone({n}, kept)
    BY DEF Remove
  <1>3. /\ registered' = registered \ {n} /\ up' = up \ {n}
        /\ \A m \in Local : /\ m # n => json'[m] = json[m] /\ box'[m] = box[m]
                            /\ json'[m] = json[m] \/ json'[m] = Nothing
    BY <1>1, <1>2, GoneFacts DEF Gone
  <1>4. RecordedPairs'
    BY <1>3 DEF StageInv, RecordedPairs, Nothing
  <1>5. Enabled' /\ Disabled'
    <2>1. cli'.pc \in {"rdetect", "idle"} \/ (cli'.pc = "off1" /\ cli'.op = "remove")
      BY DEF Remove, Begin, Idle
    <2> QED
      BY <2>1, NothingPromised DEF Disabling
  <1>6. ASSUME NEW m \in Claimed'
        PROVE  Looks(m)'
    <2>1. m \in Local /\ m \in Claimed /\ m # n
      BY <1>1, <1>3, <1>6 DEF Claimed
    <2>2. Fresh(m) = {}
      BY <1>1, <2>1, NothingFresh DEF Idle
    <2>3. Alike(m)
      BY <1>1, <1>3, <2>1, <2>2 DEF Alike
    <2> QED
      BY <2>1, <2>3, AlikeLooks DEF StageInv
  <1> QED
    BY <1>4, <1>5, <1>6 DEF StageInv

(* `uninstall` leaves no instance of which anything could be claimed.      *)
LEMMA UninstallStage ==
    ASSUME Parameters, Typed, StageInv, Uninstall \/ UninstallServe
    PROVE  StageInv'
  <1>1. TypeOK /\ CliOK /\ registered \subseteq Names
    BY DEF Typed, TypeOK
  <1>2. CASE Uninstall
    <2>1. PICK kept \in {{}, registered} : Gone(registered, kept)
      BY <1>2 DEF Uninstall
    <2>2. registered' = {} /\ \A m \in Local : json'[m] = json[m] \/ json'[m] = Nothing
      BY <1>1, <2>1, GoneFacts
    <2>3. cli'.pc \in {"ustates", "rdetect"}
      BY <1>2 DEF Uninstall, Begin, Idle
    <2>4. RecordedPairs'
      BY <2>2 DEF StageInv, RecordedPairs, Nothing
    <2> QED
      BY <2>2, <2>3, <2>4, NothingPromised DEF StageInv, Claimed, Disabling
  <1>3. CASE UninstallServe
    <2>1. registered' = {} /\ json' = json /\ cli'.pc = "uclient"
      BY <1>1, <1>3 DEF UninstallServe, CliOK, At, Goto, Commands
    <2>2. RecordedPairs'
      BY <2>1 DEF StageInv, RecordedPairs
    <2> QED
      BY <2>1, <2>2, NothingPromised DEF StageInv, Claimed, Disabling
  <1> QED
    BY <1>2, <1>3

(* `create` starts from a clean .env, or from a directory of which nothing *)
(* is claimed.                                                             *)
LEMMA CreateStage ==
    ASSUME Parameters, Typed, StageInv, NEW n \in Names, Create(n)
    PROVE  StageInv'
  <1>1. /\ TypeOK /\ cli = Idle /\ cli' = Idle /\ UNCHANGED <<json, serve, loose, off, box>>
        /\ registered' = registered \cup {n} /\ up' = up \cup {n}
        /\ murky' = IF n \in Local THEN murky \cup {n} ELSE murky
    BY DEF Typed, Create, Begin, ports
  <1>2. RecordedPairs'
    BY <1>1 DEF StageInv, RecordedPairs
  <1>3. ASSUME NEW m \in Claimed'
        PROVE  Looks(m)'
    <2>1. m \in Local /\ m \in Claimed /\ m # n
      BY <1>1, <1>3 DEF Claimed
    <2>2. Fresh(m) = {}
      BY <1>1, <2>1, NothingFresh DEF Idle
    <2>3. env'[m] = env[m] /\ url'[m] = url[m]
      BY <1>1, <2>1 DEF Create, TypeOK
    <2>4. Alike(m)
      BY <1>1, <2>1, <2>2, <2>3 DEF Alike
    <2> QED
      BY <2>1, <2>4, AlikeLooks DEF StageInv
  <1> QED
    BY <1>1, <1>2, <1>3, IdleStage DEF StageInv

(* At the start nothing is recorded and nothing is on. *)
LEMMA InitStage ==
    ASSUME Parameters, Init
    PROVE  StageInv
  <1>1. cli.pc = "idle" /\ cli.pc \notin Disabling
    BY DEF Init, Idle, Disabling
  <1>2. Enabled /\ Disabled
    BY <1>1 DEF Enabled, Disabled
  <1>3. \A n \in Local : json[n].stage = "none" /\ env[n] = None /\ box[n] = None /\ url[n] = None
    BY DEF Init, Nothing
  <1>4. \A n \in Local, p \in ServePorts : serve[p] # n
    BY DEF Init, Parameters
  <1> QED
    BY <1>2, <1>3, <1>4 DEF StageInv, RecordedPairs, Claimed, Looks, LooksOff, LooksServed, LooksDone

(* What StageInv says of the instances that are settled.                   *)
LEMMA StageSettled ==
    ASSUME Parameters, Typed, StageInv
    PROVE  StageIsTrue
  <1>1. ASSUME NEW n \in Settled
        PROVE  n \in Local /\ n \in Claimed /\ n # cli.n /\ Looks(n) /\ Fresh(n) = {}
    <2>1. n \in Local /\ n \in Claimed /\ n # cli.n
      BY <1>1 DEF Settled, Claimed
    <2> QED
      BY <2>1, NothingFresh DEF StageInv
  <1>2. OffMeansOff
    BY <1>1 DEF OffMeansOff, Looks, LooksOff
  <1>3. ServedIsRecorded
    BY <1>1 DEF ServedIsRecorded, Looks, LooksServed
  <1>4. DoneMeansServed
    BY <1>1 DEF DoneMeansServed, Looks, LooksDone
  <1> QED
    BY <1>2, <1>3, <1>4 DEF StageIsTrue, Typed

(* The client is removed only when no registered instance whose state can  *)
(* be read is at a stage that `disable` accepts, and then none is served,  *)
(* but on a port that was left on unknown to the CLI.                      *)
LEMMA ClientStep ==
    ASSUME Parameters, Typed, StageInv, Next
    PROVE  ClientGoesUnused
  <1> SUFFICES ASSUME client # "missing", client' = "missing"
               PROVE  \E unread \in IF UNCHANGED faults THEN {{}} ELSE {{m} : m \in Local} :
                          \A p \in ServePorts \ loose : serve[p] \notin Settled \ unread
    BY DEF ClientGoesUnused
  <1>1. ServedIsRecorded /\ faults \in Nat
    BY StageSettled DEF StageIsTrue, Typed, TypeOK
  <1>5. ASSUME NEW unread, Unused(unread)
        PROVE  \A p \in ServePorts \ loose : serve[p] \notin Settled \ unread
    BY <1>1, <1>5 DEF ServedIsRecorded, Unused, Settled
  <1>2. CASE OfferClient
    <2>1. CASE Unused({}) /\ NoFault
      BY <1>5, <2>1 DEF NoFault
    <2>2. CASE Fault /\ \E m \in registered \cap Local : Unused({m})
      <3>1. PICK m \in Local : Unused({m})
        BY <2>2
      <3>2. faults' # faults
        BY <1>1, <2>2 DEF Fault
      <3> QED
        BY <1>5, <3>1, <3>2
    <2> QED
      BY <1>2, <2>1, <2>2 DEF OfferClient
  <1>3. CASE UninstallClient
    <2>1. UNCHANGED faults /\ Settled = {}
      BY <1>3 DEF UninstallClient, Typed, CliOK, At, Settled
    <2> QED
      BY <2>1
  <1>4. OfferClient \/ UninstallClient
    <2>1. CASE Tailscale
      BY <2>1 DEF Tailscale, EnableBegin, DisableBegin, Ready, Checks, EnableWeb, EnableMcp, ServeStep, Undo,
             Record, EnableEnv, EnableUp, EnableUrl, EnableDone, TurnOffWeb, TurnOffMcp, OffStep, DisableEnv,
             DisableUp, DisableUrl, DisableClear, install
    <2>2. CASE Proxy
      BY <2>2 DEF Proxy, ProxyBegin, ConfigureDns, DetectProxy, InstallSwag, Attach, InstallConfs, Reload,
             RemoveDetects, RemoveConfs, RemoveSwag, install
    <2>3. CASE ~Tailscale /\ ~Proxy
      BY <2>3 DEF Next, Remove, Create, Update, Uninstall, UninstallServe, Operator, Interrupt, install
    <2> QED
      BY <2>1, <2>2, <2>3
  <1> QED
    BY <1>2, <1>3, <1>4

-----------------------------------------------------------------------------
(* What the proxies know.                                                  *)

(* The upstream f reaches n through the proxy p.                           *)
RightForm(n, p, f) ==
    \/ f = "port" /\ p = "theirs" /\ theirs = "pasta"
    \/ f = "name" /\ joined[n] \in Networked(p)

(* The proxy that runs claims the label of n's hostname for n and can reach *)
(* n, and does when reloaded.                                               *)
Reaches(n) ==
    /\ Running # None
    /\ conf[Running][n] = live[Running][n] /\ conf[Running][n] # None
    /\ live[Running][n].label = Label[host[n]] /\ RightForm(n, Running, live[Running][n].form)

(* What was provisioned is routed.                                         *)
Routes ==
    /\ routed \subseteq registered \cap Net
    /\ \A n \in routed : Reaches(n)

(* What `proxy` has found out and done so far.                             *)
Provisioning ==
    /\ cli.pc = "install" => Running = None \/ cli.blind
    /\ cli.pc \in {"attach", "confs", "reload"} => cli.proxy = Running /\ Running # None
    /\ cli.pc \in {"confs", "reload"} => cli.n \notin routed /\ RightForm(cli.n, cli.proxy, cli.form)
    /\ cli.pc = "reload" =>
           conf[cli.proxy][cli.n] = [form |-> cli.form, label |-> Label[host[cli.n]]]

(* The inductive invariant of the routes. *)
RouteInv == Routes /\ Provisioning

(* Outside `proxy` nothing is said of a command. *)
LEMMA NothingProvisioned ==
    ASSUME cli'.pc \notin {"install", "attach", "confs", "reload"}
    PROVE  Provisioning'
  BY DEF Provisioning

(* A step that leaves the proxies alone.                                   *)
LEMMA QuietRoutes ==
    ASSUME RouteInv, UNCHANGED proxies, routed' \subseteq routed, routed' \subseteq registered',
           cli'.pc \notin {"install", "attach", "confs", "reload"}
    PROVE  RouteInv'
  <1>1. routed' \subseteq registered' \cap Net
    BY DEF RouteInv, Routes
  <1>2. Running' = Running /\ \A p : Networked(p)' = Networked(p)
    BY DEF proxies, Running, NetworkOf, Networked
  <1>3. ASSUME NEW n \in routed'
        PROVE  Reaches(n)'
    BY <1>2, <1>3 DEF RouteInv, Routes, Reaches, RightForm, proxies
  <1> QED
    BY <1>1, <1>3, NothingProvisioned DEF RouteInv, Routes

(* `tailscale` keeps the routes. *)
LEMMA TailscaleRoutes ==
    ASSUME Parameters, Typed, RouteInv, Tailscale
    PROVE  RouteInv'
  <1>1. UNCHANGED <<registered, proxies, routed>>
    BY DEF Tailscale, EnableBegin, DisableBegin, Ready, Checks, EnableWeb, EnableMcp, ServeStep, Undo, Record,
           EnableEnv, EnableUp, EnableUrl, EnableDone, TurnOffWeb, TurnOffMcp, OffStep, DisableEnv, DisableUp,
           DisableUrl, DisableClear, OfferClient
  <1>2. \A label : Goto(label) => cli'.pc = label
    BY DEF Goto, Typed, CliOK, Commands
  <1>3. End => cli'.pc = "idle"
    BY DEF End, Idle
  <1>4. cli'.pc \notin {"install", "attach", "confs", "reload"}
    <2>1. CASE (\E n \in Local, pair \in Pairs : EnableBegin(n, pair)) \/ (\E n \in Local : DisableBegin(n))
      BY <2>1 DEF EnableBegin, DisableBegin, Begin, Idle
    <2>2. CASE \/ Ready \/ Checks \/ EnableWeb \/ EnableMcp \/ Undo \/ Record
               \/ EnableEnv \/ EnableUp \/ EnableUrl \/ EnableDone
      BY <1>2, <1>3, <2>2 DEF Ready, Checks, EnableWeb, EnableMcp, ServeStep, Undo, Record, EnableEnv, EnableUp,
             EnableUrl, EnableDone
    <2>3. CASE \/ TurnOffWeb \/ TurnOffMcp \/ DisableEnv \/ DisableUp \/ DisableUrl \/ DisableClear
               \/ OfferClient
      BY <1>2, <1>3, <2>3 DEF TurnOffWeb, TurnOffMcp, OffStep, DisableEnv, DisableUp, DisableUrl, DisableClear,
             OfferClient
    <2> QED
      BY <2>1, <2>2, <2>3 DEF Tailscale
  <1>5. routed' \subseteq routed /\ routed' \subseteq registered' /\ UNCHANGED proxies
    BY <1>1 DEF RouteInv, Routes
  <1> QED
    BY <1>4, <1>5, QuietRoutes

(* `remove`, `update`, `uninstall` and an interruption keep the routes. *)
LEMMA InstancesRoutes ==
    ASSUME Parameters, Typed, RouteInv,
           \/ \E n \in Names : Remove(n) \/ Update(n)
           \/ Uninstall \/ UninstallServe \/ UninstallClient \/ Interrupt
    PROVE  RouteInv'
  <1>0. TypeOK /\ CliOK /\ registered \subseteq Names /\ routed \subseteq registered
    BY DEF Typed, TypeOK, RouteInv, Routes
  <1>1. UNCHANGED proxies
    BY DEF Remove, Update, Uninstall, UninstallServe, UninstallClient, Interrupt
  <1>2. CASE \E n \in Names : Remove(n)
    <2>1. PICK n \in Names : Remove(n)
      BY <1>2
    <2>2. registered' = registered \ {n} /\ routed' = routed \ {n}
      BY <2>1 DEF Remove, Gone
    <2>3. cli'.pc \in {"rdetect", "off1", "idle"}
      BY <2>1 DEF Remove, Begin, Idle
    <2>4. routed' \subseteq routed /\ routed' \subseteq registered'
      BY <1>0, <2>2
    <2> QED
      BY <1>1, <2>3, <2>4, QuietRoutes
  <1>3. CASE Uninstall
    <2>1. registered' = registered \ registered /\ routed' = routed \ registered
      BY <1>3 DEF Uninstall, Gone
    <2>2. cli'.pc \in {"rdetect", "ustates"}
      BY <1>3 DEF Uninstall, Begin, Idle
    <2>3. routed' \subseteq routed /\ routed' \subseteq registered'
      BY <1>0, <2>1
    <2> QED
      BY <1>1, <2>2, <2>3, QuietRoutes
  <1>4. CASE \E n \in Names : Update(n)
    <2>1. UNCHANGED <<routed, registered>> /\ cli'.pc = "idle"
      BY <1>4 DEF Update, Idle
    <2>2. routed' \subseteq routed /\ routed' \subseteq registered'
      BY <1>0, <2>1
    <2> QED
      BY <1>1, <2>1, <2>2, QuietRoutes
  <1>5. CASE UninstallServe \/ UninstallClient \/ Interrupt
    <2>1. UNCHANGED <<routed, registered>> /\ cli'.pc \in {"idle", "uclient"}
      BY <1>0, <1>5 DEF UninstallServe, UninstallClient, Interrupt, End, Idle, Goto, CliOK, Commands
    <2>2. routed' \subseteq routed /\ routed' \subseteq registered'
      BY <1>0, <2>1
    <2> QED
      BY <1>1, <2>1, <2>2, QuietRoutes
  <1> QED
    BY <1>2, <1>3, <1>4, <1>5

(* `create` keeps the routes: what it makes is not routed yet. *)
LEMMA CreateRoutes ==
    ASSUME Parameters, Typed, RouteInv, NEW n \in Names, Create(n)
    PROVE  RouteInv'
  <1>1. /\ UNCHANGED <<routed, theirs, swag, conf, live, linked>> /\ registered' = registered \cup {n}
        /\ n \notin routed
        /\ joined' = joined \/ joined' = [joined EXCEPT ![n] = None]
        /\ host' = host \/ \E h : host' = [host EXCEPT ![n] = h]
    BY DEF Create, RouteInv, Routes
  <1>2. cli'.pc = "idle"
    BY DEF Create, Begin, Idle
  <1>3. Running' = Running /\ \A p : Networked(p)' = Networked(p)
    BY <1>1 DEF Running, NetworkOf, Networked
  <1>4. joined \in [Net -> Optional(Networks)] /\ host \in [Net -> Hosts]
    BY DEF Typed, TypeOK
  <1>5. ASSUME NEW m \in routed'
        PROVE  Reaches(m)'
    <2>1. m \in routed /\ m \in Net /\ m # n
      BY <1>1, <1>5 DEF RouteInv, Routes
    <2>2. joined'[m] = joined[m] /\ host'[m] = host[m]
      BY <1>1, <1>4, <2>1
    <2> QED
      BY <1>1, <1>3, <2>1, <2>2 DEF RouteInv, Routes, Reaches, RightForm
  <1>6. routed' \subseteq registered' \cap Net
    BY <1>1 DEF RouteInv, Routes
  <1> QED
    BY <1>2, <1>5, <1>6, NothingProvisioned DEF RouteInv, Routes

(* SWAG made again is still on the network of those that stay routed.      *)
LEMMA RemadeRoutes ==
    ASSUME Parameters, TypeOK, Routes, NEW net \in Shared, NEW setup \in Setup, setup.net = net,
           swag'.box = setup, theirs = None, Remade(net), UNCHANGED <<registered, theirs, host, conf, joined>>
    PROVE  Routes' /\ Running' = "swag"
  <1>1. setup # None /\ None # "swag"
    BY DEF Parameters, Setup
  <1>2. live \in Confs /\ conf \in Confs
    BY DEF TypeOK
  <1>3. Running' = "swag" /\ Running \in {None, "swag"}
    BY <1>1 DEF Running
  <1>4. Networked("swag")' = {net}
    BY DEF Networked, NetworkOf, Remade
  <1>5. live'["swag"] = conf["swag"]
    BY <1>2 DEF Remade, Restarted, Confs
  <1>6. ASSUME NEW n \in routed'
        PROVE  Reaches(n)'
    <2>1. n \in routed /\ joined[n] = net
      BY <1>6 DEF Remade
    <2>2. /\ Running = "swag" /\ conf["swag"][n] = live["swag"][n] /\ conf["swag"][n] # None
          /\ live["swag"][n].label = Label[host[n]] /\ RightForm(n, "swag", live["swag"][n].form)
      BY <1>3, <2>1 DEF Routes, Reaches
    <2>3. live["swag"][n].form = "name"
      BY <2>2 DEF RightForm
    <2>4. live'["swag"][n] = live["swag"][n]
      BY <1>5, <2>2
    <2>5. RightForm(n, "swag", live["swag"][n].form)'
      BY <1>4, <2>1, <2>3, <2>4 DEF RightForm
    <2> QED
      BY <1>1, <1>3, <2>2, <2>4, <2>5 DEF Reaches
  <1>7. routed' \subseteq registered' \cap Net
    BY DEF Routes, Remade
  <1> QED
    BY <1>3, <1>6, <1>7 DEF Routes

(* With the same container running, nobody's route changes.                *)
LEMMA SameRoutes ==
    ASSUME Routes, swag'.box = swag.box,
           UNCHANGED <<registered, theirs, host, conf, live, joined, linked, routed>>
    PROVE  Routes' /\ Running' = Running
  <1>1. Running' = Running
    BY DEF Running
  <1>2. \A p : Networked(p)' = Networked(p)
    BY DEF Networked, NetworkOf
  <1>3. ASSUME NEW n \in routed'
        PROVE  Reaches(n)'
    BY <1>1, <1>2, <1>3 DEF Routes, Reaches, RightForm
  <1> QED
    BY <1>1, <1>3 DEF Routes

(* `proxy` and `dns` keep the routes of the others, and make one when they *)
(* end.                                                                    *)
LEMMA ProxyStepRoutes ==
    ASSUME Parameters, Typed, RouteInv,
           \/ \E n \in Net, net \in Shared : ProxyBegin(n, net) \/ ConfigureDns(n, net)
           \/ DetectProxy \/ InstallSwag \/ Attach \/ InstallConfs \/ Reload
    PROVE  RouteInv'
  <1>0. /\ TypeOK /\ CliOK /\ cli \in Commands /\ Routes /\ Provisioning /\ conf \in Confs
        /\ live \in Confs /\ joined \in [Net -> Optional(Networks)] /\ host \in [Net -> Hosts]
        /\ routed \subseteq registered \cap Net
    BY DEF Typed, TypeOK, CliOK, RouteInv, Routes
  <1>1. End => cli'.pc = "idle"
    BY DEF End, Idle
  <1>2. CASE \E n \in Net, net \in Shared : ProxyBegin(n, net)
    <2>1. UNCHANGED <<registered, proxies, routed>> /\ cli'.pc = "detect"
      BY <1>2 DEF ProxyBegin, Begin, Idle
    <2>2. routed' \subseteq routed /\ routed' \subseteq registered' /\ UNCHANGED proxies
      BY <1>0, <2>1
    <2> QED
      BY <2>1, <2>2, QuietRoutes
  <1>3. CASE \E n \in Net, net \in Shared : ConfigureDns(n, net)
    <2>1. PICK n \in Net, net \in Shared : ConfigureDns(n, net)
      BY <1>3
    <2> DEFINE setup == [net |-> net, dns |-> TRUE]
    <2> DEFINE next == UNCHANGED cli /\ Remade(net)
    <2>2. SwagUp(setup, next) /\ setup \in Setup /\ setup.net = net /\ next \in BOOLEAN
      BY <2>1 DEF ConfigureDns, Setup
    <2>n. next => cli' = cli /\ Remade(net)
      OBVIOUS
    <2> HIDE DEF setup, next
    <2>3. UNCHANGED <<registered, theirs, host, conf, joined>> /\ cli = Idle
      BY <2>1 DEF ConfigureDns
    <2>4. \/ next /\ swag'.box = setup /\ theirs = None
          \/ End /\ live' = live /\ swag'.box = swag.box /\ UNCHANGED <<routed, linked>>
          \/ End /\ live' = live /\ Lost
          \/ End /\ swag'.box = setup /\ theirs = None /\ Remade(setup.net)
      BY <1>0, <2>2, SwagUpTyped
    <2>5. Routes'
      <3>1. CASE next /\ swag'.box = setup /\ theirs = None
        BY <1>0, <2>2, <2>3, <2>n, <3>1, RemadeRoutes
      <3>2. CASE live' = live /\ swag'.box = swag.box /\ UNCHANGED <<routed, linked>>
        BY <1>0, <2>3, <3>2, SameRoutes
      <3>3. CASE Lost
        BY <3>3 DEF Lost, Routes
      <3>4. CASE swag'.box = setup /\ theirs = None /\ Remade(setup.net)
        BY <1>0, <2>2, <2>3, <3>4, RemadeRoutes
      <3> QED
        BY <2>4, <3>1, <3>2, <3>3, <3>4
    <2>6. cli'.pc = "idle"
      BY <1>1, <2>3, <2>4, <2>n DEF Idle
    <2> QED
      BY <2>5, <2>6, NothingProvisioned DEF RouteInv
  <1>4. CASE DetectProxy
    <2>1. UNCHANGED <<registered, theirs, swag, host, conf, live, joined, linked, routed>>
      BY <1>4 DEF DetectProxy, proxies
    <2>2. Routes' /\ Running' = Running
      BY <1>0, <2>1, SameRoutes
    <2>3. Routes'
      BY <2>2
    <2>4. PICK p \in {None, "swag", "theirs"} :
              /\ Detects(p)
              /\ \/ p # None /\ cli' = [cli EXCEPT !.pc = "attach", !.proxy = p]
                 \/ p = None /\ cli' = [cli EXCEPT !.pc = "install", !.blind = (Running # None)]
      BY <1>4 DEF DetectProxy
    <2>5. CASE p # None /\ cli' = [cli EXCEPT !.pc = "attach", !.proxy = p]
      <3>1. cli'.pc = "attach" /\ cli'.proxy = p /\ p = Running
        BY <1>0, <2>4, <2>5 DEF Commands, Detects
      <3> QED
        BY <2>2, <2>3, <2>5, <3>1 DEF RouteInv, Provisioning
    <2>6. CASE p = None /\ cli' = [cli EXCEPT !.pc = "install", !.blind = (Running # None)]
      <3>1. cli'.pc = "install" /\ cli'.blind = (Running # None)
        BY <1>0, <2>6 DEF Commands
      <3>2. Running' = None \/ cli'.blind
        BY <2>2, <3>1
      <3> QED
        BY <2>3, <3>1, <3>2 DEF RouteInv, Provisioning
    <2> QED
      BY <2>4, <2>5, <2>6
  <1>5. CASE InstallSwag
    <2>1. UNCHANGED <<registered, theirs, host, conf, joined>>
      BY <1>5 DEF InstallSwag
    <2> DEFINE setup == [net |-> cli.net, dns |-> FALSE]
               next == /\ cli' = [cli EXCEPT !.pc = "attach", !.proxy = "swag"]
                       /\ IF swag.box = setup THEN UNCHANGED <<live, routed, linked>>
                          ELSE Remade(cli.net)
    <2>2. setup \in Setup /\ setup.net = cli.net /\ cli.net \in Shared
      BY <1>0, <1>5 DEF InstallSwag, At, CliOK, Proxying, Setup
    <2>3. SwagUp(setup, next) \/ (End /\ UNCHANGED <<swag, live, routed, linked>>)
      BY <1>5 DEF InstallSwag
    <2>4. next => /\ cli'.pc = "attach" /\ cli'.proxy = "swag"
                  /\ \/ swag.box = setup /\ UNCHANGED <<live, routed, linked>>
                     \/ Remade(cli.net)
      BY <1>0 DEF Commands
    <2>n. next \in BOOLEAN
      OBVIOUS
    <2> HIDE DEF setup, next
    <2>5. CASE SwagUp(setup, next)
      <3>0. \/ next /\ swag'.box = setup /\ theirs = None
            \/ End /\ live' = live /\ swag'.box = swag.box /\ UNCHANGED <<routed, linked>>
            \/ End /\ live' = live /\ Lost
            \/ End /\ swag'.box = setup /\ theirs = None /\ Remade(setup.net)
        BY <1>0, <2>2, <2>5, <2>n, SwagUpTyped
      <3>1. CASE next /\ swag'.box = setup /\ theirs = None
        <4>1. swag'.box # None /\ "swag" # None
          BY <2>2, <3>1 DEF Setup, Parameters
        <4>2. Running' = "swag"
          BY <4>1 DEF Running
        <4>3. Routes'
          <5>1. CASE swag.box = setup /\ UNCHANGED <<live, routed, linked>>
            BY <1>0, <2>1, <3>1, <5>1, SameRoutes
          <5>2. CASE Remade(cli.net)
            BY <1>0, <2>1, <2>2, <3>1, <5>2, RemadeRoutes
          <5> QED
            BY <2>4, <3>1, <5>1, <5>2
        <4> QED
          BY <2>4, <3>1, <4>1, <4>2, <4>3 DEF RouteInv, Provisioning
      <3>2. CASE End /\ live' = live /\ swag'.box = swag.box /\ UNCHANGED <<routed, linked>>
        <4>1. Routes'
          BY <1>0, <2>1, <3>2, SameRoutes
        <4> QED
          BY <1>1, <3>2, <4>1, NothingProvisioned DEF RouteInv
      <3>3. CASE End /\ Lost
        BY <1>1, <3>3, NothingProvisioned DEF RouteInv, Routes, Lost
      <3>4. CASE End /\ swag'.box = setup /\ theirs = None /\ Remade(setup.net)
        <4>1. Routes'
          BY <1>0, <2>1, <2>2, <3>4, RemadeRoutes
        <4> QED
          BY <1>1, <3>4, <4>1, NothingProvisioned DEF RouteInv
      <3> QED
        BY <3>0, <3>1, <3>2, <3>3, <3>4
    <2>6. CASE End /\ UNCHANGED <<swag, live, routed, linked>>
      <3>1. Routes'
        BY <1>0, <2>1, <2>6, SameRoutes
      <3> QED
        BY <1>1, <2>6, <3>1, NothingProvisioned DEF RouteInv
    <2> QED
      BY <2>3, <2>5, <2>6
  <1>6. CASE Attach
    <2>1. /\ UNCHANGED <<registered, theirs, swag, host, conf, live>> /\ routed' = routed \ {cli.n}
          /\ cli.proxy = Running /\ Running # None /\ cli.n \in Net
      BY <1>0, <1>6 DEF Attach, At, Provisioning, CliOK, Proxying
    <2>2. Running' = Running
      BY <2>1 DEF Running
    <2>3. /\ \A n \in Net \ {cli.n} : joined'[n] = joined[n]
          /\ linked' \in {linked, linked \cup {cli.net}}
      BY <1>0, <1>6 DEF Attach
    <2>n. \A p : NetworkOf(p)' = NetworkOf(p) /\ Networked(p)' = {NetworkOf(p)} \cup linked'
      BY <2>1 DEF NetworkOf, Networked
    <2>m. \A p : Networked(p) \subseteq Networked(p)'
      BY <2>3, <2>n DEF Networked
    <2>4. Routes'
      <3>1. ASSUME NEW n \in routed'
            PROVE  Reaches(n)'
        <4>1. n \in routed /\ n \in Net \ {cli.n}
          BY <1>0, <2>1, <3>1
        <4>2. joined'[n] = joined[n] /\ host'[n] = host[n]
          BY <2>1, <2>3, <4>1
        <4>3. RightForm(n, Running, live[Running][n].form) => RightForm(n, Running, live[Running][n].form)'
          BY <2>1, <2>2, <2>m, <4>2 DEF RightForm
        <4> QED
          BY <1>0, <2>1, <2>2, <4>1, <4>2, <4>3 DEF Routes, Reaches
      <3>2. routed' \subseteq registered' \cap Net
        BY <1>0, <2>1
      <3> QED
        BY <3>1, <3>2 DEF Routes
    <2>5. CASE End
      BY <1>1, <2>4, <2>5, NothingProvisioned DEF RouteInv
    <2>6. CASE cli.proxy = "theirs" /\ theirs = "pasta" /\ cli' = [cli EXCEPT !.pc = "confs", !.form = "port"]
      <3>1. cli'.pc = "confs" /\ cli'.form = "port" /\ cli'.n = cli.n /\ cli'.proxy = cli.proxy
        BY <1>0, <2>6 DEF Commands
      <3>2. RightForm(cli.n, cli.proxy, cli.form)'
        BY <2>1, <2>6, <3>1 DEF RightForm
      <3> QED
        BY <2>1, <2>2, <2>4, <3>1, <3>2 DEF RouteInv, Provisioning
    <2>7. CASE Joins /\ \E net \in Networked(cli.proxy)' : joined' = [joined EXCEPT ![cli.n] = net]
      <3>0. cli' = [cli EXCEPT !.pc = "confs", !.form = "name"]
        BY <2>7 DEF Joins
      <3>1. cli'.pc = "confs" /\ cli'.form = "name" /\ cli'.n = cli.n /\ cli'.proxy = cli.proxy
        BY <1>0, <3>0 DEF Commands
      <3>2. joined'[cli.n] \in Networked(cli.proxy)'
        BY <1>0, <2>1, <2>7
      <3>3. RightForm(cli.n, cli.proxy, cli.form)'
        BY <2>1, <2>2, <3>1, <3>2 DEF RightForm
      <3> QED
        BY <2>1, <2>2, <2>4, <3>1, <3>3 DEF RouteInv, Provisioning
    <2>8. CASE /\ Joins /\ joined' = [joined EXCEPT ![cli.n] = cli.net] /\ linked' = linked \cup {cli.net}
      <3>1. cli.net \in Networked(cli.proxy)'
        BY <2>8, <2>n
      <3> QED
        BY <2>7, <2>8, <3>1
    <2>9. CASE Joins /\ linked' = linked /\ \E net \in Networked(cli.proxy) : joined' = [joined EXCEPT ![cli.n] = net]
      <3>1. PICK net \in Networked(cli.proxy) : joined' = [joined EXCEPT ![cli.n] = net]
        BY <2>9
      <3>0. cli'.proxy = cli.proxy
        BY <1>0, <2>9 DEF Joins, Commands
      <3>2. net \in Networked(cli.proxy)'
        BY <2>9, <2>n, <3>0, <3>1 DEF Networked
      <3> QED
        BY <2>7, <2>9, <3>1, <3>2
    <2> QED
      BY <1>6, <2>5, <2>6, <2>8, <2>9 DEF Attach
  <1>7. CASE InstallConfs
    <2>1. /\ UNCHANGED <<registered, theirs, swag, host, live, joined, linked, routed>>
          /\ cli.proxy = Running /\ Running # None /\ cli.n \in Net /\ cli.n \notin routed
          /\ RightForm(cli.n, cli.proxy, cli.form) /\ Goto("reload")
          /\ conf' = [conf EXCEPT ![cli.proxy][cli.n] =
                          [form |-> cli.form, label |-> Label[host[cli.n]]]]
      BY <1>0, <1>7 DEF InstallConfs, At, Provisioning, CliOK, Proxying
    <2>2. Running' = Running /\ Running \in {"swag", "theirs"} /\ \A p : Networked(p)' = Networked(p)
      BY <2>1 DEF Running, NetworkOf, Networked
    <2>3. /\ conf'[Running][cli.n] = [form |-> cli.form, label |-> Label[host[cli.n]]]
          /\ \A n \in Net \ {cli.n} : conf'[Running][n] = conf[Running][n]
      BY <1>0, <2>1, <2>2 DEF Confs, Labels
    <2>4. ASSUME NEW n \in routed'
          PROVE  Reaches(n)'
      <3>1. n \in routed /\ n \in Net \ {cli.n} /\ Reaches(n)
        BY <1>0, <2>1, <2>4 DEF Routes
      <3>2. conf'[Running][n] = conf[Running][n]
        BY <2>3, <3>1
      <3> QED
        BY <2>1, <2>2, <3>1, <3>2 DEF Reaches, RightForm
    <2>5. Routes'
      BY <1>0, <2>1, <2>4 DEF Routes
    <2>6. cli'.pc = "reload" /\ cli'.form = cli.form /\ cli'.n = cli.n /\ cli'.proxy = cli.proxy
      BY <1>0, <2>1 DEF Commands, Goto
    <2>7. RightForm(cli.n, cli.proxy, cli.form)'
      BY <2>1, <2>2, <2>6 DEF RightForm
    <2>8. conf'[cli'.proxy][cli'.n] = [form |-> cli'.form, label |-> Label[host'[cli'.n]]]
      BY <2>1, <2>3, <2>6
    <2>9. cli'.proxy = Running' /\ Running' # None /\ cli'.n \notin routed'
      BY <2>1, <2>2, <2>6
    <2> QED
      BY <2>5, <2>6, <2>7, <2>8, <2>9 DEF RouteInv, Provisioning
  <1>8. CASE Reload
    <2>1. /\ UNCHANGED <<registered, theirs, swag, host, conf, joined, linked>> /\ cli'.pc = "idle"
          /\ cli.proxy = Running /\ Running # None /\ cli.n \in Net /\ cli.n \in registered
          /\ RightForm(cli.n, cli.proxy, cli.form)
          /\ conf[Running][cli.n] = [form |-> cli.form, label |-> Label[host[cli.n]]]
          /\ \/ live' = [live EXCEPT ![Running] = conf[Running]] /\ routed' = routed \cup {cli.n}
             \/ live' = [live EXCEPT ![Running] = conf[Running]] /\ routed' = routed
             \/ UNCHANGED <<live, routed>>
      BY <1>0, <1>1, <1>8 DEF Reload, Restarted, At, Provisioning, CliOK, Proxying
    <2>2. Running' = Running /\ Running \in {"swag", "theirs"} /\ \A p : Networked(p)' = Networked(p)
      BY <2>1 DEF Running, NetworkOf, Networked
    <2>3. live'[Running] = conf[Running] \/ UNCHANGED <<live, routed>>
      BY <1>0, <2>1, <2>2 DEF Confs, Labels
    <2>4. conf[Running][cli.n] # None
      <3>1. cli.form \in {"name", "port"} /\ host[cli.n] \in Hosts
        BY <1>0, <2>1 DEF RightForm
      <3>2. [form |-> cli.form, label |-> Label[host[cli.n]]] \in
                [form : {"name", "port"}, label : {Label[h] : h \in Hosts}]
        BY <3>1
      <3> QED
        BY <2>1, <3>2 DEF Parameters
    <2>5. ASSUME NEW n \in routed'
          PROVE  Reaches(n)'
      <3>1. CASE UNCHANGED <<live, routed>>
        <4>1. Reaches(n)
          BY <1>0, <2>5, <3>1 DEF Routes
        <4> QED
          BY <2>1, <2>2, <3>1, <4>1 DEF Reaches, RightForm
      <3>2. CASE live'[Running] = conf[Running] /\ n = cli.n
        <4>1. live'[Running][n] = [form |-> cli.form, label |-> Label[host[n]]]
          BY <2>1, <3>2
        <4>2. live'[Running][n].form = cli.form /\ live'[Running][n].label = Label[host[n]]
          BY <4>1
        <4>3. RightForm(n, Running, live'[Running][n].form)
          BY <2>1, <3>2, <4>2
        <4> QED
          BY <2>1, <2>2, <2>4, <3>2, <4>2, <4>3 DEF Reaches, RightForm
      <3>3. CASE live'[Running] = conf[Running] /\ n \in routed
        <4>1. Reaches(n)
          BY <1>0, <3>3 DEF Routes
        <4> QED
          BY <2>1, <2>2, <3>3, <4>1 DEF Reaches, RightForm
      <3> QED
        BY <2>1, <2>3, <2>5, <3>1, <3>2, <3>3
    <2>6. routed' \subseteq registered' \cap Net
      BY <1>0, <2>1
    <2> QED
      BY <2>1, <2>5, <2>6, NothingProvisioned DEF RouteInv, Routes
  <1> QED
    BY <1>2, <1>3, <1>4, <1>5, <1>6, <1>7, <1>8

(* What `remove` and `uninstall` offer about the proxy, and the operator.  *)
LEMMA LeavingRoutes ==
    ASSUME Parameters, Typed, RouteInv, RemoveDetects \/ RemoveConfs \/ RemoveSwag \/ Operator
    PROVE  RouteInv'
  <1>0. /\ TypeOK /\ CliOK /\ cli \in Commands /\ Routes /\ conf \in Confs
        /\ live \in Confs /\ routed \subseteq registered \cap Net /\ registered' = registered
        /\ UNCHANGED <<theirs, host, joined>>
    BY DEF Typed, TypeOK, CliOK, RouteInv, Routes, RemoveDetects, RemoveConfs, RemoveSwag, Operator, proxies
  <1>1. cli'.pc \notin {"install", "attach", "confs", "reload"}
    <2>1. \A label : /\ Goto(label) => cli'.pc = label
                     /\ \A p : cli' = [cli EXCEPT !.pc = label, !.proxy = p] => cli'.pc = label
      BY <1>0 DEF Goto, Commands
    <2>2. End => cli'.pc = "idle"
      BY DEF End, Idle
    <2>3. RemoveDetects => cli'.pc \in {"idle", "ustates", "rconfs"}
      BY <2>1, <2>2 DEF RemoveDetects, Leave
    <2>4. RemoveConfs \/ RemoveSwag => cli'.pc \in {"idle", "ustates", "rswag"}
      BY <2>1, <2>2 DEF RemoveConfs, RemoveSwag, Leave
    <2>5. Operator => cli'.pc = "idle"
      BY DEF Operator, Idle
    <2> QED
      BY <2>3, <2>4, <2>5
  <1>2. CASE RemoveDetects
    <2>1. UNCHANGED proxies /\ routed' \subseteq routed /\ routed' \subseteq registered'
      BY <1>0, <1>2 DEF RemoveDetects
    <2> QED
      BY <1>1, <2>1, QuietRoutes
  <1>3. CASE RemoveConfs
    <2>1. /\ UNCHANGED <<swag, linked, routed>> /\ cli.rest \cap registered = {} /\ cli.proxy \in {"swag", "theirs"}
      BY <1>0, <1>3 DEF RemoveConfs, CliOK, At, Leaving, Commands, Optional
    <2>2. Running' = Running /\ \A p : Networked(p)' = Networked(p)
      BY <1>0, <2>1 DEF Running, NetworkOf, Networked
    <2>3. \/ UNCHANGED <<conf, live>>
          \/ /\ conf' = [conf EXCEPT ![cli.proxy] = [n \in Net |-> IF n \in cli.rest THEN None ELSE conf[cli.proxy][n]]]
             /\ live' = [live EXCEPT ![cli.proxy] = conf'[cli.proxy]] \/ live' = live
      BY <1>3 DEF RemoveConfs
    <2>4. ASSUME NEW n \in routed
          PROVE  conf'[Running][n] = conf[Running][n] /\ live'[Running][n] = live[Running][n]
      <3>1. /\ n \in Net /\ n \notin cli.rest /\ Running \in {"swag", "theirs"}
            /\ conf[Running][n] = live[Running][n]
        BY <1>0, <2>1, <2>4 DEF Routes, Reaches, Running
      <3>2. conf' = [conf EXCEPT ![cli.proxy] = [m \in Net |-> IF m \in cli.rest THEN None ELSE conf[cli.proxy][m]]]
                => \A p \in {"swag", "theirs"} : conf'[p][n] = conf[p][n]
        BY <1>0, <2>1, <3>1 DEF Confs, Labels
      <3>3. live' = [live EXCEPT ![cli.proxy] = conf'[cli.proxy]]
                => live'[Running][n] = IF Running = cli.proxy THEN conf'[Running][n] ELSE live[Running][n]
        BY <1>0, <2>1, <3>1 DEF Confs, Labels
      <3> QED
        BY <2>3, <3>1, <3>2, <3>3
    <2>5. ASSUME NEW n \in routed'
          PROVE  Reaches(n)'
      BY <1>0, <2>1, <2>2, <2>4, <2>5 DEF Routes, Reaches, RightForm
    <2> QED
      BY <1>0, <1>1, <2>1, <2>5, NothingProvisioned DEF RouteInv, Routes
  <1>4. CASE RemoveSwag
    <2>1. CASE UNCHANGED <<swag, conf, live, linked, routed>>
      <3>1. UNCHANGED proxies /\ routed' \subseteq routed /\ routed' \subseteq registered'
        BY <1>0, <1>4, <2>1 DEF RemoveSwag, proxies
      <3> QED
        BY <1>1, <3>1, QuietRoutes
    <2>2. CASE ~SwagNeeded
      <3>1. routed' = {}
        BY <1>0, <1>4, <2>2 DEF RemoveSwag, SwagNeeded, Lost
      <3> QED
        BY <1>1, <3>1, NothingProvisioned DEF RouteInv, Routes
    <2> QED
      BY <1>4, <2>1, <2>2 DEF RemoveSwag
  <1>5. CASE Operator
    <2>1. CASE UNCHANGED <<swag, routed, linked>>
      <3>1. UNCHANGED proxies /\ routed' \subseteq routed /\ routed' \subseteq registered'
        BY <1>0, <1>5, <2>1 DEF Operator, proxies
      <3> QED
        BY <1>1, <3>1, QuietRoutes
    <2>2. CASE routed' = {}
      BY <1>1, <2>2, NothingProvisioned DEF RouteInv, Routes
    <2> QED
      BY <1>5, <2>1, <2>2 DEF Operator, Lost
  <1> QED
    BY <1>2, <1>3, <1>4, <1>5

(* At the start nothing is routed. *)
LEMMA InitRoutes ==
    ASSUME Parameters, Init
    PROVE  RouteInv
  <1>1. cli.pc = "idle"
    BY DEF Init, Idle
  <1> QED
    BY <1>1 DEF Init, RouteInv, Routes, Reaches, Provisioning

(* What RouteInv says of the instances nothing is in progress for. *)
LEMMA RoutesSettled ==
    ASSUME RouteInv
    PROVE  ProvisionedRouted
  <1> SUFFICES ASSUME NEW n \in routed
               PROVE  /\ Running # None
                      /\ n \in Answering(host[n])
                      /\ \/ live[Running][n].form = "port" /\ Running = "theirs" /\ theirs = "pasta"
                         \/ live[Running][n].form = "name" /\ joined[n] \in Networked(Running)
    BY DEF ProvisionedRouted
  <1> QED
    BY DEF RouteInv, Routes, Reaches, RightForm, Answering

(* SWAG's settings go with SWAG, or when `proxy` does not see it.          *)
LEMMA SettingsStep ==
    ASSUME Parameters, Typed, RouteInv, Next
    PROVE  SettingsGoUnused
  <1> SUFFICES ASSUME swag.file # None, swag.file.dns, swag'.file = None \/ ~swag'.file.dns
               PROVE  \/ /\ swag'.file = None /\ registered \cap Net = {}
                         /\ \A n \in Net : conf["swag"][n] = None
                      \/ swag'.file # None /\ (Running # "swag" \/ cli.blind)
    BY DEF SettingsGoUnused
  <1>0. \A setup \in Setup : setup # None
    BY DEF Parameters, Setup
  <1>1. swag' # swag
    OBVIOUS
  <1>2. InstallSwag \/ (\E n \in Net, net \in Shared : ConfigureDns(n, net)) \/ RemoveSwag \/ Operator
    <2>1. CASE Tailscale
      BY <1>1, <2>1 DEF Tailscale, EnableBegin, DisableBegin, Ready, Checks, EnableWeb, EnableMcp, ServeStep, Undo,
             Record, EnableEnv, EnableUp, EnableUrl, EnableDone, TurnOffWeb, TurnOffMcp, OffStep, DisableEnv,
             DisableUp, DisableUrl, DisableClear, OfferClient, proxies
    <2>2. CASE Proxy
      BY <1>1, <2>2 DEF Proxy, ProxyBegin, DetectProxy, Attach, InstallConfs, Reload, RemoveDetects, RemoveConfs, proxies
    <2>3. CASE ~Tailscale /\ ~Proxy
      BY <1>1, <2>3 DEF Next, Remove, Create, Update, Uninstall, UninstallServe, UninstallClient, Interrupt, proxies
    <2> QED
      BY <2>1, <2>2, <2>3
  <1>3. CASE InstallSwag
    <2>1. Running = None \/ cli.blind
      BY <1>3 DEF InstallSwag, At, RouteInv, Provisioning
    <2>2. [net |-> cli.net, dns |-> FALSE] \in Setup
      BY <1>3 DEF Typed, CliOK, Proxying, InstallSwag, At, Setup
    <2>3. swag'.file = [net |-> cli.net, dns |-> FALSE]
      <3> DEFINE setup == [net |-> cli.net, dns |-> FALSE]
                 next == /\ cli' = [cli EXCEPT !.pc = "attach", !.proxy = "swag"]
                         /\ IF swag.box = setup THEN UNCHANGED <<live, routed, linked>>
                            ELSE Remade(cli.net)
      <3>1. SwagUp(setup, next)
        BY <1>1, <1>3 DEF InstallSwag
      <3>2. setup \in Setup /\ next \in BOOLEAN
        BY <2>2
      <3> HIDE DEF setup, next
      <3>3. swag'.file = setup
        BY <3>1, <3>2, SwagUpTyped DEF Typed
      <3> QED
        BY <3>3 DEF setup
    <2>4. None # "swag"
      BY DEF Parameters
    <2> QED
      BY <1>0, <2>1, <2>2, <2>3, <2>4
  <1>4. CASE \E n \in Net, net \in Shared : ConfigureDns(n, net)
    <2>1. PICK n \in Net, net \in Shared : ConfigureDns(n, net)
      BY <1>4
    <2> DEFINE setup == [net |-> net, dns |-> TRUE]
    <2> DEFINE next == UNCHANGED cli /\ Remade(net)
    <2>2. SwagUp(setup, next) /\ setup \in Setup /\ setup.dns /\ next \in BOOLEAN
      BY <2>1 DEF ConfigureDns, Setup
    <2> HIDE DEF setup, next
    <2>3. swag'.file = setup
      BY <2>2, SwagUpTyped DEF Typed
    <2>4. swag'.file # None /\ swag'.file.dns
      BY <1>0, <2>2, <2>3
    <2> QED
      BY <2>4
  <1>5. CASE RemoveSwag
    <2>1. CASE swag' = [swag EXCEPT !.box = None]
      <3>1. swag'.file = swag.file
        BY <2>1, ProxyFacts DEF Typed
      <3> QED
        BY <3>1
    <2>2. CASE swag' = [file |-> None, box |-> None] /\ ~SwagNeeded
      BY <2>2 DEF SwagNeeded
    <2> QED
      BY <1>1, <1>5, <2>1, <2>2 DEF RemoveSwag
  <1>6. CASE Operator
    <2>1. swag' = [swag EXCEPT !.box = None]
      BY <1>1, <1>6 DEF Operator
    <2>2. swag'.file = swag.file
      BY <2>1, ProxyFacts DEF Typed
    <2> QED
      BY <2>2
  <1> QED
    BY <1>2, <1>3, <1>4, <1>5, <1>6

-----------------------------------------------------------------------------
(* The inductive invariant. *)
ExposureInv == Typed /\ StageInv /\ RouteInv

(* The inductive invariant holds at the start. *)
LEMMA ExposureInit ==
    ASSUME Parameters, Init
    PROVE  ExposureInv
  BY InitTyped, InitStage, InitRoutes DEF ExposureInv

(* Every step keeps it. *)
LEMMA ExposureStep ==
    ASSUME Parameters, ExposureInv, [Next]_vars
    PROVE  ExposureInv'
  <1>0. Typed /\ StageInv /\ RouteInv
    BY DEF ExposureInv
  <1>1. \A m \in Local : json[m].stage # "none" => json[m].pair \in Pairs
    BY <1>0 DEF StageInv, RecordedPairs
  <1>2. CASE Tailscale
    <2>1. CASE \E n \in Local : (\E pair \in Pairs : EnableBegin(n, pair)) \/ DisableBegin(n)
      BY <1>0, <1>1, <2>1, TailscaleBegins, TailscaleBeginsStage, <1>2, TailscaleRoutes DEF ExposureInv
    <2>2. CASE \/ Ready \/ Checks \/ EnableWeb \/ EnableMcp \/ Undo \/ Record
               \/ EnableEnv \/ EnableUp \/ EnableUrl \/ EnableDone
      BY <1>0, <1>2, <2>2, EnableTyped, EnableStage, TailscaleRoutes DEF ExposureInv
    <2>3. CASE TurnOffWeb \/ TurnOffMcp \/ DisableEnv \/ DisableUp \/ DisableUrl \/ DisableClear
      BY <1>0, <1>2, <2>3, DisableTyped, DisableStage, TailscaleRoutes DEF ExposureInv
    <2>4. CASE OfferClient
      BY <1>0, <1>2, <2>4, DisableTyped, ProxyStage, TailscaleRoutes DEF ExposureInv
    <2> QED
      BY <1>2, <2>1, <2>2, <2>3, <2>4 DEF Tailscale
  <1>3. CASE Proxy
    <2>1. CASE \E n \in Net, net \in Shared : ProxyBegin(n, net) \/ ConfigureDns(n, net)
      BY <1>0, <2>1, ProxyTyped, OutsideStage, ProxyStepRoutes DEF ExposureInv
    <2>2. CASE DetectProxy \/ InstallSwag \/ Attach \/ InstallConfs \/ Reload
      <3>1. cli.pc = "attach" => cli.proxy = Running
        BY <1>0 DEF RouteInv, Provisioning
      <3> QED
        BY <1>0, <2>2, <3>1, ProxyStepTyped, ProxyStage, ProxyStepRoutes DEF ExposureInv
    <2>3. CASE RemoveDetects \/ RemoveConfs \/ RemoveSwag
      BY <1>0, <2>3, LeavingTyped, ProxyStage, LeavingRoutes DEF ExposureInv
    <2> QED
      BY <1>3, <2>1, <2>2, <2>3 DEF Proxy
  <1>4. CASE \E n \in Names : Remove(n)
    BY <1>0, <1>1, <1>4, RemoveTyped, RemoveStage, InstancesRoutes DEF ExposureInv
  <1>5. CASE \E n \in Names : Create(n)
    BY <1>0, <1>5, CreateTyped, CreateStage, CreateRoutes DEF ExposureInv
  <1>6. CASE \E n \in Names : Update(n)
    BY <1>0, <1>6, OthersTyped, OutsideStage, InstancesRoutes DEF ExposureInv
  <1>7. CASE Uninstall
    BY <1>0, <1>7, UninstallTyped, UninstallStage, InstancesRoutes DEF ExposureInv
  <1>8. CASE UninstallServe
    BY <1>0, <1>8, LeavingTyped, UninstallStage, InstancesRoutes DEF ExposureInv
  <1>9. CASE UninstallClient
    BY <1>0, <1>9, LeavingTyped, ProxyStage, InstancesRoutes DEF ExposureInv
  <1>10. CASE Operator
    BY <1>0, <1>10, OthersTyped, OutsideStage, LeavingRoutes DEF ExposureInv
  <1>11. CASE Interrupt
    BY <1>0, <1>11, OthersTyped, InterruptStage, InstancesRoutes DEF ExposureInv
  <1>12. CASE UNCHANGED vars
    <2>1. RouteInv'
      BY <1>0, <1>12 DEF vars, proxies, RouteInv, Routes, Reaches, Provisioning, RightForm, Running, NetworkOf,
           Networked
    <2> QED
      BY <1>0, <1>12, <2>1, OthersTyped, StutterStage DEF ExposureInv
  <1> QED
    BY <1>2, <1>3, <1>4, <1>5, <1>6, <1>7, <1>8, <1>9, <1>10, <1>11, <1>12 DEF Next

(* It holds in every reachable state. *)
LEMMA ExposureHolds ==
    ASSUME Parameters
    PROVE  Spec => []ExposureInv
  <1>1. Init => ExposureInv
    BY ExposureInit
  <1>2. ExposureInv /\ [Next]_vars => ExposureInv'
    BY ExposureStep
  <1> QED
    BY <1>1, <1>2, PTL DEF Spec

(* The stage in tailscale.json is what ports, containers and registry      *)
(* show, wherever a command stopped.                                       *)
THEOREM StageTold ==
    ASSUME Parameters
    PROVE  Spec => []StageIsTrue
  <1>1. ExposureInv => StageIsTrue
    BY StageSettled DEF ExposureInv
  <1> QED
    BY <1>1, ExposureHolds, PTL

(* An instance that `proxy` provisioned stays routed to: its conf is loaded *)
(* and claims its label, and it is on a network of the proxy, whatever was *)
(* provisioned, removed or torn down for others since.                     *)
THEOREM TrafficArrives ==
    ASSUME Parameters
    PROVE  Spec => []ProvisionedRouted
  <1>1. ExposureInv => ProvisionedRouted
    BY RoutesSettled DEF ExposureInv
  <1> QED
    BY <1>1, ExposureHolds, PTL

(* The client is not removed while it serves a registered instance, but for *)
(* one whose tailscale.json could not be read; SWAG's settings go with SWAG *)
(* itself, or when `proxy` does not see it.                                *)
THEOREM SharedIsKept ==
    ASSUME Parameters
    PROVE  Spec => SharedKept
  <1>1. ExposureInv /\ [Next]_vars => [ClientGoesUnused]_vars
    BY ClientStep DEF ExposureInv
  <1>2. ExposureInv /\ [Next]_vars => [SettingsGoUnused]_vars
    BY SettingsStep DEF ExposureInv
  <1>3. Spec => ClientInUseKept
    BY <1>1, ExposureHolds, PTL DEF Spec, ClientInUseKept
  <1>4. Spec => SettingsKept
    BY <1>2, ExposureHolds, PTL DEF Spec, SettingsKept
  <1> QED
    BY <1>3, <1>4 DEF SharedKept
=============================================================================
