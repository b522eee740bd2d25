------------------------------ MODULE Lifecycle ------------------------------
(* The commands of `job-squire` that create, start, update, roll back, remove, *)
(* back up, restore and uninstall instances, run one after the other or beside *)
(* each other, with container runtime calls that fail and commands that are    *)
(* interrupted.                                                                *)
(*                                                                             *)
(* Of an instance there are four things that can disagree: its entry in the    *)
(* registry, its directory (compose file and both .env files), its container,  *)
(* and the named volume with the database.  A `secret` stands for what is made *)
(* afresh for an instance and must agree between data/.env and the database:   *)
(* the key its stored secrets are encrypted with, and the admin password.      *)
EXTENDS Integers, FiniteSets

CONSTANTS
    Clis,         \* terminals that may run a command
    Names,        \* instance names, already slugs
    Network,      \* the names created in network mode
    Refs,         \* image references
    Broken,       \* the references whose image does not come up
    Match,        \* <<n, m>>: `volume ls --filter name=<n's key>` shows m's volume
    MaxCommands, MaxFaults,   \* bounds of the model
    None

Optional(S) == S \cup {None}

Ports == 1 .. (2 * Cardinality(Names) + 1)
Entry == [port : Ports, mode : {"local", "network"}]
Directory == [image : Refs, previous : Refs \cup {None}, port : Ports, listen : Ports, secret : Nat]
Volume == [secret : Nat, key : Nat, wal : {"none", "own", "foreign"}]
Container == [status : {"created", "running", "exited"}, image : Refs, port : Ports]
Archive == [n : Names, mode : {"local", "network"}, dir : Directory, db : Volume]

ASSUME LifecycleAssumption ==
    /\ IsFiniteSet(Names)
    /\ Network \subseteq Names /\ Broken \subseteq Refs
    /\ Match \subseteq Names \X Names
    /\ \A n \in Names : <<n, n>> \in Match
    /\ {MaxCommands, MaxFaults} \subseteq Nat
    /\ None \notin Names \cup Refs \cup {"detected", "installed"}
    /\ None \notin Entry \cup Directory \cup Volume \cup Container \cup Archive
    /\ None \notin [Names -> Optional(Entry)]

VARIABLES
    registry,    \* instances.json: the entry of each name, or None
    tmp,         \* instances.json.tmp, the one temporary file of all writers
    root,        \* the directory of each name, or None
    volume,      \* the named volume of each name, or None
    container,   \* the container of each name, or None
    local,       \* the references whose image is on this machine
    runtime,     \* "missing", "theirs" (found working) or "ours" (installed by the CLI)
    choice,      \* runtime.json: None, "detected" or "installed"
    archive,     \* the backup archive, or None
    cli,         \* what each terminal is doing
    begun, faults, fresh,
    told,        \* ghost: the password `create` printed for a name, 0 if none
    good,        \* ghost: the reference a name last came up with, or None
    swaps,       \* ghost: updates of a name that got as far as the image since it last came up
    kept,        \* ghost: names whose data the last removal kept
    late,        \* ghost: names that came to name an image while a terminal looked who uses it
    murky        \* ghost: names a fault, an interruption or an overlap touched

files == <<root, volume, container>>
machine == <<runtime, choice>>
counters == <<begun, faults, fresh>>
ghosts == <<told, good, swaps, kept, murky>>
vars == <<registry, tmp, files, local, machine, archive, cli, counters, ghosts, late>>

Pcs == {"idle", "leftover", "files", "add", "addput", "up", "pull", "stop", "previous", "swap",
        "down", "unreg", "unregput", "sweep", "rmi", "look", "next", "extract", "adjust", "create",
        "cp", "import"}

\* The state of a terminal; fields a command does not use keep these values.
Idle == [pc |-> "idle", op |-> "none", n |-> None, ref |-> None, keep |-> TRUE, rmi |-> FALSE,
         src |-> None, taken |-> {}, secret |-> 0, port |-> 1, rest |-> {}, left |-> {}]

TypeOK ==
    /\ registry \in [Names -> Optional(Entry)]
    /\ tmp \in Optional([Names -> Optional(Entry)])
    /\ root \in [Names -> Optional(Directory)]
    /\ volume \in [Names -> Optional(Volume)]
    /\ container \in [Names -> Optional(Container)]
    /\ local \subseteq Refs
    /\ runtime \in {"missing", "theirs", "ours"} /\ choice \in {None, "detected", "installed"}
    /\ archive \in Optional(Archive)
    /\ \A c \in Clis : /\ DOMAIN cli[c] = DOMAIN Idle
                       /\ cli[c].pc \in Pcs
                       /\ cli[c].n \in Optional(Names) /\ cli[c].ref \in Optional(Refs)
                       /\ cli[c].left \subseteq Names /\ late[c] \subseteq Names
    /\ {begun, faults, fresh} \subseteq Nat
    /\ told \in [Names -> Nat] /\ good \in [Names -> Optional(Refs)] /\ swaps \in [Names -> Nat]
    /\ kept \subseteq Names /\ murky \subseteq Names

Init ==
    /\ registry = [n \in Names |-> None] /\ tmp = None
    /\ root = [n \in Names |-> None]
    /\ volume = [n \in Names |-> None]
    /\ container = [n \in Names |-> None]
    /\ local = {}
    /\ runtime \in {"missing", "theirs"} /\ choice = None
    /\ archive = None
    /\ cli = [c \in Clis |-> Idle]
    /\ begun = 0 /\ faults = 0 /\ fresh = 0
    /\ told = [n \in Names |-> 0] /\ good = [n \in Names |-> None]
    /\ swaps = [n \in Names |-> 0] /\ kept = {} /\ murky = {}
    /\ late = [c \in Clis |-> {}]

-----------------------------------------------------------------------------
(* Reading the machine *)

Registered == {n \in Names : registry[n] # None}
Running(n) == container[n] # None /\ container[n].status = "running"
Bound == {container[n].port : n \in {m \in Names : Running(m)}}
PortsOf(S) == {registry[n].port : n \in S}

\* _next_free(): upwards from the base.
FirstFree(S) == CHOOSE p \in Ports : p \notin S /\ \A q \in 1 .. (p - 1) : q \in S
ModeOf(n) == IF n \in Network THEN "network" ELSE "local"

Empty == [secret |-> 0, key |-> 0, wal |-> "none"]

\* What the program does when its container starts: an empty database gets the
\* secrets of data/.env, another one keeps its own; a left WAL is replayed.
Booted(v, secret) ==
    IF v = None \/ v.secret = 0
    THEN [secret |-> secret, key |-> 0, wal |-> "none"]
    ELSE [v EXCEPT !.wal = IF v.wal = "foreign" THEN "foreign" ELSE "none"]

\* A volume after its container stopped, in good order or killed after a time-out.
Closed(v, clean) ==
    IF v = None \/ clean THEN v ELSE [v EXCEPT !.wal = IF @ = "none" THEN "own" ELSE @]

Fault == faults < MaxFaults /\ faults' = faults + 1
NoFault == UNCHANGED faults
Murky(S) == murky' = murky \cup S

\* n's compose file comes to name an image while a terminal looks who uses it.
ImageOf(n) == IF registry[n] = None \/ root[n] = None THEN None ELSE root[n].image
Watched ==
    late' = [c \in Clis |->
        IF cli[c].pc # "look" THEN late[c]
        ELSE late[c] \cup {n \in Names : ImageOf(n) # cli[c].ref /\ ImageOf(n)' = cli[c].ref}]

Goto(c, p) == cli' = [cli EXCEPT ![c].pc = p]
\* A command that ends, well or with an error; one of a series goes on or gives up.
End(c) == cli' = [cli EXCEPT ![c] = Idle]

\* A command begins.  Two that write the registry, or work on one name, disturb each
\* other: what they touch is marked, and nothing is claimed of it.
Writers == {"create", "remove", "restore", "uninstall"}
Disturbs(command, other) ==
    /\ other.pc # "idle"
    /\ \/ other.n = command.n
       \/ {other.op, command.op} \subseteq Writers
       \/ "uninstall" \in {other.op, command.op}

Begin(c, command) ==
    /\ cli[c].pc = "idle" /\ begun < MaxCommands
    /\ begun' = begun + 1
    /\ cli' = [cli EXCEPT ![c] = command]
    /\ murky' = IF \E d \in Clis : Disturbs(command, cli[d]) THEN Names ELSE murky

-----------------------------------------------------------------------------
(* The container runtime itself: ensure_runtime() *)

\* detect_working_runtime(): one that answers.
Detected == runtime # "missing"

\* The installation plan of the platform, step by step; the operator may decline, a
\* step may fail, and a new runtime may not answer yet.
Installs(works) == runtime' \in IF works THEN {"ours"} ELSE {"missing", "ours"}

\* A working runtime is used and recorded as detected; one it installed as installed.
EnsureRuntime(works) ==
    \/ /\ Detected /\ works
       /\ choice' = "detected" /\ UNCHANGED runtime
    \/ /\ ~Detected /\ Installs(works)
       /\ choice' = IF works THEN "installed" ELSE choice

-----------------------------------------------------------------------------
(* create *)

CreateBegin(c, n, ref, src) ==
    /\ registry[n] = None /\ src \in Optional(Registered)
    /\ \/ /\ EnsureRuntime(TRUE)
          /\ Begin(c, [Idle EXCEPT !.pc = "leftover", !.op = "create", !.n = n, !.ref = ref,
                                   !.src = src, !.taken = PortsOf(Registered)])
       \/ /\ EnsureRuntime(FALSE)
          /\ Begin(c, Idle)
    /\ UNCHANGED <<registry, tmp, files, local, archive, faults, fresh, told, good, swaps, kept,
                   late>>

\* `volume rm` of a set of volumes, one by one: the runtime refuses one that a
\* container uses, and the volumes before it are gone then.
Removable(S) == {m \in S : container[m] = None}
WithoutVolumes(S) == [m \in Names |-> IF m \in S THEN None ELSE volume[m]]

\* Slip: the look for a left volume is dropped.
NoLeftover(n) == {}

Leftover(n) == {m \in Names : <<n, m>> \in Match /\ volume[m] # None}

CreateLeftover(c) ==
    LET n == cli[c].n
        found == Leftover(n)
    IN /\ cli[c].pc = "leftover"
       /\ \/ /\ found = {}
             /\ Goto(c, "files") /\ NoFault /\ UNCHANGED <<volume, kept, murky>>
          \/ /\ found # {} /\ found = Removable(found)      \* "Remove it and continue?" yes
             /\ volume' = WithoutVolumes(found)
             /\ kept' = kept \ {n}
             /\ Goto(c, "files") /\ NoFault /\ UNCHANGED murky
          \/ /\ found # {} /\ found # Removable(found)
             /\ \E S \in SUBSET Removable(found) : volume' = WithoutVolumes(S)
             /\ kept' = kept \ {n}
             /\ End(c) /\ NoFault /\ UNCHANGED murky
          \/ /\ found # {}                                  \* no
             /\ End(c) /\ NoFault /\ UNCHANGED <<volume, kept, murky>>
          \/ /\ Fault                                       \* `volume ls` fails: taken for none
             /\ Goto(c, "files") /\ Murky({n}) /\ UNCHANGED <<volume, kept>>
    /\ UNCHANGED <<registry, tmp, root, container, local, machine, archive, begun, fresh,
                   told, good, swaps, late>>

\* Slip: a port is looked for among the running containers only.
PortOfRunning(c) == FirstFree(Bound)

\* allocate_port_pair(): neither registered nor bound; `taken` was read at the start.
PortFor(c) == FirstFree(cli[c].taken \cup Bound)

CreateFiles(c) ==
    LET n == cli[c].n
        port == PortFor(c)
    IN /\ cli[c].pc = "files"
       /\ fresh' = fresh + 1
       /\ root' = [root EXCEPT ![n] = [image |-> cli[c].ref, previous |-> None, port |-> port,
                                       listen |-> port, secret |-> fresh + 1]]
       /\ cli' = [cli EXCEPT ![c].pc = "add", ![c].port = port, ![c].secret = fresh + 1]
       /\ told' = [told EXCEPT ![n] = 0] /\ good' = [good EXCEPT ![n] = None]
       /\ swaps' = [swaps EXCEPT ![n] = 0]
       /\ UNCHANGED <<registry, tmp, volume, container, local, machine, archive, begun,
                      faults, kept, murky>>
       /\ Watched

\* add_instance(): the registry is read, checked and written to the temporary file,
\* which then replaces it.
AddLoad(c) ==
    LET n == cli[c].n
        mode == IF cli[c].op = "restore" THEN archive.mode ELSE ModeOf(n)
    IN /\ cli[c].pc = "add"
       /\ IF registry[n] # None
          THEN End(c) /\ UNCHANGED tmp
          ELSE /\ tmp' = [registry EXCEPT ![n] = [port |-> cli[c].port, mode |-> mode]]
               /\ Goto(c, "addput")
       /\ UNCHANGED <<registry, files, local, machine, archive, counters, ghosts, late>>

\* The rename fails when another writer has renamed the file meanwhile.
Replace(c, next) ==
    /\ tmp' = None
    /\ IF tmp = None
       THEN End(c) /\ UNCHANGED registry
       ELSE registry' = tmp /\ Goto(c, next)
    /\ UNCHANGED <<files, local, machine, archive, counters, ghosts>>
    /\ Watched

AddPut(c) ==
    /\ cli[c].pc = "addput"
    /\ Replace(c, IF cli[c].op = "restore" THEN "create" ELSE "up")

-----------------------------------------------------------------------------
(* Bringing a container up: compose_up(), wait_for_state(), _failed_state() *)

\* A container that comes up, or exits, or cannot be started because of its port.
Outcome(n) ==
    IF \E m \in Names \ {n} : Running(m) /\ container[m].port = root[n].port THEN "created"
    ELSE IF root[n].image \in Broken THEN "exited" ELSE "running"

\* What it means for the ghosts that a name came up.
CameUp(c, n) ==
    /\ good' = [good EXCEPT ![n] = root[n].image]
    /\ swaps' = [swaps EXCEPT ![n] = 0]
    /\ told' = IF cli[c].op = "create" THEN [told EXCEPT ![n] = cli[c].secret] ELSE told

UpOk(c) ==
    LET n == cli[c].n
        status == Outcome(n)
    IN /\ cli[c].pc = "up" /\ root[n] # None
       /\ container' = [container EXCEPT ![n] =
            [status |-> status, image |-> root[n].image, port |-> root[n].port]]
       /\ volume' = [volume EXCEPT ![n] =
            IF status = "running" THEN Booted(@, root[n].secret)
            ELSE IF @ = None THEN Empty ELSE @]
       /\ local' = local \cup {root[n].image}
       /\ IF status = "running" THEN CameUp(c, n) ELSE UNCHANGED <<good, swaps, told>>
       /\ IF status = "running" /\ cli[c].src # None THEN Goto(c, "import") ELSE End(c)
       /\ UNCHANGED <<registry, tmp, root, machine, archive, counters, kept, murky, late>>

\* The runtime fails or does not answer in time.  Nothing is undone.
UpFails(c) ==
    /\ cli[c].pc = "up"
    /\ Fault \/ (root[cli[c].n] = None /\ NoFault)
    /\ End(c) /\ Murky({cli[c].n})
    /\ UNCHANGED <<registry, tmp, files, local, machine, archive, begun, fresh, told, good,
                   swaps, kept, late>>

-----------------------------------------------------------------------------
(* start, stop, restart: one call of the runtime each; beside another command on the *)
(* same instance they disturb it *)

Marked(n) == IF \E c \in Clis : cli[c].n = n THEN {n} ELSE {}

StartInstance(n) ==
    /\ begun < MaxCommands /\ begun' = begun + 1
    /\ n \in Registered /\ root[n] # None
    /\ container[n] # None /\ ~Running(n)
    /\ LET broken == container[n].image \in Broken
           busy == container[n].port \in Bound
       IN /\ container' = [container EXCEPT ![n].status =
                IF busy THEN @ ELSE IF broken THEN "exited" ELSE "running"]
          /\ volume' = [volume EXCEPT ![n] =
                IF busy \/ broken THEN @ ELSE Booted(@, root[n].secret)]
    /\ Murky(Marked(n))
    /\ UNCHANGED <<registry, tmp, root, local, machine, archive, cli, faults, fresh, told, good,
                   swaps, kept, late>>

\* `compose stop` sends SIGTERM and, when the program is too slow, SIGKILL.
StopInstance(n) ==
    /\ begun < MaxCommands /\ begun' = begun + 1
    /\ n \in Registered /\ root[n] # None /\ Running(n)
    /\ container' = [container EXCEPT ![n].status = "exited"]
    /\ \E clean \in BOOLEAN :
          /\ volume' = [volume EXCEPT ![n] = Closed(@, clean)]
          /\ IF clean THEN NoFault /\ Murky(Marked(n)) ELSE Fault /\ Murky({n})
    /\ UNCHANGED <<registry, tmp, root, local, machine, archive, cli, fresh, told, good,
                   swaps, kept, late>>

\* `compose restart` stops what runs and starts it again, or starts what does not run.
RestartInstance(n) ==
    /\ begun < MaxCommands /\ begun' = begun + 1
    /\ n \in Registered /\ root[n] # None /\ container[n] # None
    /\ Running(n) \/ container[n].port \notin Bound
    /\ LET broken == container[n].image \in Broken
       IN /\ container' = [container EXCEPT ![n].status = IF broken THEN "exited" ELSE "running"]
          /\ volume' = [volume EXCEPT ![n] = IF broken THEN @ ELSE Booted(@, root[n].secret)]
    /\ Murky(Marked(n))
    /\ UNCHANGED <<registry, tmp, root, local, machine, archive, cli, faults, fresh, told, good,
                   swaps, kept, late>>

\* The program in a running container works: it stores an API key, encrypted.
AppWorks(n) ==
    /\ Running(n) /\ root[n] # None /\ volume[n] # None /\ volume[n].key = 0
    /\ volume' = [volume EXCEPT ![n].key = root[n].secret]
    /\ UNCHANGED <<registry, tmp, root, container, local, machine, archive, cli, counters, ghosts,
                   late>>

-----------------------------------------------------------------------------
(* update and --rollback *)

UpdateBegin(c, n, ref) ==
    /\ n \in Registered /\ root[n] # None
    /\ Begin(c, [Idle EXCEPT !.pc = "pull", !.op = "update", !.n = n, !.ref = ref])
    /\ UNCHANGED <<registry, tmp, files, local, machine, archive, faults, fresh, told, good,
                   swaps, kept, late>>

\* rollback_instance(): an update to the reference recorded before the last one.
RollbackBegin(c, n) ==
    /\ n \in Registered /\ root[n] # None /\ root[n].previous # None
    /\ Begin(c, [Idle EXCEPT !.pc = "pull", !.op = "rollback", !.n = n, !.ref = root[n].previous])
    /\ UNCHANGED <<registry, tmp, files, local, machine, archive, faults, fresh, told, good,
                   swaps, kept, late>>

\* pull_image() and its signature check; the old container runs meanwhile.
Pull(c) ==
    /\ cli[c].pc = "pull"
    /\ \/ /\ local' = local \cup {cli[c].ref}
          /\ Goto(c, "stop") /\ NoFault
       \/ /\ Fault /\ End(c) /\ UNCHANGED local
    /\ UNCHANGED <<registry, tmp, files, machine, archive, begun, fresh, ghosts, late>>

StopForUpdate(c) ==
    LET n == cli[c].n
    IN /\ cli[c].pc = "stop"
       /\ \/ /\ root[n] # None
             /\ container' = [container EXCEPT ![n] =
                    IF Running(n) THEN [@ EXCEPT !.status = "exited"] ELSE @]
             /\ Goto(c, "previous") /\ NoFault
          \/ /\ Fault \/ (root[n] = None /\ NoFault)
             /\ End(c) /\ UNCHANGED container
       /\ UNCHANGED <<registry, tmp, root, volume, local, machine, archive, begun, fresh, ghosts,
                      late>>

\* Slip: the reference is recorded after the compose file was rewritten.
PreviousAfterSwap(c) ==
    /\ root' = [root EXCEPT ![cli[c].n].previous = cli[c].ref]

\* set_compose_env_value("PREVIOUS_IMAGE"): what the compose file names now.
RecordPrevious(c) ==
    /\ root' = [root EXCEPT ![cli[c].n].previous = root[cli[c].n].image]

SetPrevious(c) ==
    /\ cli[c].pc = "previous"
    /\ IF root[cli[c].n] = None
       THEN End(c) /\ UNCHANGED <<root, swaps>>
       ELSE /\ RecordPrevious(c)
            /\ swaps' = [swaps EXCEPT ![cli[c].n] = @ + 1]
            /\ Goto(c, "swap")
    /\ UNCHANGED <<registry, tmp, volume, container, local, machine, archive, counters,
                   told, good, kept, murky, late>>

SwapImage(c) ==
    LET n == cli[c].n
    IN /\ cli[c].pc = "swap"
       /\ IF root[n] = None
          THEN End(c) /\ UNCHANGED root
          ELSE root' = [root EXCEPT ![n].image = cli[c].ref] /\ Goto(c, "up")
       /\ UNCHANGED <<registry, tmp, volume, container, local, machine, archive, counters, ghosts>>
       /\ Watched

-----------------------------------------------------------------------------
(* create --import-from: settings of another instance, keys encrypted anew *)

\* The container's own helper reads the stored key, and writes one.
Dumped(n) == volume[n].key
Applied(n, key) == [volume EXCEPT ![n].key = key]

\* A key the source cannot decrypt is left out; without --copy-keys all are.
Copied(from, to) ==
    IF Dumped(from) = root[from].secret THEN root[to].secret ELSE 0

Import(c) ==
    LET n == cli[c].n
        src == cli[c].src
    IN /\ cli[c].pc = "import"
       /\ \/ /\ Running(n) /\ Running(src) /\ root[src] # None /\ root[n] # None
             /\ \E key \in {Dumped(n), Copied(src, n)} : volume' = Applied(n, key)
          \/ UNCHANGED volume          \* the source is not running, or the copy fails
       /\ End(c)
       /\ UNCHANGED <<registry, tmp, root, container, local, machine, archive, counters, ghosts,
                      late>>

-----------------------------------------------------------------------------
(* remove, and the first half of restore --overwrite *)

\* One removal.  Whether the data is kept is settled before anything is torn down.
Removal(op, n, keep, rmi) ==
    [Idle EXCEPT !.pc = IF root[n] = None THEN "unreg" ELSE "down", !.op = op, !.n = n,
                 !.keep = keep, !.rmi = rmi,
                 !.ref = IF root[n] = None THEN None ELSE root[n].image]

Keeping(n, keep) == IF keep /\ volume[n] # None THEN kept \cup {n} ELSE kept \ {n}

RemoveBegin(c, n, keep, rmi) ==
    /\ n \in Registered
    /\ Begin(c, Removal("remove", n, keep, rmi))
    /\ kept' = Keeping(n, keep)
    /\ UNCHANGED <<registry, tmp, files, local, machine, archive, faults, fresh, told, good,
                   swaps, late>>

\* `compose down`, with -v only when the data is to be deleted.
Taken(c) == IF cli[c].keep THEN {} ELSE {cli[c].n}

Down(c) ==
    LET n == cli[c].n
    IN /\ cli[c].pc = "down"
       /\ \/ /\ root[n] # None
             /\ container' = [container EXCEPT ![n] = None]
             /\ \E clean \in BOOLEAN :
                   /\ volume' = [WithoutVolumes(Taken(c)) EXCEPT ![n] =
                         IF Running(n) THEN Closed(@, clean) ELSE @]
                   /\ IF clean THEN NoFault /\ UNCHANGED murky ELSE Fault /\ Murky({n})
             /\ Goto(c, "unreg")
          \/ /\ Fault /\ Murky({n})             \* it fails, which nobody looks at
             /\ Goto(c, "unreg") /\ UNCHANGED <<container, volume>>
          \/ /\ Fault \/ (root[n] = None /\ NoFault)
             /\ Murky({n}) /\ End(c) /\ UNCHANGED <<container, volume>>
       /\ UNCHANGED <<registry, tmp, root, local, machine, archive, begun, fresh, told, good,
                      swaps, kept, late>>

\* registry.remove_instance(): nothing is written for a name that is not there.
Unregister(c) ==
    LET next == IF cli[c].op = "restore" THEN "extract" ELSE "sweep"
    IN /\ cli[c].pc = "unreg"
       /\ IF registry[cli[c].n] = None
          THEN Goto(c, next) /\ UNCHANGED tmp
          ELSE Goto(c, "unregput") /\ tmp' = [registry EXCEPT ![cli[c].n] = None]
       /\ UNCHANGED <<registry, files, local, machine, archive, counters, ghosts, late>>

UnregisterPut(c) ==
    /\ cli[c].pc = "unregput"
    /\ Replace(c, IF cli[c].op = "restore" THEN "extract" ELSE "sweep")

AfterSweep(c) == IF cli[c].rmi THEN "rmi" ELSE "next"

\* The directory, and every volume whose name contains the instance's key.
Sweep(c) ==
    LET n == cli[c].n
    IN /\ cli[c].pc = "sweep"
       /\ IF cli[c].keep
          THEN UNCHANGED <<root, volume>>
          ELSE /\ root' = [root EXCEPT ![n] = None]
               /\ volume' = WithoutVolumes(Removable(Leftover(n)))
       /\ Goto(c, AfterSweep(c))
       /\ UNCHANGED <<registry, tmp, container, local, machine, archive, counters, ghosts, late>>

\* _image_still_in_use(): the registry is read, then one compose file after another.
Rmi(c) ==
    /\ cli[c].pc = "rmi"
    /\ IF cli[c].ref = None
       THEN Goto(c, "next") /\ UNCHANGED late
       ELSE /\ cli' = [cli EXCEPT ![c].pc = "look", ![c].left = Registered]
            /\ late' = [late EXCEPT ![c] = {}]
    /\ UNCHANGED <<registry, tmp, files, local, machine, archive, counters, ghosts>>

\* A compose file that cannot be read counts as a use.
Users(ref) == {m \in Names : root[m] = None \/ root[m].image = ref}

LookForUse(c, m) ==
    /\ cli[c].pc = "look" /\ m \in cli[c].left
    /\ \/ /\ m \notin Users(cli[c].ref) /\ NoFault
          /\ cli' = [cli EXCEPT ![c].left = @ \ {m}]
       \/ /\ (m \in Users(cli[c].ref) /\ NoFault) \/ Fault
          /\ cli' = [cli EXCEPT ![c].pc = "next", ![c].left = {}]
    /\ UNCHANGED <<registry, tmp, files, local, machine, archive, begun, fresh, ghosts, late>>

\* `rmi`, which the runtime refuses for an image some container has.  What a call that
\* times out did is not known.
RemoveImage(c) ==
    LET ref == cli[c].ref
        has == \E m \in Names : container[m] # None /\ container[m].image = ref
    IN /\ cli[c].pc = "look" /\ cli[c].left = {}
       /\ \/ /\ local' = IF has THEN local ELSE local \ {ref}
             /\ Goto(c, "next") /\ NoFault
          \/ /\ local' \in {local, IF has THEN local ELSE local \ {ref}}
             /\ End(c) /\ Fault
       /\ UNCHANGED <<registry, tmp, files, machine, archive, begun, fresh, ghosts, late>>

-----------------------------------------------------------------------------
(* uninstall: every instance that was registered, the runtime, the CLI's own files *)

UninstallBegin(c) ==
    /\ Begin(c, [Idle EXCEPT !.pc = "next", !.op = "uninstall", !.rest = Registered])
    /\ UNCHANGED <<registry, tmp, files, local, machine, archive, faults, fresh, told, good,
                   swaps, kept, late>>

RemovalEnds(c) ==
    /\ cli[c].pc = "next" /\ cli[c].op = "remove"
    /\ End(c)
    /\ UNCHANGED <<registry, tmp, files, local, machine, archive, counters, ghosts, late>>

\* Each removal asks for itself; one that fails ends the uninstallation.
UninstallNext(c, n, keep, rmi) ==
    /\ cli[c].pc = "next" /\ n \in cli[c].rest
    /\ IF n \in Registered
       THEN /\ cli' = [cli EXCEPT ![c] = [Removal("uninstall", n, keep, rmi)
                                             EXCEPT !.rest = cli[c].rest \ {n}]]
            /\ kept' = Keeping(n, keep)
       ELSE End(c) /\ UNCHANGED kept
    /\ UNCHANGED <<registry, tmp, files, local, machine, archive, counters, told, good, swaps,
                   murky, late>>

\* Only a runtime recorded as installed may be removed.
RuntimeIsOurs == choice = "installed"

\* The config directory goes at the end: registry, temporary file, runtime record.
UninstallEnds(c) ==
    /\ cli[c].pc = "next" /\ cli[c].op = "uninstall" /\ cli[c].rest = {}
    /\ \E agreed \in BOOLEAN :
          runtime' = IF agreed /\ RuntimeIsOurs THEN "missing" ELSE runtime
    /\ choice' = None /\ tmp' = None
    /\ registry' = [n \in Names |-> None]
    /\ End(c)
    /\ UNCHANGED <<files, local, archive, counters, ghosts, late>>

-----------------------------------------------------------------------------
(* backup and restore *)

\* Taken by the program in the container, so that the log is part of it.
Snapshot(n) == [volume[n] EXCEPT !.wal = "none"]

\* An archive that opens: right passphrase, known format, every checksum right.
Archived == archive # None

Backup(n) ==
    /\ ~Archived
    /\ n \in Registered /\ root[n] # None /\ Running(n) /\ volume[n] # None
    /\ n \notin murky
    /\ archive' = [n |-> n, mode |-> registry[n].mode, dir |-> root[n], db |-> Snapshot(n)]
    /\ UNCHANGED <<registry, tmp, files, local, machine, cli, counters, ghosts, late>>

\* A name that is registered is overwritten, or the restore is refused.
RestoreBegin(c, n) ==
    /\ Archived
    /\ Begin(c, [Idle EXCEPT !.pc = IF n \in Registered THEN "down" ELSE "extract",
                             !.op = "restore", !.n = n])
    /\ UNCHANGED <<registry, tmp, files, local, machine, archive, faults, fresh, told, good,
                   swaps, kept, late>>

Extract(c) ==
    LET n == cli[c].n
    IN /\ cli[c].pc = "extract"
       /\ root' = [root EXCEPT ![n] = archive.dir]
       /\ told' = [told EXCEPT ![n] = 0] /\ good' = [good EXCEPT ![n] = None]
       /\ swaps' = [swaps EXCEPT ![n] = 0]
       /\ Goto(c, "adjust")
       /\ UNCHANGED <<registry, tmp, volume, container, local, machine, archive, counters, kept,
                      murky>>
       /\ Watched

TakenPorts(n) == PortsOf(Registered \ {n}) \cup Bound

\* Other ports for a local instance whose own are taken; with them, or under a new
\* name, the compose files are written anew, and PREVIOUS_IMAGE is lost.
\* MCP_PORT in data/.env is left as it was.
Adjust(c) ==
    LET n == cli[c].n
        moved == archive.mode = "local" /\ root[n].port \in TakenPorts(n)
        port == IF moved THEN FirstFree(TakenPorts(n)) ELSE root[n].port
    IN /\ cli[c].pc = "adjust" /\ root[n] # None
       /\ \/ /\ EnsureRuntime(TRUE)
             /\ root' = [root EXCEPT ![n].port = port,
                   ![n].previous = IF moved \/ n # archive.n THEN None ELSE @]
             /\ cli' = [cli EXCEPT ![c].pc = "add", ![c].port = port]
          \/ /\ EnsureRuntime(FALSE)
             /\ End(c) /\ UNCHANGED root
       /\ UNCHANGED <<registry, tmp, volume, container, local, archive, counters, ghosts, late>>

\* `compose create`: the container exists and the volume with it; nothing runs yet.
CreateContainer(c) ==
    LET n == cli[c].n
    IN /\ cli[c].pc = "create"
       /\ \/ /\ root[n] # None
             /\ container' = [container EXCEPT ![n] =
                   [status |-> "created", image |-> root[n].image, port |-> root[n].port]]
             /\ volume' = [volume EXCEPT ![n] = IF @ = None THEN Empty ELSE @]
             /\ local' = local \cup {root[n].image}
             /\ Goto(c, "cp") /\ NoFault /\ UNCHANGED murky
          \/ /\ Fault \/ (root[n] = None /\ NoFault)
             /\ End(c) /\ Murky({n}) /\ UNCHANGED <<container, volume, local>>
       /\ UNCHANGED <<registry, tmp, root, machine, archive, begun, fresh, told, good, swaps,
                      kept, late>>

\* Slip: the copy does not replace a database that is there.
CopiedInto(v) == IF v.secret = 0 THEN [archive.db EXCEPT !.wal = v.wal] ELSE v

\* `cp` replaces the database; a log an earlier container left stays beside it.
Restored(v) == [archive.db EXCEPT !.wal = IF v.wal = "none" THEN "none" ELSE "foreign"]

CopyData(c) ==
    LET n == cli[c].n
    IN /\ cli[c].pc = "cp"
       /\ \/ /\ volume[n] # None
             /\ volume' = [volume EXCEPT ![n] = Restored(@)]
             /\ kept' = kept \ {n}
             /\ \/ Goto(c, "up")
                \/ End(c)                             \* --no-up
             /\ NoFault /\ UNCHANGED murky
          \/ /\ Fault \/ (volume[n] = None /\ NoFault)
             /\ End(c) /\ Murky({n}) /\ UNCHANGED <<volume, kept>>
       /\ UNCHANGED <<registry, tmp, root, container, local, machine, archive, begun, fresh, told,
                      good, swaps, late>>

-----------------------------------------------------------------------------
(* The operator *)

\* A command is interrupted wherever it is; what it did stays.
Interrupt(c) ==
    /\ cli[c].pc # "idle" /\ Fault
    /\ End(c) /\ Murky(cli[c].rest \cup ({cli[c].n} \ {None}))
    /\ UNCHANGED <<registry, tmp, files, local, machine, archive, begun, fresh, told, good,
                   swaps, kept, late>>

Next ==
    \/ \E n \in Names :
        StartInstance(n) \/ StopInstance(n) \/ RestartInstance(n) \/ AppWorks(n) \/ Backup(n)
    \/ \E c \in Clis :
        \/ \E n \in Names, ref \in Refs, src \in Optional(Names) : CreateBegin(c, n, ref, src)
        \/ \E n \in Names, ref \in Refs : UpdateBegin(c, n, ref)
        \/ \E n \in Names : RollbackBegin(c, n) \/ RestoreBegin(c, n)
        \/ \E n \in Names, keep \in BOOLEAN, rmi \in BOOLEAN :
              RemoveBegin(c, n, keep, rmi) \/ UninstallNext(c, n, keep, rmi)
        \/ CreateLeftover(c) \/ CreateFiles(c) \/ AddLoad(c) \/ AddPut(c)
        \/ UpOk(c) \/ UpFails(c) \/ Import(c)
        \/ Pull(c) \/ StopForUpdate(c) \/ SetPrevious(c) \/ SwapImage(c)
        \/ Down(c) \/ Unregister(c) \/ UnregisterPut(c) \/ Sweep(c) \/ RemovalEnds(c)
        \/ Rmi(c) \/ RemoveImage(c)
        \/ \E m \in Names : LookForUse(c, m)
        \/ UninstallBegin(c) \/ UninstallEnds(c)
        \/ Extract(c) \/ Adjust(c) \/ CreateContainer(c) \/ CopyData(c)
        \/ Interrupt(c)

Spec == Init /\ [][Next]_vars

-----------------------------------------------------------------------------
(* Properties *)

Sound(n) == n \notin murky

\* The password `create` printed is the one the instance's database answers to, for
\* as long as that database lives: never an older database's own.
ToldPasswordWorks ==
    \A n \in Names : Sound(n) /\ told[n] # 0 /\ volume[n] # None => volume[n].secret = told[n]

\* A running instance can read what its database holds encrypted: neither a restore,
\* nor an update, nor an import leaves it with another key than data/.env names.
KeysReadable ==
    \A n \in Names : Sound(n) /\ Running(n) =>
        /\ root[n] # None /\ volume[n] # None
        /\ volume[n].secret = root[n].secret
        /\ volume[n].key \in {0, root[n].secret}

\* Data the operator chose to keep stays, whatever is created, updated, removed or
\* uninstalled, until the operator agrees to lose it for that very name; unless
\* some other instance's volume filter shows it too.
KeptDataStays ==
    \A n \in kept :
        Sound(n) /\ (\A m \in Names : <<m, n>> \in Match => m = n) => volume[n] # None

\* After an update that did not come up the image that worked is still named, as the
\* current image or as the one a rollback goes to.
GoodImageKept ==
    \A n \in Names : Sound(n) /\ good[n] # None /\ root[n] # None /\ swaps[n] <= 1 =>
        good[n] \in {root[n].image, root[n].previous}

\* No two local instances are registered on the same ports.
LocalPortsApart ==
    \A n, m \in Registered : n # m /\ Sound(n) /\ Sound(m) =>
        registry[n].mode = "network" \/ registry[m].mode = "network"
        \/ registry[n].port # registry[m].port

\* A container runs only for a registered instance, or one a command is removing.
NoOrphans ==
    \A n \in Names : Sound(n) /\ Running(n) => n \in Registered

\* An image leaves the machine only when no registered instance's compose file names it,
\* other than one that came to name it while the removal looked.
ImageKeptFrom(c) ==
    \A ref \in local \ local', n \in Names : ImageOf(n) = ref => n \in late[c]
ImageInUseKept ==
    [][\A c \in Clis : cli'[c] # cli[c] => ImageKeptFrom(c)]_vars

\* _image_still_in_use() says an image is never pulled out from under a sibling instance,
\* and remove_image() that no other registered instance's compose file still names it.  This
\* does not hold: one may come to name it while the removal looks.
ImageNeverPulledOut == [][\A ref \in local \ local', n \in Names : ImageOf(n) # ref]_vars

\* The container runtime is removed only if the CLI installed it.
OnlyOursRemoved ==
    [][runtime # "missing" /\ runtime' = "missing" => runtime = "ours"]_vars

\* A restore that ends with the instance up gives the archive's data back, whole.
RestoreGivesBack ==
    [][\A c \in Clis :
         LET n == cli[c].n
         IN /\ cli[c].op = "restore" /\ cli[c].pc = "up" /\ cli'[c].pc = "idle"
            /\ n \notin murky' /\ container'[n].status = "running"
            => volume'[n] = [archive.db EXCEPT !.wal = "none"]]_vars

\* docs/backup-restore.md: once the data is copied in, it is fully restored, also when
\* the instance is not brought up.  This does not hold: the log of a container that did not
\* close its database stays beside it.
RestoredInFull ==
    [][\A c \in Clis :
         /\ cli[c].op = "restore" /\ cli[c].pc = "cp" /\ cli'[c].pc = "up"
         => volume'[cli[c].n] = archive.db]_vars

\* docs/job-squire-cli.md: removing an instance never silently destroys someone's data:
\* the volumes a removal deletes are the instance's own.  This does not hold: the filter
\* matches parts of names.
RemovalSparesOthers ==
    [][\A c \in Clis, m \in Names :
         /\ cli[c].op = "remove" /\ cli[c].pc = "sweep" /\ cli'[c].pc # "sweep"
         /\ volume[m] # None /\ volume'[m] = None
         => m = cli[c].n]_vars

\* remove_instance() tears the container down, then updates the registry.  This does not
\* hold: the result of `compose down` is not looked at.
RemovedIsDown ==
    [][\A c \in Clis :
         /\ cli[c].op = "remove" /\ cli[c].pc # "sweep" /\ cli'[c].pc = "sweep"
         => ~Running(cli[c].n)]_vars

\* The registry knows every container that runs, and no two local instances share a
\* port, for the names that are Sound.
RegistryTrue == TypeOK /\ LocalPortsApart /\ NoOrphans

\* An instance opens its own data, and data the operator kept stays until they agree to
\* lose it, for the names that are Sound.
DataKept == ToldPasswordWorks /\ KeysReadable /\ KeptDataStays

\* No command removes an image or a runtime that is not its own to remove, and a
\* restore gives back all the archive holds.
NothingNeededLost == ImageInUseKept /\ OnlyOursRemoved /\ RestoreGivesBack
=============================================================================
