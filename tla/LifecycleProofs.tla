--------------------------- MODULE LifecycleProofs ---------------------------
(***************************************************************************)
(* Theorems about Lifecycle, for any number of terminals, names, image     *)
(* references and commands, with calls of the container runtime that fail  *)
(* and commands that are interrupted.                                      *)
(*                                                                         *)
(* The invariant IInv has four parts: the types of all the state, terminal *)
(* by terminal and store by store (Typed); that no two commands disturb    *)
(* each other unless everything is murky (Alone); what a command that      *)
(* writes the registry knows of it (Written); and for each name that is    *)
(* Sound, what the command at work on it has done to it (NamesRight).      *)
(* Each action keeps them: in <action>Typed the first, in <action>Treats   *)
(* all four.                                                               *)
(***************************************************************************)
EXTENDS Lifecycle, FiniteSetTheorems, TLAPS

(***************************************************************************)
(* Ports: there is always a free one                                       *)
(***************************************************************************)
LEMMA NamesFinite == IsFiniteSet(Names) /\ Cardinality(Names) \in Nat
  BY LifecycleAssumption, FS_CardinalityType

(* The ports are numbers, and there are more of them than two sets of one  *)
(* port per name can hold.                                                 *)
LEMMA PortsAreNumbers ==
    /\ Ports \subseteq Nat /\ 1 \in Ports
    /\ IsFiniteSet(Ports) /\ Cardinality(Ports) = 2 * Cardinality(Names) + 1
<1>1. Cardinality(Names) \in Nat
  BY NamesFinite
<1>2. \A b \in Int : IsFiniteSet(1 .. b) /\ Cardinality(1 .. b) = IF 1 > b THEN 0 ELSE b - 1 + 1
  BY ONLY FS_Interval
<1>3. 2 * Cardinality(Names) + 1 \in Int
  BY <1>1
<1>4. IsFiniteSet(Ports) /\ Cardinality(Ports) = 2 * Cardinality(Names) + 1
  BY <1>1, <1>2, <1>3 DEF Ports
<1> QED
  BY <1>1, <1>4 DEF Ports

(* A set of numbers that is not empty has a least element.                 *)
LEMMA Least ==
    ASSUME NEW S, S \subseteq Nat, IsFiniteSet(S), S # {}
    PROVE  \E x \in S : \A y \in S : x <= y
<1> DEFINE Below(x) == {y \in S : y <= x}
<1> DEFINE T == {Below(x) : x \in S}
<1>1. T # {}
  OBVIOUS
<1>2. T \subseteq FiniteSubsetsOf(S)
  <2>1. \A x \in S : IsFiniteSet(Below(x)) /\ Below(x) \subseteq S
    BY FS_Subset
  <2> QED
    BY <2>1 DEF FiniteSubsetsOf
<1>3. PICK A \in T : \A B \in T : ~(<<B, A>> \in StrictSubsetOrdering(S))
  BY <1>1, <1>2, FS_StrictSubsetOrderingWellFounded, WFMin
<1>4. PICK x \in S : A = Below(x)
  BY <1>3
<1>5. \A y \in S : Below(y) \in T /\ Below(y) \subseteq S
  OBVIOUS
<1>6. x \in Below(x)
  OBVIOUS
<1>7. ASSUME NEW y \in S, ~(x <= y)
      PROVE  Below(y) \subseteq Below(x) /\ x \notin Below(y)
  <2>1. \A z \in S : z \in Nat
    OBVIOUS
  <2>2. \A z \in S : z <= y => z <= x
    BY <1>7, <2>1
  <2> HIDE DEF T
  <2> QED
    BY <1>7, <2>2
<1> HIDE DEF Below, T
<1>8. ASSUME NEW y \in S, ~(x <= y)
      PROVE  FALSE
  <2>1. Below(y) # A /\ Below(y) \subseteq A /\ Below(y) \in T /\ A \subseteq S
    BY <1>4, <1>5, <1>6, <1>7, <1>8
  <2>2. <<Below(y), A>> \in StrictSubsetOrdering(S)
    BY <2>1 DEF StrictSubsetOrdering
  <2> QED
    BY <1>3, <2>1, <2>2
<1> QED
  BY <1>8

(* The first free port is a port, and is free, whenever the taken ones are *)
(* few enough.                                                             *)
LEMMA FreePort ==
    ASSUME NEW S, IsFiniteSet(S), Cardinality(S) <= 2 * Cardinality(Names)
    PROVE  FirstFree(S) \in Ports /\ FirstFree(S) \notin S
<1> DEFINE T == Ports \ S
<1>1. T # {}
  <2> SUFFICES ASSUME T = {} PROVE FALSE
    OBVIOUS
  <2>1. Ports \in SUBSET S
    OBVIOUS
  <2>2. Cardinality(Ports) <= Cardinality(S)
    BY <2>1, FS_Subset
  <2>3. Cardinality(S) \in Nat
    BY FS_CardinalityType
  <2> QED
    BY <2>2, <2>3, NamesFinite, PortsAreNumbers
<1>2. T \subseteq Nat /\ IsFiniteSet(T)
  BY PortsAreNumbers, FS_Subset
<1>3. PICK p \in T : \A q \in T : p <= q
  BY <1>1, <1>2, Least
<1>4. \A q \in 1 .. (p - 1) : q \in S
  BY <1>2, <1>3, NamesFinite DEF Ports
<1>5. p \in Ports /\ p \notin S
  BY <1>3
<1> QED
  BY <1>4, <1>5 DEF FirstFree

(* No more ports are registered, and no more are bound, than there are     *)
(* names.                                                                  *)
LEMMA Image ==
    ASSUME NEW S \in SUBSET Names, NEW f \in [S -> Ports], NEW T, T = {f[n] : n \in S}
    PROVE  IsFiniteSet(T) /\ Cardinality(T) <= Cardinality(Names)
<1>1. IsFiniteSet(S) /\ Cardinality(S) <= Cardinality(Names)
  BY NamesFinite, FS_Subset
<1>2. f \in Surjection(S, T)
  BY DEF Surjection
<1>3. IsFiniteSet(T) /\ Cardinality(T) <= Cardinality(S)
  BY <1>1, <1>2, FS_Surjection
<1>4. Cardinality(S) \in Nat /\ Cardinality(T) \in Nat
  BY <1>1, <1>3, FS_CardinalityType
<1> QED
  BY <1>1, <1>3, <1>4, NamesFinite

(* The registry records at most one port per name.                         *)
LEMMA PortsRegistered ==
    ASSUME NEW S \in SUBSET Registered, registry \in [Names -> Optional(Entry)]
    PROVE  /\ PortsOf(S) \subseteq Ports /\ IsFiniteSet(PortsOf(S))
           /\ Cardinality(PortsOf(S)) <= Cardinality(Names)
<1> DEFINE f == [n \in S |-> registry[n].port]
<1>1. \A n \in S : n \in Names /\ registry[n] \in Entry
  BY DEF Registered, Optional
<1>2. \A n \in S : registry[n].port \in Ports
  BY <1>1 DEF Entry
<1>3. f \in [S -> Ports] /\ PortsOf(S) = {f[n] : n \in S}
  BY <1>2 DEF PortsOf
<1>4. S \in SUBSET Names
  BY <1>1
<1> HIDE DEF f
<1>5. IsFiniteSet(PortsOf(S)) /\ Cardinality(PortsOf(S)) <= Cardinality(Names)
  BY <1>3, <1>4, Image
<1> QED
  BY <1>2, <1>5 DEF PortsOf

(* The containers bind at most one port per name.                          *)
LEMMA PortsBound ==
    ASSUME container \in [Names -> Optional(Container)]
    PROVE  Bound \subseteq Ports /\ IsFiniteSet(Bound) /\ Cardinality(Bound) <= Cardinality(Names)
<1> DEFINE S == {m \in Names : Running(m)}
<1> DEFINE f == [n \in S |-> container[n].port]
<1>1. \A n \in S : n \in Names /\ container[n] \in Container
  BY DEF Running, Optional
<1>2. \A n \in S : container[n].port \in Ports
  BY <1>1 DEF Container
<1>3. f \in [S -> Ports] /\ Bound = {f[n] : n \in S}
  BY <1>2 DEF Bound
<1>4. S \in SUBSET Names
  OBVIOUS
<1>5. Bound \subseteq Ports
  BY <1>2 DEF Bound
<1> HIDE DEF f, S
<1>6. IsFiniteSet(Bound) /\ Cardinality(Bound) <= Cardinality(Names)
  BY <1>3, <1>4, Image
<1> QED
  BY <1>5, <1>6

(* Two sets of at most one element per name leave a port over.             *)
LEMMA TwoSets ==
    ASSUME NEW S, NEW T, IsFiniteSet(S), IsFiniteSet(T),
           Cardinality(S) <= Cardinality(Names), Cardinality(T) <= Cardinality(Names)
    PROVE  IsFiniteSet(S \cup T) /\ Cardinality(S \cup T) <= 2 * Cardinality(Names)
<1>1. /\ IsFiniteSet(S \cup T)
      /\ Cardinality(S \cup T) = Cardinality(S) + Cardinality(T) - Cardinality(S \cap T)
  BY FS_Union
<1>2. IsFiniteSet(S \cap T)
  BY FS_Subset
<1>3. Cardinality(S) \in Nat /\ Cardinality(T) \in Nat /\ Cardinality(S \cap T) \in Nat
  BY <1>2, FS_CardinalityType
<1> QED
  BY <1>1, <1>3, NamesFinite

(***************************************************************************)
(* Types: what a terminal is doing                                         *)
(***************************************************************************)
Ops == {"none", "create", "update", "rollback", "remove", "uninstall", "restore"}
WorkSet == [pc : Pcs, op : Ops, n : Optional(Names), ref : Optional(Refs), keep : BOOLEAN,
            rmi : BOOLEAN, src : Optional(Names), taken : SUBSET Ports, secret : Nat,
            port : Ports, rest : SUBSET Names, left : SUBSET Names]

CreatePcs == {"leftover", "files", "add", "addput", "up", "import"}
UpdatePcs == {"pull", "stop", "previous", "swap", "up"}
RemovePcs == {"down", "unreg", "unregput", "sweep", "rmi", "look", "next"}
RestorePcs == {"down", "unreg", "unregput", "extract", "adjust", "add", "addput", "create",
               "cp", "up"}

Shaped(w) ==
    \/ w = Idle
    \/ w.op = "create" /\ w.pc \in CreatePcs /\ w.n \in Names /\ w.ref \in Refs
    \/ /\ w.op \in {"update", "rollback"} /\ w.pc \in UpdatePcs
       /\ w.n \in Names /\ w.ref \in Refs /\ w.src = None
    \/ /\ w.op \in {"remove", "uninstall"} /\ w.pc \in RemovePcs /\ w.src = None
       /\ w.n \in Names \/ (w.op = "uninstall" /\ w.pc = "next")
    \/ w.op = "restore" /\ w.pc \in RestorePcs /\ w.n \in Names /\ w.src = None /\ w.keep

CliTyped ==
    /\ cli \in [Clis -> WorkSet]
    /\ \A c \in Clis : /\ Shaped(cli[c])
                       /\ cli[c].op = "restore" => archive # None
                       /\ Cardinality(cli[c].taken) <= Cardinality(Names)

(* A terminal that does nothing is well formed.                            *)
LEMMA IdleIsWork ==
    /\ Idle \in WorkSet /\ Shaped(Idle) /\ Cardinality(Idle.taken) <= Cardinality(Names)
    /\ Idle.pc = "idle" /\ Idle.op = "none" /\ Idle.n = None /\ Idle.src = None
<1>1. Idle \in WorkSet
  BY PortsAreNumbers DEF Idle, WorkSet, Pcs, Ops, Optional
<1>2. Cardinality(Idle.taken) <= Cardinality(Names)
  BY FS_EmptySet, NamesFinite DEF Idle
<1> QED
  BY <1>1, <1>2 DEF Idle, Shaped

(* A step of one terminal: to any well-formed state, on to another place   *)
(* of its command, or to its end.                                          *)
LEMMA Becomes ==
    ASSUME CliTyped, NEW c \in Clis, NEW v, cli' = [cli EXCEPT ![c] = v],
           v \in WorkSet, Shaped(v), v.op = "restore" => archive' # None,
           Cardinality(v.taken) <= Cardinality(Names),
           archive # None => archive' # None
    PROVE  CliTyped'
<1>1. cli' \in [Clis -> WorkSet]
  BY DEF CliTyped
<1>2. ASSUME NEW d \in Clis
      PROVE  /\ Shaped(cli'[d])
             /\ cli'[d].op = "restore" => archive' # None
             /\ Cardinality(cli'[d].taken) <= Cardinality(Names)
  <2>1. CASE d = c
    BY <2>1 DEF CliTyped
  <2>2. CASE d # c
    <3>1. cli'[d] = cli[d]
      BY <2>2 DEF CliTyped
    <3> QED
      BY <3>1 DEF CliTyped
  <2> QED
    BY <2>1, <2>2
<1>3. \A d \in Clis : Shaped(cli'[d]) <=> Shaped(cli[d])'
  BY DEF Shaped
<1> QED
  BY <1>1, <1>2, <1>3 DEF CliTyped

(* A terminal that ends its command stays well formed.                     *)
LEMMA Ends ==
    ASSUME CliTyped, NEW c \in Clis, End(c), archive # None => archive' # None
    PROVE  CliTyped'
<1>1. cli' = [cli EXCEPT ![c] = Idle]
  BY DEF End
<1> QED
  BY <1>1, Becomes, IdleIsWork

PlacesOf(op) ==
    CASE op = "create" -> CreatePcs
      [] op \in {"update", "rollback"} -> UpdatePcs
      [] op \in {"remove", "uninstall"} -> RemovePcs
      [] op = "restore" -> RestorePcs
      [] OTHER -> {"idle"}

(* A terminal that goes on to another place of its command stays well      *)
(* formed.                                                                 *)
LEMMA Goes ==
    ASSUME CliTyped, NEW c \in Clis, NEW p, Goto(c, p), cli[c].pc # "idle",
           p \in PlacesOf(cli[c].op), archive # None => archive' # None,
           p = "next" \/ cli[c].pc # "next"
    PROVE  CliTyped'
<1> DEFINE v == [cli[c] EXCEPT !.pc = p]
<1>1. cli[c] \in WorkSet /\ Shaped(cli[c])
  BY DEF CliTyped
<1>2. cli' = [cli EXCEPT ![c] = v]
  BY DEF Goto
<1>3. cli[c] # Idle
  BY IdleIsWork
<1>4. p \in Pcs
  BY <1>1 DEF WorkSet, PlacesOf, Ops, Pcs, CreatePcs, UpdatePcs, RemovePcs, RestorePcs
<1>5. v \in WorkSet
  BY <1>1, <1>4 DEF WorkSet
<1>6. /\ v.pc = p /\ v.op = cli[c].op /\ v.n = cli[c].n /\ v.ref = cli[c].ref
      /\ v.src = cli[c].src /\ v.keep = cli[c].keep /\ v.taken = cli[c].taken
  BY <1>1 DEF WorkSet
<1> HIDE DEF v
<1>7. Shaped(v)
  BY <1>1, <1>3, <1>6 DEF Shaped, PlacesOf
<1>8. Cardinality(v.taken) <= Cardinality(Names) /\ (v.op = "restore" => archive' # None)
  BY <1>6 DEF CliTyped
<1> QED
  BY <1>2, <1>5, <1>7, <1>8, Becomes

(* A step of no terminal keeps the terminals well formed.                  *)
LEMMA Stays ==
    ASSUME CliTyped, UNCHANGED cli, archive # None => archive' # None
    PROVE  CliTyped'
  BY DEF CliTyped, Shaped

(***************************************************************************)
(* Types: the machine, and what they need                                  *)
(***************************************************************************)
(* A container has its volume; a directory has its secret; an archive      *)
(* holds a database its own key opens, with no log beside it.              *)
HasVolume == \A n \in Names : container[n] # None => volume[n] # None
HasSecret == \A n \in Names : root[n] # None => root[n].secret > 0
GoodArchive == archive # None =>
    /\ archive.dir.secret > 0
    /\ archive.db.secret = archive.dir.secret
    /\ archive.db.key \in {0, archive.dir.secret}
    /\ archive.db.wal = "none"

StoreTyped ==
    /\ registry \in [Names -> Optional(Entry)]
    /\ tmp \in Optional([Names -> Optional(Entry)])
    /\ root \in [Names -> Optional(Directory)]
    /\ volume \in [Names -> Optional(Volume)]
    /\ container \in [Names -> Optional(Container)]
    /\ local \subseteq Refs
    /\ archive \in Optional(Archive)
    /\ HasVolume /\ HasSecret /\ GoodArchive

RestTyped ==
    /\ runtime \in {"missing", "theirs", "ours"} /\ choice \in {None, "detected", "installed"}
    /\ {begun, faults, fresh} \subseteq Nat
    /\ told \in [Names -> Nat] /\ good \in [Names -> Optional(Refs)] /\ swaps \in [Names -> Nat]
    /\ kept \subseteq Names /\ murky \subseteq Names
    /\ choice = "installed" => runtime # "theirs"

Typed == CliTyped /\ StoreTyped /\ RestTyped

(* What is known of names that came late is of names.                      *)
LateTyped == late \in [Clis -> SUBSET Names]

(* The strengthened types imply the type invariant that the run checks.    *)
LEMMA TypedIsTypeOK == Typed /\ LateTyped => TypeOK
<1> SUFFICES ASSUME Typed, LateTyped PROVE TypeOK
  OBVIOUS
<1>1. ASSUME NEW c \in Clis
      PROVE  /\ DOMAIN cli[c] = DOMAIN Idle
             /\ cli[c].pc \in Pcs
             /\ cli[c].n \in Optional(Names) /\ cli[c].ref \in Optional(Refs)
             /\ cli[c].left \subseteq Names /\ late[c] \subseteq Names
  <2>1. cli[c] \in WorkSet
    BY DEF Typed, CliTyped
  <2> QED
    BY <2>1 DEF WorkSet, Idle, LateTyped
<1> QED
  BY <1>1 DEF Typed, StoreTyped, RestTyped, TypeOK

(* The value that stands for nothing is none of the others.                *)
LEMMA Nones ==
    /\ None \notin Names /\ None \notin Refs /\ None # "installed" /\ None # "detected"
    /\ None \notin Entry /\ None \notin Directory /\ None \notin Volume
    /\ None \notin Container /\ None \notin Archive
    /\ None \notin [Names -> Optional(Entry)]
  BY LifecycleAssumption

(* Which command a terminal is at work on follows from where it is.        *)
LEMMA Places ==
    ASSUME CliTyped, NEW c \in Clis
    PROVE  /\ cli[c] \in WorkSet
           /\ cli[c].pc \notin {"idle", "next"} => cli[c].n \in Names
           /\ cli[c].pc \in {"leftover", "files", "import"} => cli[c].op = "create"
           /\ cli[c].pc \in {"leftover", "files"} => cli[c].ref \in Refs
           /\ cli[c].pc \in {"add", "addput"} => cli[c].op \in {"create", "restore"}
           /\ cli[c].pc = "up" => cli[c].op \in {"create", "update", "rollback", "restore"}
           /\ cli[c].pc \in {"pull", "stop", "previous", "swap"}
                => cli[c].op \in {"update", "rollback"} /\ cli[c].ref \in Refs
           /\ cli[c].pc \in {"down", "unreg", "unregput"}
                => cli[c].op \in {"remove", "uninstall", "restore"}
           /\ cli[c].pc \in {"sweep", "rmi", "look", "next"}
                => cli[c].op \in {"remove", "uninstall"}
           /\ cli[c].pc \in {"extract", "adjust", "create", "cp"} => cli[c].op = "restore"
           /\ cli[c].op # "create" => cli[c].src = None
           /\ cli[c].op = "restore" => cli[c].keep /\ archive # None
           /\ cli[c].op = "remove" => cli[c].n \in Names
           /\ (cli[c].pc = "idle" <=> cli[c].op = "none") /\ (cli[c].pc = "idle" => cli[c] = Idle)
<1>1. cli[c] \in WorkSet /\ Shaped(cli[c]) /\ (cli[c].op = "restore" => archive # None)
  BY DEF CliTyped
<1> QED
  BY <1>1, IdleIsWork DEF Shaped, CreatePcs, UpdatePcs, RemovePcs, RestorePcs, Writers

(* What a terminal that goes on takes along.                               *)
LEMMA GotoFacts ==
    ASSUME CliTyped, NEW c \in Clis, NEW p, Goto(c, p)
    PROVE  /\ cli'[c].pc = p /\ cli'[c].op = cli[c].op /\ cli'[c].n = cli[c].n
           /\ cli'[c].ref = cli[c].ref /\ cli'[c].keep = cli[c].keep /\ cli'[c].src = cli[c].src
           /\ cli'[c].taken = cli[c].taken /\ cli'[c].secret = cli[c].secret
           /\ cli'[c].port = cli[c].port /\ cli'[c].rest = cli[c].rest
           /\ \A d \in Clis \ {c} : cli'[d] = cli[d]
<1>1. cli[c] \in WorkSet
  BY Places
<1>2. cli'[c] = [cli[c] EXCEPT !.pc = p] /\ \A d \in Clis \ {c} : cli'[d] = cli[d]
  BY DEF Goto, CliTyped
<1> QED
  BY <1>1, <1>2 DEF WorkSet

(* A terminal that ends its command does nothing, and no other terminal    *)
(* moves.                                                                  *)
LEMMA EndFacts ==
    ASSUME CliTyped, NEW c \in Clis, End(c)
    PROVE  cli'[c] = Idle /\ \A d \in Clis \ {c} : cli'[d] = cli[d]
  BY DEF End, CliTyped

(* The app's first start on a volume leaves a volume.                      *)
LEMMA BootedIsVolume ==
    ASSUME NEW v \in Optional(Volume), NEW s \in Nat
    PROVE  Booted(v, s) \in Volume
<1>1. CASE v = None \/ v.secret = 0
  BY <1>1 DEF Booted, Volume
<1>2. CASE ~(v = None \/ v.secret = 0)
  BY <1>2 DEF Booted, Volume, Optional
<1> QED
  BY <1>1, <1>2

(* A container that stops leaves a volume, the same one if it stopped      *)
(* cleanly.                                                                *)
LEMMA ClosedIsVolume ==
    ASSUME NEW v \in Optional(Volume), NEW clean \in BOOLEAN
    PROVE  /\ Closed(v, clean) \in Optional(Volume)
           /\ Closed(v, clean) = None <=> v = None
           /\ clean => Closed(v, clean) = v
<1>1. CASE v = None \/ clean
  BY <1>1 DEF Closed
<1>2. CASE ~(v = None \/ clean)
  <2>1. v \in Volume
    BY <1>2 DEF Optional
  <2>2. Closed(v, clean) = [v EXCEPT !.wal = IF @ = "none" THEN "own" ELSE @]
    BY <1>2 DEF Closed
  <2>3. Closed(v, clean) \in Volume
    BY <2>1, <2>2 DEF Volume
  <2> QED
    BY <1>2, <2>3, Nones DEF Optional
<1> QED
  BY <1>1, <1>2

(* A new volume is a volume.                                               *)
LEMMA EmptyIsVolume == Empty \in Volume
  BY DEF Empty, Volume

(* Removing volumes leaves the other names' volumes as they were.          *)
LEMMA WithoutTyped ==
    ASSUME StoreTyped, NEW S
    PROVE  /\ WithoutVolumes(S) \in [Names -> Optional(Volume)]
           /\ \A m \in Names : WithoutVolumes(S)[m] = IF m \in S THEN None ELSE volume[m]
  BY DEF StoreTyped, WithoutVolumes, Optional

(* A step that leaves the store, or the rest, as it was.                   *)
Store == <<registry, tmp, root, volume, container, local, archive>>
Rest == <<runtime, choice, begun, faults, fresh, told, good, swaps, kept, murky>>

(* A step that touches no stored thing keeps their types.                  *)
LEMMA StoreStays ==
    ASSUME StoreTyped, UNCHANGED Store
    PROVE  StoreTyped'
  BY DEF StoreTyped, Store, HasVolume, HasSecret, GoodArchive

(* The rest, when only what one step may change of it changes.             *)
LEMMA RestMoves ==
    ASSUME RestTyped, UNCHANGED <<runtime, choice>>,
           begun' \in Nat, faults' \in Nat, fresh' \in Nat,
           told' \in [Names -> Nat], good' \in [Names -> Optional(Refs)],
           swaps' \in [Names -> Nat], kept' \subseteq Names, murky' \subseteq Names
    PROVE  RestTyped'
  BY DEF RestTyped

(* The faults stay counted.                                                *)
LEMMA FaultTyped ==
    ASSUME RestTyped, Fault \/ NoFault
    PROVE  faults' \in Nat
  BY DEF RestTyped, Fault, NoFault

(* What is marked is names, and stays marked.                              *)
LEMMA MurkyTyped ==
    ASSUME RestTyped, NEW S \in SUBSET Names, Murky(S) \/ UNCHANGED murky
    PROVE  murky' \subseteq Names /\ murky \subseteq murky'
  BY DEF RestTyped, Murky

(***************************************************************************)
(* Types: a command begins                                                 *)
(***************************************************************************)
LEMMA BeginTyped ==
    ASSUME Typed, NEW c \in Clis, NEW v, Begin(c, v),
           v \in WorkSet, Shaped(v), v.op = "restore" => archive # None,
           Cardinality(v.taken) <= Cardinality(Names), archive' = archive
    PROVE  /\ CliTyped' /\ begun' \in Nat
           /\ murky' \subseteq Names /\ murky \subseteq murky'
           /\ cli[c] = Idle /\ cli' = [cli EXCEPT ![c] = v]
<1>1. cli' = [cli EXCEPT ![c] = v]
  BY DEF Begin
<1>2. CliTyped'
  BY <1>1, Becomes DEF Typed
<1>3. begun' \in Nat /\ murky' \subseteq Names /\ murky \subseteq murky'
  BY DEF Begin, Typed, RestTyped
<1>4. cli[c] = Idle
  BY Places DEF Typed, Begin
<1> QED
  BY <1>1, <1>2, <1>3, <1>4

(* What ensure_runtime() does to the runtime, and that the CLI records as  *)
(* its own only what it installed.                                         *)
LEMMA RuntimeTyped ==
    ASSUME RestTyped, NEW works \in BOOLEAN, EnsureRuntime(works)
    PROVE  /\ runtime' \in {"missing", "theirs", "ours"}
           /\ choice' \in {None, "detected", "installed"}
           /\ choice' = "installed" => runtime' # "theirs"
           /\ runtime' = "missing" => runtime = "missing"
  BY Nones DEF RestTyped, EnsureRuntime, Detected, Installs

(* The states in which commands begin.                                     *)
CreateJob(n, ref, src) ==
    [Idle EXCEPT !.pc = "leftover", !.op = "create", !.n = n, !.ref = ref, !.src = src,
                 !.taken = PortsOf(Registered)]
UpdateJob(op, n, ref) == [Idle EXCEPT !.pc = "pull", !.op = op, !.n = n, !.ref = ref]
UninstallJob == [Idle EXCEPT !.pc = "next", !.op = "uninstall", !.rest = Registered]
RestoreJob(p, n) == [Idle EXCEPT !.pc = p, !.op = "restore", !.n = n]

(* The work that `create` begins with is well formed.                      *)
LEMMA CreateWork ==
    ASSUME Typed, NEW n \in Names, NEW ref \in Refs, NEW src \in Optional(Names),
           NEW v, v = CreateJob(n, ref, src)
    PROVE  /\ v \in WorkSet /\ Shaped(v) /\ Cardinality(v.taken) <= Cardinality(Names)
           /\ v.pc = "leftover" /\ v.op = "create" /\ v.n = n /\ v.taken = PortsOf(Registered)
<1>1. /\ PortsOf(Registered) \subseteq Ports
      /\ Cardinality(PortsOf(Registered)) <= Cardinality(Names)
  BY PortsRegistered DEF Typed, StoreTyped
<1>2. /\ v.pc = "leftover" /\ v.op = "create" /\ v.n = n /\ v.ref = ref
      /\ v.taken = PortsOf(Registered)
  BY DEF Idle, CreateJob
<1>3. v \in WorkSet
  BY <1>1, PortsAreNumbers DEF CreateJob, WorkSet, Idle, Pcs, Ops, Optional
<1> QED
  BY <1>1, <1>2, <1>3 DEF Shaped, CreatePcs

(* CreateBegin keeps the types.                                            *)
LEMMA CreateBeginTyped ==
    ASSUME Typed, NEW c \in Clis, NEW n \in Names, NEW ref \in Refs, NEW src \in Optional(Names),
           CreateBegin(c, n, ref, src)
    PROVE  Typed'
<1>1. StoreTyped'
  BY StoreStays DEF CreateBegin, files, Typed, Store
<1>2. /\ faults' \in Nat /\ fresh' \in Nat /\ told' \in [Names -> Nat]
      /\ good' \in [Names -> Optional(Refs)] /\ swaps' \in [Names -> Nat] /\ kept' \subseteq Names
      /\ archive' = archive
  BY DEF CreateBegin, Typed, RestTyped
<1>3. CASE EnsureRuntime(TRUE)
           /\ Begin(c, [Idle EXCEPT !.pc = "leftover", !.op = "create", !.n = n, !.ref = ref,
                                    !.src = src, !.taken = PortsOf(Registered)])
  <2>1. PICK v : v = CreateJob(n, ref, src)
    OBVIOUS
  <2>2. Begin(c, v)
    BY <1>3, <2>1 DEF CreateJob
  <2>3. CliTyped' /\ begun' \in Nat /\ murky' \subseteq Names
    BY <1>2, <2>1, <2>2, CreateWork, BeginTyped
  <2>4. RestTyped'
    BY <1>2, <1>3, <2>3, RuntimeTyped DEF RestTyped, Typed
  <2> QED
    BY <1>1, <2>3, <2>4 DEF Typed
<1>4. CASE EnsureRuntime(FALSE) /\ Begin(c, Idle)
  <2>1. CliTyped' /\ begun' \in Nat /\ murky' \subseteq Names
    BY <1>2, <1>4, IdleIsWork, BeginTyped
  <2>2. RestTyped'
    BY <1>2, <1>4, <2>1, RuntimeTyped DEF RestTyped, Typed
  <2> QED
    BY <1>1, <2>1, <2>2 DEF Typed
<1> QED
  BY <1>3, <1>4 DEF CreateBegin

(* The commands that do nothing else when they begin.                      *)
LEMMA PlainBegin ==
    ASSUME Typed, NEW c \in Clis, NEW v, Begin(c, v),
           v \in WorkSet, Shaped(v), v.op = "restore" => archive # None,
           Cardinality(v.taken) <= Cardinality(Names),
           UNCHANGED <<Store, machine, faults, fresh, told, good, swaps>>, kept' \subseteq Names
    PROVE  Typed'
<1>1. StoreTyped'
  BY StoreStays DEF Typed
<1>2. CliTyped' /\ begun' \in Nat /\ murky' \subseteq Names
  BY BeginTyped DEF Store
<1>3. RestTyped'
  BY <1>2, RestMoves DEF Typed, RestTyped, machine
<1> QED
  BY <1>1, <1>2, <1>3 DEF Typed

(* The work that `update` and `rollback` begin with is well formed.        *)
LEMMA UpdateWork ==
    ASSUME NEW n \in Names, NEW ref \in Refs, NEW op \in {"update", "rollback"},
           NEW v, v = UpdateJob(op, n, ref)
    PROVE  /\ v \in WorkSet /\ Shaped(v) /\ Cardinality(v.taken) <= Cardinality(Names)
           /\ v.pc = "pull" /\ v.op = op /\ v.n = n
<1>1. /\ v.pc = "pull" /\ v.op = op /\ v.n = n /\ v.ref = ref /\ v.src = None
      /\ v.taken = Idle.taken
  BY DEF Idle, UpdateJob
<1>2. v \in WorkSet
  BY PortsAreNumbers DEF UpdateJob, WorkSet, Idle, Pcs, Ops, Optional
<1> QED
  BY <1>1, <1>2, IdleIsWork DEF Shaped, UpdatePcs

(* UpdateBegin keeps the types.                                            *)
LEMMA UpdateBeginTyped ==
    ASSUME Typed, NEW c \in Clis, NEW n \in Names, NEW ref \in Refs, UpdateBegin(c, n, ref)
    PROVE  Typed'
<1>1. PICK v : v = UpdateJob("update", n, ref)
  OBVIOUS
<1>2. /\ v \in WorkSet /\ Shaped(v) /\ Cardinality(v.taken) <= Cardinality(Names)
      /\ v.op = "update"
  BY <1>1, UpdateWork
<1>3. Begin(c, v) /\ UNCHANGED <<Store, machine, faults, fresh, told, good, swaps>>
      /\ kept' \subseteq Names
  BY <1>1 DEF UpdateBegin, UpdateJob, Store, files, Typed, RestTyped
<1> QED
  BY <1>2, <1>3, PlainBegin

(* RollbackBegin keeps the types.                                          *)
LEMMA RollbackBeginTyped ==
    ASSUME Typed, NEW c \in Clis, NEW n \in Names, RollbackBegin(c, n)
    PROVE  Typed'
<1>1. PICK v : v = UpdateJob("rollback", n, root[n].previous)
  OBVIOUS
<1>2. root[n].previous \in Refs
  BY DEF RollbackBegin, Typed, StoreTyped, Optional, Directory
<1>3. /\ v \in WorkSet /\ Shaped(v) /\ Cardinality(v.taken) <= Cardinality(Names)
      /\ v.op = "rollback"
  BY <1>1, <1>2, UpdateWork
<1>4. Begin(c, v) /\ UNCHANGED <<Store, machine, faults, fresh, told, good, swaps>>
      /\ kept' \subseteq Names
  BY <1>1 DEF RollbackBegin, UpdateJob, Store, files, Typed, RestTyped
<1> QED
  BY <1>3, <1>4, PlainBegin

(* The work that a removal begins with is well formed.                     *)
LEMMA RemovalWork ==
    ASSUME Typed, NEW n \in Names, NEW keep \in BOOLEAN, NEW rmi \in BOOLEAN,
           NEW op \in {"remove", "uninstall"}, NEW v, v = Removal(op, n, keep, rmi)
    PROVE  /\ v \in WorkSet /\ Shaped(v) /\ Cardinality(v.taken) <= Cardinality(Names)
           /\ v.pc = (IF root[n] = None THEN "unreg" ELSE "down") /\ v.op = op /\ v.n = n
           /\ v.keep = keep /\ v.rest = {}
<1>1. root[n] = None \/ root[n].image \in Refs
  BY DEF Typed, StoreTyped, Optional, Directory
<1>2. /\ v.pc = (IF root[n] = None THEN "unreg" ELSE "down") /\ v.op = op /\ v.n = n
      /\ v.src = None /\ v.taken = Idle.taken /\ v.keep = keep /\ v.rest = {}
  BY DEF Removal, Idle
<1>3. v \in WorkSet
  BY <1>1, PortsAreNumbers, ZenonT(60) DEF Removal, WorkSet, Idle, Pcs, Ops, Optional
<1> QED
  BY <1>2, <1>3, IdleIsWork DEF Shaped, RemovePcs

(* The names whose data the operator asked to keep are names.              *)
LEMMA KeepingTyped ==
    ASSUME RestTyped, NEW n \in Names, NEW keep \in BOOLEAN
    PROVE  Keeping(n, keep) \subseteq Names
  BY DEF RestTyped, Keeping

(* RemoveBegin keeps the types.                                            *)
LEMMA RemoveBeginTyped ==
    ASSUME Typed, NEW c \in Clis, NEW n \in Names, NEW keep \in BOOLEAN, NEW rmi \in BOOLEAN,
           RemoveBegin(c, n, keep, rmi)
    PROVE  Typed'
<1>1. PICK v : v = Removal("remove", n, keep, rmi)
  OBVIOUS
<1>2. /\ v \in WorkSet /\ Shaped(v) /\ Cardinality(v.taken) <= Cardinality(Names)
      /\ v.op = "remove"
  BY <1>1, RemovalWork
<1>3. Begin(c, v) /\ UNCHANGED <<Store, machine, faults, fresh, told, good, swaps>>
      /\ kept' \subseteq Names
  BY <1>1, KeepingTyped DEF RemoveBegin, Store, files, Typed
<1> QED
  BY <1>2, <1>3, PlainBegin

(* The work that `uninstall` begins with is well formed.                   *)
LEMMA UninstallWork ==
    ASSUME NEW v, v = UninstallJob
    PROVE  /\ v \in WorkSet /\ Shaped(v) /\ Cardinality(v.taken) <= Cardinality(Names)
           /\ v.pc = "next" /\ v.op = "uninstall" /\ v.n = None /\ v.rest = Registered
<1>1. /\ v.pc = "next" /\ v.op = "uninstall" /\ v.n = None /\ v.src = None
      /\ v.taken = Idle.taken /\ v.rest = Registered
  BY DEF Idle, UninstallJob
<1>2. v \in WorkSet
  BY PortsAreNumbers DEF UninstallJob, WorkSet, Idle, Pcs, Ops, Optional, Registered
<1> QED
  BY <1>1, <1>2, IdleIsWork DEF Shaped, RemovePcs

(* UninstallBegin keeps the types.                                         *)
LEMMA UninstallBeginTyped ==
    ASSUME Typed, NEW c \in Clis, UninstallBegin(c)
    PROVE  Typed'
<1>1. PICK v : v = UninstallJob
  OBVIOUS
<1>2. /\ v \in WorkSet /\ Shaped(v) /\ Cardinality(v.taken) <= Cardinality(Names)
      /\ v.op = "uninstall"
  BY <1>1, UninstallWork
<1>3. Begin(c, v) /\ UNCHANGED <<Store, machine, faults, fresh, told, good, swaps>>
      /\ kept' \subseteq Names
  BY <1>1 DEF UninstallBegin, UninstallJob, Store, files, Typed, RestTyped
<1> QED
  BY <1>2, <1>3, PlainBegin

(* The work that `restore` begins with is well formed.                     *)
LEMMA RestoreWork ==
    ASSUME NEW n \in Names, NEW p \in {"down", "extract"},
           NEW v, v = RestoreJob(p, n)
    PROVE  /\ v \in WorkSet /\ Shaped(v) /\ Cardinality(v.taken) <= Cardinality(Names)
           /\ v.pc = p /\ v.op = "restore" /\ v.n = n
<1>1. /\ v.pc = p /\ v.op = "restore" /\ v.n = n /\ v.src = None /\ v.keep
      /\ v.taken = Idle.taken
  BY DEF Idle, RestoreJob
<1>2. v \in WorkSet
  BY PortsAreNumbers DEF RestoreJob, WorkSet, Idle, Pcs, Ops, Optional
<1> QED
  BY <1>1, <1>2, IdleIsWork DEF Shaped, RestorePcs

(* RestoreBegin keeps the types.                                           *)
LEMMA RestoreBeginTyped ==
    ASSUME Typed, NEW c \in Clis, NEW n \in Names, RestoreBegin(c, n)
    PROVE  Typed'
<1>1. PICK p \in {"down", "extract"} : p = IF n \in Registered THEN "down" ELSE "extract"
  OBVIOUS
<1>2. PICK v : v = RestoreJob(p, n)
  OBVIOUS
<1>3. /\ v \in WorkSet /\ Shaped(v) /\ Cardinality(v.taken) <= Cardinality(Names)
      /\ v.op = "restore"
  BY <1>2, RestoreWork
<1>4. Begin(c, v) /\ UNCHANGED <<Store, machine, faults, fresh, told, good, swaps>>
      /\ kept' \subseteq Names /\ archive # None
  BY <1>1, <1>2 DEF RestoreBegin, RestoreJob, Store, files, Typed, RestTyped, Archived
<1> QED
  BY <1>3, <1>4, PlainBegin

(***************************************************************************)
(* Types: the steps of the commands                                        *)
(***************************************************************************)
(* What is stored, when only the named parts of it change.                 *)
LEMMA VolumeMoves ==
    ASSUME StoreTyped, UNCHANGED <<registry, tmp, root, local, archive>>,
           volume' \in [Names -> Optional(Volume)],
           container' \in [Names -> Optional(Container)],
           \A n \in Names : container'[n] # None => volume'[n] # None
    PROVE  StoreTyped'
  BY DEF StoreTyped, HasVolume, HasSecret, GoodArchive

(* A step that writes one instance's directory only keeps the types of     *)
(* what is stored.                                                         *)
LEMMA RootMoves ==
    ASSUME StoreTyped, UNCHANGED <<registry, tmp, volume, container, local, archive>>,
           NEW n \in Names, NEW d \in Optional(Directory), root' = [root EXCEPT ![n] = d],
           d # None => d.secret > 0
    PROVE  StoreTyped'
<1>1. root' \in [Names -> Optional(Directory)] /\ HasSecret'
  BY DEF StoreTyped, HasSecret
<1> QED
  BY <1>1 DEF StoreTyped, HasVolume, GoodArchive

(* A step that writes the registry or its temporary file only keeps the    *)
(* types of what is stored.                                                *)
LEMMA RegistryMoves ==
    ASSUME StoreTyped, UNCHANGED <<root, volume, container, local, archive>>,
           registry' \in [Names -> Optional(Entry)],
           tmp' \in Optional([Names -> Optional(Entry)])
    PROVE  StoreTyped'
  BY DEF StoreTyped, HasVolume, HasSecret, GoodArchive

(* What a directory that exists holds.                                     *)
LEMMA DirectoryFacts ==
    ASSUME StoreTyped, NEW n \in Names, root[n] # None
    PROVE  /\ root[n] \in Directory /\ root[n].secret \in Nat /\ root[n].secret > 0
           /\ root[n].image \in Refs /\ root[n].port \in Ports
           /\ root[n].previous \in Optional(Refs)
  BY DEF StoreTyped, HasSecret, Optional, Directory

(* A container that exists is one, and so is its volume.                   *)
LEMMA ContainerFacts ==
    ASSUME StoreTyped, NEW n \in Names, container[n] # None
    PROVE  container[n] \in Container /\ volume[n] \in Volume
  BY DEF StoreTyped, HasVolume, Optional

(* The container that a directory describes is one.                        *)
LEMMA RunsHere ==
    ASSUME StoreTyped, NEW n \in Names, NEW status \in {"created", "running", "exited"},
           root[n] # None, NEW k,
           k = [status |-> status, image |-> root[n].image, port |-> root[n].port]
    PROVE  k \in Container /\ k # None /\ k.status = status
<1>1. root[n].image \in Refs /\ root[n].port \in Ports
  BY DirectoryFacts
<1> QED
  BY <1>1, Nones DEF Container

(* A step that changes one container's status changes no other and creates *)
(* none.                                                                   *)
LEMMA StatusOnly ==
    ASSUME StoreTyped, NEW n \in Names, container[n] # None,
           NEW status \in {"created", "running", "exited"},
           container' = [container EXCEPT ![n].status = status]
    PROVE  /\ container' \in [Names -> Optional(Container)]
           /\ \A m \in Names : container'[m] = None <=> container[m] = None
           /\ container'[n].status = status
           /\ \A m \in Names \ {n} : container'[m] = container[m]
<1>1. container[n] \in Container
  BY ContainerFacts
<1>2. container'[n] \in Container /\ container'[n].status = status
  BY <1>1 DEF Container, StoreTyped
<1> QED
  BY <1>1, <1>2, Nones DEF StoreTyped, Optional

(* start, restart: the database is opened if the program runs.             *)
LEMMA StartInstanceTyped ==
    ASSUME Typed, NEW n \in Names, StartInstance(n)
    PROVE  Typed'
<1>1. CliTyped'
  BY Stays DEF Typed, StartInstance
<1>2. PICK status \in {"created", "running", "exited"} :
            container' = [container EXCEPT ![n].status = status]
  <2>1. container[n].status \in {"created", "running", "exited"}
    BY ContainerFacts DEF StartInstance, Typed, Container
  <2> QED
    BY <2>1 DEF StartInstance
<1>3. /\ container' \in [Names -> Optional(Container)]
      /\ \A m \in Names : container'[m] = None <=> container[m] = None
  BY <1>2, StatusOnly DEF StartInstance, Typed
<1>4. /\ volume' \in [Names -> Optional(Volume)]
      /\ \A m \in Names : volume[m] # None => volume'[m] # None
  <2>1. Booted(volume[n], root[n].secret) \in Volume
    BY DirectoryFacts, BootedIsVolume DEF StartInstance, Typed, StoreTyped
  <2> QED
    BY <2>1, Nones DEF StartInstance, Typed, StoreTyped, Optional
<1>5. StoreTyped'
  BY <1>3, <1>4, VolumeMoves DEF StartInstance, Typed, StoreTyped, HasVolume
<1>6. murky' \subseteq Names
  BY DEF StartInstance, Marked, Murky, Typed, RestTyped
<1>7. RestTyped'
  BY <1>6, RestMoves DEF StartInstance, Typed, RestTyped, machine
<1> QED
  BY <1>1, <1>5, <1>7 DEF Typed

(* RestartInstance keeps the types.                                        *)
LEMMA RestartInstanceTyped ==
    ASSUME Typed, NEW n \in Names, RestartInstance(n)
    PROVE  Typed'
<1>1. CliTyped'
  BY Stays DEF Typed, RestartInstance
<1>2. PICK status \in {"created", "running", "exited"} :
            container' = [container EXCEPT ![n].status = status]
  BY DEF RestartInstance
<1>3. /\ container' \in [Names -> Optional(Container)]
      /\ \A m \in Names : container'[m] = None <=> container[m] = None
  BY <1>2, StatusOnly DEF RestartInstance, Typed
<1>4. /\ volume' \in [Names -> Optional(Volume)]
      /\ \A m \in Names : volume[m] # None => volume'[m] # None
  <2>1. Booted(volume[n], root[n].secret) \in Volume
    BY DirectoryFacts, BootedIsVolume DEF RestartInstance, Typed, StoreTyped
  <2> QED
    BY <2>1, Nones DEF RestartInstance, Typed, StoreTyped, Optional
<1>5. StoreTyped'
  BY <1>3, <1>4, VolumeMoves DEF RestartInstance, Typed, StoreTyped, HasVolume
<1>6. murky' \subseteq Names
  BY DEF RestartInstance, Marked, Murky, Typed, RestTyped
<1>7. RestTyped'
  BY <1>6, RestMoves DEF RestartInstance, Typed, RestTyped, machine
<1> QED
  BY <1>1, <1>5, <1>7 DEF Typed

(* StopInstance keeps the types.                                           *)
LEMMA StopInstanceTyped ==
    ASSUME Typed, NEW n \in Names, StopInstance(n)
    PROVE  Typed'
<1>1. CliTyped'
  BY Stays DEF Typed, StopInstance
<1>2. /\ container' \in [Names -> Optional(Container)]
      /\ \A m \in Names : container'[m] = None <=> container[m] = None
  BY StatusOnly DEF StopInstance, Running, Typed
<1>3. PICK clean \in BOOLEAN :
        /\ volume' = [volume EXCEPT ![n] = Closed(volume[n], clean)]
        /\ IF clean THEN NoFault /\ Murky(Marked(n)) ELSE Fault /\ Murky({n})
  BY DEF StopInstance
<1>4. /\ volume' \in [Names -> Optional(Volume)]
      /\ \A m \in Names : volume[m] # None => volume'[m] # None
  <2>1. /\ Closed(volume[n], clean) \in Optional(Volume)
        /\ Closed(volume[n], clean) = None <=> volume[n] = None
    BY ClosedIsVolume DEF Typed, StoreTyped
  <2> QED
    BY <1>3, <2>1 DEF Typed, StoreTyped
<1>5. StoreTyped'
  BY <1>2, <1>4, VolumeMoves DEF StopInstance, Typed, StoreTyped, HasVolume
<1>6. murky' \subseteq Names /\ faults' \in Nat
  BY <1>3 DEF Marked, Murky, Fault, NoFault, Typed, RestTyped
<1>7. RestTyped'
  BY <1>6, RestMoves DEF StopInstance, Typed, RestTyped, machine
<1> QED
  BY <1>1, <1>5, <1>7 DEF Typed

(* A step that changes the key of one volume changes no other and creates  *)
(* none.                                                                   *)
LEMMA KeyOnly ==
    ASSUME StoreTyped, NEW n \in Names, NEW key \in Nat, volume[n] # None,
           volume' = [volume EXCEPT ![n].key = key]
    PROVE  /\ volume' \in [Names -> Optional(Volume)]
           /\ \A m \in Names : volume'[m] = None <=> volume[m] = None
           /\ volume'[n].key = key /\ volume'[n].secret = volume[n].secret
           /\ volume'[n].wal = volume[n].wal
           /\ \A m \in Names \ {n} : volume'[m] = volume[m]
<1>1. volume[n] \in Volume
  BY DEF StoreTyped, Optional
<1>2. volume'[n] \in Volume /\ volume'[n].key = key /\ volume'[n].secret = volume[n].secret
      /\ volume'[n].wal = volume[n].wal
  BY <1>1 DEF Volume, StoreTyped
<1> QED
  BY <1>1, <1>2, Nones DEF StoreTyped, Optional

(* AppWorks keeps the types.                                               *)
LEMMA AppWorksTyped ==
    ASSUME Typed, NEW n \in Names, AppWorks(n)
    PROVE  Typed'
<1>1. CliTyped'
  BY Stays DEF Typed, AppWorks
<1>2. root[n].secret \in Nat
  BY DirectoryFacts DEF AppWorks, Typed
<1>3. /\ volume' \in [Names -> Optional(Volume)]
      /\ \A m \in Names : volume'[m] = None <=> volume[m] = None
  BY <1>2, KeyOnly DEF AppWorks, Typed
<1>4. StoreTyped'
  BY <1>3, VolumeMoves DEF AppWorks, Typed, StoreTyped, HasVolume
<1>5. RestTyped'
  BY RestMoves DEF AppWorks, Typed, RestTyped, machine, counters, ghosts
<1> QED
  BY <1>1, <1>4, <1>5 DEF Typed

(* Backup of a name that runs and is not murky: NamesRight below says that *)
(* what it copies is good.                                                 *)
LEMMA BackupTyped ==
    ASSUME Typed, NEW n \in Names, Backup(n),
           volume[n].secret = root[n].secret, volume[n].key \in {0, root[n].secret}
    PROVE  Typed' /\ archive' # None
<1>1. /\ root[n] \in Directory /\ root[n].secret > 0 /\ volume[n] \in Volume
      /\ registry[n].mode \in {"local", "network"}
  BY DirectoryFacts DEF Backup, Registered, Typed, StoreTyped, Optional, Entry
<1>2. PICK s : s = Snapshot(n)
  OBVIOUS
<1>3. s \in Volume /\ s.wal = "none" /\ s.secret = volume[n].secret /\ s.key = volume[n].key
  BY <1>1, <1>2 DEF Snapshot, Volume
<1>4. archive' = [n |-> n, mode |-> registry[n].mode, dir |-> root[n], db |-> s]
  BY <1>2 DEF Backup
<1>5. archive' \in Archive /\ archive'.dir = root[n] /\ archive'.db = s
  BY <1>1, <1>3, <1>4 DEF Archive
<1>6. archive' # None
  BY <1>5, Nones
<1>7. StoreTyped'
  <2>1. GoodArchive'
    BY <1>1, <1>3, <1>5 DEF GoodArchive
  <2>2. HasVolume' /\ HasSecret'
    BY DEF Backup, files, Typed, StoreTyped, HasVolume, HasSecret
  <2> QED
    BY <1>5, <2>1, <2>2 DEF Backup, files, Typed, StoreTyped, Optional
<1>8. RestTyped'
  BY RestMoves DEF Backup, Typed, RestTyped, machine, counters, ghosts
<1>9. CliTyped'
  BY <1>6, Stays DEF Backup, Typed
<1> QED
  BY <1>6, <1>7, <1>8, <1>9 DEF Typed

(* UninstallNext keeps the types.                                          *)
LEMMA UninstallNextTyped ==
    ASSUME Typed, NEW c \in Clis, NEW n \in Names, NEW keep \in BOOLEAN, NEW rmi \in BOOLEAN,
           UninstallNext(c, n, keep, rmi)
    PROVE  /\ Typed'
           /\ \/ End(c) /\ UNCHANGED kept
              \/ /\ n \in Registered /\ kept' = Keeping(n, keep)
                 /\ cli'[c].pc = (IF root[n] = None THEN "unreg" ELSE "down")
                 /\ cli'[c].op = "uninstall" /\ cli'[c].n = n /\ cli'[c].keep = keep
                 /\ cli'[c].rest = cli[c].rest \ {n}
                 /\ \A d \in Clis \ {c} : cli'[d] = cli[d]
<1>1. StoreTyped'
  BY StoreStays DEF UninstallNext, Typed, Store, files
<1>2. kept' \subseteq Names
  BY KeepingTyped DEF UninstallNext, Typed, RestTyped
<1>3. RestTyped'
  BY <1>2, RestMoves DEF UninstallNext, Typed, RestTyped, machine, counters
<1>4. CASE End(c) /\ UNCHANGED kept
  <2>1. CliTyped'
    BY <1>4, Ends DEF UninstallNext, Typed
  <2> QED
    BY <1>1, <1>3, <1>4, <2>1 DEF Typed
<1>5. CASE /\ n \in Registered /\ kept' = Keeping(n, keep)
           /\ cli' = [cli EXCEPT ![c] = [Removal("uninstall", n, keep, rmi)
                                             EXCEPT !.rest = cli[c].rest \ {n}]]
  <2>1. PICK u : u = Removal("uninstall", n, keep, rmi)
    OBVIOUS
  <2>2. /\ u \in WorkSet /\ Shaped(u) /\ Cardinality(u.taken) <= Cardinality(Names)
        /\ u.pc = (IF root[n] = None THEN "unreg" ELSE "down") /\ u.op = "uninstall" /\ u.n = n
        /\ u.keep = keep
    BY <2>1, RemovalWork
  <2>3. PICK v : v = [u EXCEPT !.rest = cli[c].rest \ {n}]
    OBVIOUS
  <2>4. cli[c].rest \ {n} \in SUBSET Names
    BY Places DEF Typed, WorkSet
  <2>5. /\ v \in WorkSet /\ v.pc = u.pc /\ v.op = u.op /\ v.n = u.n /\ v.src = u.src
        /\ v.taken = u.taken /\ v.keep = u.keep /\ v.rest = cli[c].rest \ {n} /\ v.ref = u.ref
    BY <2>2, <2>3, <2>4 DEF WorkSet
  <2>6. Shaped(v)
    BY <2>2, <2>5, IdleIsWork DEF Shaped
  <2>7. cli' = [cli EXCEPT ![c] = v]
    BY <1>5, <2>1, <2>3
  <2>8. CliTyped'
    BY <2>2, <2>5, <2>6, <2>7, Becomes DEF UninstallNext, Typed
  <2>9. cli'[c] = v /\ \A d \in Clis \ {c} : cli'[d] = cli[d]
    BY <2>7 DEF Typed, CliTyped
  <2> QED
    BY <1>1, <1>3, <1>5, <2>2, <2>5, <2>8, <2>9 DEF Typed
<1> QED
  BY <1>4, <1>5 DEF UninstallNext

(* CreateLeftover keeps the types.                                         *)
LEMMA CreateLeftoverTyped ==
    ASSUME Typed, NEW c \in Clis, CreateLeftover(c)
    PROVE  Typed'
<1>1. cli[c].op = "create" /\ cli[c].n \in Names /\ cli[c].pc = "leftover"
  BY Places DEF Typed, CreateLeftover
<1>2. CliTyped'
  <2>1. CASE Goto(c, "files")
    BY <1>1, <2>1, Goes DEF Typed, CreateLeftover, PlacesOf, CreatePcs
  <2>2. CASE End(c)
    BY <2>2, Ends DEF Typed, CreateLeftover
  <2> QED
    BY <2>1, <2>2 DEF CreateLeftover
<1>3. /\ volume' \in [Names -> Optional(Volume)]
      /\ \A m \in Names : volume'[m] = volume[m] \/ container[m] = None
  <2>1. \/ UNCHANGED volume
        \/ \E S \in SUBSET Names : /\ volume' = WithoutVolumes(S)
                                   /\ \A m \in S : container[m] = None
    BY DEF CreateLeftover, Removable, Leftover
  <2>2. CASE UNCHANGED volume
    BY <2>2 DEF Typed, StoreTyped
  <2>3. CASE \E S \in SUBSET Names : /\ volume' = WithoutVolumes(S)
                                     /\ \A m \in S : container[m] = None
    BY <2>3, WithoutTyped DEF Typed
  <2> QED
    BY <2>1, <2>2, <2>3
<1>4. StoreTyped'
  BY <1>3, VolumeMoves DEF CreateLeftover, Typed, StoreTyped, HasVolume
<1>5. murky' \subseteq Names /\ faults' \in Nat /\ kept' \subseteq Names
  BY <1>1 DEF CreateLeftover, Murky, Fault, NoFault, Typed, RestTyped
<1>6. RestTyped'
  BY <1>5, RestMoves DEF CreateLeftover, Typed, RestTyped, machine
<1> QED
  BY <1>2, <1>4, <1>6 DEF Typed

(* CreateFiles keeps the types.                                            *)
LEMMA CreateFilesTyped ==
    ASSUME Typed, NEW c \in Clis, CreateFiles(c)
    PROVE  /\ Typed'
           /\ cli'[c].pc = "add" /\ cli'[c].op = cli[c].op /\ cli'[c].n = cli[c].n
           /\ cli'[c].port = PortFor(c) /\ cli'[c].secret = root'[cli[c].n].secret
           /\ root'[cli[c].n] # None
           /\ cli'[c].src = cli[c].src
           /\ PortFor(c) \notin cli[c].taken \cup Bound
           /\ \A d \in Clis \ {c} : cli'[d] = cli[d]
<1> DEFINE n == cli[c].n
<1>1. cli[c] \in WorkSet /\ cli[c].op = "create" /\ n \in Names /\ cli[c].pc = "files"
      /\ cli[c].ref \in Refs /\ cli[c].src \in Optional(Names)
  BY Places DEF Typed, CreateFiles, WorkSet
<1>2. PortFor(c) \in Ports /\ PortFor(c) \notin cli[c].taken \cup Bound
  <2>1. /\ cli[c].taken \subseteq Ports
        /\ Cardinality(cli[c].taken) <= Cardinality(Names)
    BY <1>1 DEF WorkSet, Typed, CliTyped
  <2>2. IsFiniteSet(cli[c].taken)
    BY <2>1, PortsAreNumbers, FS_Subset
  <2>3. IsFiniteSet(Bound) /\ Cardinality(Bound) <= Cardinality(Names)
    BY PortsBound DEF Typed, StoreTyped
  <2>4. /\ IsFiniteSet(cli[c].taken \cup Bound)
        /\ Cardinality(cli[c].taken \cup Bound) <= 2 * Cardinality(Names)
    BY <2>1, <2>2, <2>3, TwoSets
  <2> QED
    BY <2>4, FreePort DEF PortFor
<1>3. PICK f \in Nat : f = fresh + 1 /\ f > 0
  BY DEF Typed, RestTyped
<1>4. PICK v : v = [cli[c] EXCEPT !.pc = "add", !.port = PortFor(c), !.secret = f]
  OBVIOUS
<1>5. cli' = [cli EXCEPT ![c] = v]
  BY <1>3, <1>4 DEF CreateFiles, Typed, CliTyped
<1>6. /\ v \in WorkSet /\ v.pc = "add" /\ v.port = PortFor(c) /\ v.secret = f
      /\ v.op = cli[c].op /\ v.n = cli[c].n /\ v.ref = cli[c].ref /\ v.src = cli[c].src
      /\ v.taken = cli[c].taken
  BY <1>1, <1>2, <1>3, <1>4 DEF WorkSet, Pcs
<1>7. Shaped(v) /\ Cardinality(v.taken) <= Cardinality(Names)
  BY <1>1, <1>6 DEF Shaped, CreatePcs, Typed, CliTyped
<1>8. CliTyped'
  BY <1>1, <1>5, <1>6, <1>7, Becomes DEF Typed, CreateFiles
<1>9. PICK d : d = [image |-> cli[c].ref, previous |-> None, port |-> PortFor(c),
                    listen |-> PortFor(c), secret |-> f]
  OBVIOUS
<1>10. d \in Directory /\ d.secret = f /\ d # None
  BY <1>1, <1>2, <1>3, <1>9, Nones DEF Directory
<1>11. root' = [root EXCEPT ![n] = d]
  BY <1>3, <1>9 DEF CreateFiles
<1>12. StoreTyped'
  BY <1>1, <1>3, <1>10, <1>11, RootMoves DEF CreateFiles, Typed, Optional
<1>13. /\ fresh' = f /\ told' \in [Names -> Nat] /\ good' \in [Names -> Optional(Refs)]
       /\ swaps' \in [Names -> Nat]
  BY <1>3 DEF CreateFiles, Typed, RestTyped, Optional
<1>14. RestTyped'
  BY <1>3, <1>13, RestMoves DEF CreateFiles, Typed, RestTyped, machine
<1>15. cli'[c] = v /\ \A e \in Clis \ {c} : cli'[e] = cli[e]
  BY <1>5 DEF Typed, CliTyped
<1>16. root'[n] = d
  BY <1>1, <1>11 DEF Typed, StoreTyped
<1> QED
  BY <1>2, <1>6, <1>8, <1>10, <1>12, <1>14, <1>15, <1>16 DEF Typed

(* AddLoad keeps the types.                                                *)
LEMMA AddLoadTyped ==
    ASSUME Typed, NEW c \in Clis, AddLoad(c)
    PROVE  Typed'
<1>1. /\ cli[c] \in WorkSet /\ cli[c].n \in Names /\ cli[c].pc = "add"
      /\ cli[c].op \in {"create", "restore"} /\ (cli[c].op = "restore" => archive # None)
  BY Places DEF Typed, AddLoad
<1>2. CliTyped'
  <2>1. CASE Goto(c, "addput")
    BY <1>1, <2>1, Goes DEF Typed, AddLoad, PlacesOf, CreatePcs, RestorePcs
  <2>2. CASE End(c)
    BY <2>2, Ends DEF Typed, AddLoad
  <2> QED
    BY <2>1, <2>2 DEF AddLoad
<1>3. (IF cli[c].op = "restore" THEN archive.mode ELSE ModeOf(cli[c].n)) \in {"local", "network"}
  BY <1>1 DEF Typed, StoreTyped, Optional, Archive, ModeOf
<1>4. tmp' \in Optional([Names -> Optional(Entry)])
  BY <1>1, <1>3 DEF AddLoad, Typed, StoreTyped, Optional, Entry, WorkSet
<1>5. StoreTyped'
  BY <1>4, RegistryMoves DEF AddLoad, files, Typed, StoreTyped
<1>6. RestTyped'
  BY RestMoves DEF AddLoad, Typed, RestTyped, machine, counters, ghosts
<1> QED
  BY <1>2, <1>5, <1>6 DEF Typed

(* Replacing the registry by the temporary file keeps the types.           *)
LEMMA ReplaceTyped ==
    ASSUME Typed, NEW c \in Clis, NEW next, Replace(c, next), cli[c].pc \in {"addput", "unregput"},
           next \in PlacesOf(cli[c].op)
    PROVE  Typed'
<1>1. CliTyped'
  <2>1. CASE Goto(c, next)
    BY <2>1, Goes DEF Typed, Replace
  <2>2. CASE End(c)
    BY <2>2, Ends DEF Typed, Replace
  <2> QED
    BY <2>1, <2>2 DEF Replace
<1>2. /\ tmp' \in Optional([Names -> Optional(Entry)])
      /\ registry' \in [Names -> Optional(Entry)]
  BY DEF Replace, Typed, StoreTyped, Optional
<1>3. StoreTyped'
  BY <1>2, RegistryMoves DEF Replace, files, Typed
<1>4. RestTyped'
  BY RestMoves DEF Replace, Typed, RestTyped, machine, counters, ghosts
<1> QED
  BY <1>1, <1>3, <1>4 DEF Typed

(* AddPut keeps the types.                                                 *)
LEMMA AddPutTyped ==
    ASSUME Typed, NEW c \in Clis, AddPut(c)
    PROVE  Typed'
<1>1. cli[c].op \in {"create", "restore"} /\ cli[c].pc = "addput"
  BY Places DEF Typed, AddPut
<1>2. (IF cli[c].op = "restore" THEN "create" ELSE "up") \in PlacesOf(cli[c].op)
  BY <1>1 DEF PlacesOf, CreatePcs, RestorePcs
<1> QED
  BY <1>1, <1>2, ReplaceTyped DEF AddPut

(* UnregisterPut keeps the types.                                          *)
LEMMA UnregisterPutTyped ==
    ASSUME Typed, NEW c \in Clis, UnregisterPut(c)
    PROVE  Typed'
<1>1. cli[c].op \in {"remove", "uninstall", "restore"} /\ cli[c].pc = "unregput"
  BY Places DEF Typed, UnregisterPut
<1>2. (IF cli[c].op = "restore" THEN "extract" ELSE "sweep") \in PlacesOf(cli[c].op)
  BY <1>1 DEF PlacesOf, RemovePcs, RestorePcs
<1> QED
  BY <1>1, <1>2, ReplaceTyped DEF UnregisterPut

(* Unregister keeps the types.                                             *)
LEMMA UnregisterTyped ==
    ASSUME Typed, NEW c \in Clis, Unregister(c)
    PROVE  Typed'
<1>1. cli[c].op \in {"remove", "uninstall", "restore"} /\ cli[c].pc = "unreg" /\ cli[c].n \in Names
  BY Places DEF Typed, Unregister
<1>2. /\ (IF cli[c].op = "restore" THEN "extract" ELSE "sweep") \in PlacesOf(cli[c].op)
      /\ "unregput" \in PlacesOf(cli[c].op)
  BY <1>1 DEF PlacesOf, RemovePcs, RestorePcs
<1>3. CliTyped'
  <2>1. CASE Goto(c, "unregput")
    BY <1>1, <1>2, <2>1, Goes DEF Typed, Unregister
  <2>2. CASE Goto(c, IF cli[c].op = "restore" THEN "extract" ELSE "sweep")
    BY <1>1, <1>2, <2>2, Goes DEF Typed, Unregister
  <2> QED
    BY <2>1, <2>2 DEF Unregister
<1>4. tmp' \in Optional([Names -> Optional(Entry)])
  BY <1>1 DEF Unregister, Typed, StoreTyped, Optional
<1>5. StoreTyped'
  BY <1>4, RegistryMoves DEF Unregister, files, Typed, StoreTyped
<1>6. RestTyped'
  BY RestMoves DEF Unregister, Typed, RestTyped, machine, counters, ghosts
<1> QED
  BY <1>3, <1>5, <1>6 DEF Typed

(* UpOk keeps the types.                                                   *)
LEMMA UpOkTyped ==
    ASSUME Typed, NEW c \in Clis, UpOk(c)
    PROVE  Typed'
<1> DEFINE n == cli[c].n
<1>1. /\ cli[c] \in WorkSet /\ n \in Names /\ cli[c].pc = "up" /\ root[n] # None
      /\ cli[c].src # None => cli[c].op = "create"
  BY Places DEF Typed, UpOk
<1>2. CliTyped'
  <2>1. CASE cli[c].src # None /\ Goto(c, "import")
    BY <1>1, <2>1, Goes DEF Typed, UpOk, PlacesOf, CreatePcs
  <2>2. CASE End(c)
    BY <2>2, Ends DEF Typed, UpOk
  <2> QED
    BY <2>1, <2>2 DEF UpOk
<1>3. PICK status \in {"created", "running", "exited"} : status = Outcome(n)
  BY DEF Outcome
<1>4. PICK k : k = [status |-> status, image |-> root[n].image, port |-> root[n].port]
  OBVIOUS
<1>5. k \in Container
  BY <1>1, <1>4, RunsHere DEF Typed
<1>6. container' = [container EXCEPT ![n] = k]
  BY <1>3, <1>4 DEF UpOk
<1>7. /\ Booted(volume[n], root[n].secret) \in Volume
      /\ (IF volume[n] = None THEN Empty ELSE volume[n]) \in Volume
  BY <1>1, DirectoryFacts, BootedIsVolume, EmptyIsVolume DEF Typed, StoreTyped, Optional
<1>8. PICK v \in Volume : volume' = [volume EXCEPT ![n] = v]
  <2>1. CASE status = "running"
    BY <1>3, <1>7, <2>1 DEF UpOk
  <2>2. CASE status # "running"
    BY <1>3, <1>7, <2>2 DEF UpOk
  <2> QED
    BY <2>1, <2>2
<1>9. /\ container' \in [Names -> Optional(Container)] /\ volume' \in [Names -> Optional(Volume)]
      /\ local' \subseteq Refs
      /\ \A m \in Names : container'[m] # None => volume'[m] # None
  BY <1>1, <1>5, <1>6, <1>8, Nones, DirectoryFacts DEF UpOk, Typed, StoreTyped, Optional, HasVolume
<1>10. StoreTyped'
  BY <1>9 DEF UpOk, Typed, StoreTyped, HasVolume, HasSecret, GoodArchive
<1>11. /\ told' \in [Names -> Nat] /\ good' \in [Names -> Optional(Refs)]
       /\ swaps' \in [Names -> Nat]
  BY <1>1, DirectoryFacts DEF UpOk, CameUp, Typed, RestTyped, WorkSet, Optional
<1>12. RestTyped'
  BY <1>11, RestMoves DEF UpOk, Typed, RestTyped, machine, counters
<1> QED
  BY <1>2, <1>10, <1>12 DEF Typed

(* UpFails keeps the types.                                                *)
LEMMA UpFailsTyped ==
    ASSUME Typed, NEW c \in Clis, UpFails(c)
    PROVE  Typed'
<1>1. cli[c].n \in Names
  BY Places DEF Typed, UpFails
<1>2. CliTyped'
  BY Ends DEF Typed, UpFails
<1>3. StoreTyped'
  BY StoreStays DEF UpFails, Typed, Store, files
<1>4. murky' \subseteq Names /\ faults' \in Nat
  BY <1>1 DEF UpFails, Murky, Fault, NoFault, Typed, RestTyped
<1>5. RestTyped'
  BY <1>4, RestMoves DEF UpFails, Typed, RestTyped, machine
<1> QED
  BY <1>2, <1>3, <1>5 DEF Typed

(* Import keeps the types.                                                 *)
LEMMA ImportTyped ==
    ASSUME Typed, NEW c \in Clis, Import(c)
    PROVE  Typed'
<1> DEFINE n == cli[c].n
<1>1. cli[c] \in WorkSet /\ n \in Names /\ cli[c].src \in Optional(Names)
  BY Places DEF Typed, Import, WorkSet
<1>2. CliTyped'
  BY Ends DEF Typed, Import
<1>3. /\ volume' \in [Names -> Optional(Volume)]
      /\ \A m \in Names : volume'[m] = None <=> volume[m] = None
  <2>1. CASE UNCHANGED volume
    BY <2>1 DEF Typed, StoreTyped
  <2>2. CASE /\ Running(n) /\ root[n] # None
             /\ \E key \in {Dumped(n), Copied(cli[c].src, n)} : volume' = Applied(n, key)
    <3>1. container[n] # None
      BY <2>2 DEF Running
    <3>2. volume[n] \in Volume /\ volume[n] # None
      BY <1>1, <3>1, ContainerFacts, Nones DEF Typed
    <3>3. Dumped(n) \in Nat /\ Copied(cli[c].src, n) \in Nat
      BY <1>1, <2>2, <3>2, DirectoryFacts DEF Dumped, Copied, Volume, Typed
    <3>4. PICK key \in Nat : volume' = [volume EXCEPT ![n].key = key]
      BY <2>2, <3>3 DEF Applied
    <3> QED
      BY <1>1, <3>2, <3>4, KeyOnly DEF Typed
  <2> QED
    BY <2>1, <2>2 DEF Import
<1>4. StoreTyped'
  BY <1>3, VolumeMoves DEF Import, Typed, StoreTyped, HasVolume
<1>5. RestTyped'
  BY RestMoves DEF Import, Typed, RestTyped, machine, counters, ghosts
<1> QED
  BY <1>2, <1>4, <1>5 DEF Typed

(* Pull keeps the types.                                                   *)
LEMMA PullTyped ==
    ASSUME Typed, NEW c \in Clis, Pull(c)
    PROVE  Typed'
<1>1. cli[c].op \in {"update", "rollback"} /\ cli[c].pc = "pull" /\ cli[c].ref \in Refs
  BY Places DEF Typed, Pull
<1>2. CliTyped'
  <2>1. CASE Goto(c, "stop")
    BY <1>1, <2>1, Goes DEF Typed, Pull, PlacesOf, UpdatePcs
  <2>2. CASE End(c)
    BY <2>2, Ends DEF Typed, Pull
  <2> QED
    BY <2>1, <2>2 DEF Pull
<1>3. StoreTyped'
  BY <1>1 DEF Pull, files, Typed, StoreTyped, HasVolume, HasSecret, GoodArchive
<1>4. RestTyped'
  BY FaultTyped, RestMoves DEF Pull, Typed, RestTyped, machine, ghosts
<1> QED
  BY <1>2, <1>3, <1>4 DEF Typed

(* StopForUpdate keeps the types.                                          *)
LEMMA StopForUpdateTyped ==
    ASSUME Typed, NEW c \in Clis, StopForUpdate(c)
    PROVE  Typed'
<1> DEFINE n == cli[c].n
<1>1. cli[c].op \in {"update", "rollback"} /\ cli[c].pc = "stop" /\ n \in Names
  BY Places DEF Typed, StopForUpdate
<1>2. CliTyped'
  <2>1. CASE Goto(c, "previous")
    BY <1>1, <2>1, Goes DEF Typed, StopForUpdate, PlacesOf, UpdatePcs
  <2>2. CASE End(c)
    BY <2>2, Ends DEF Typed, StopForUpdate
  <2> QED
    BY <2>1, <2>2 DEF StopForUpdate
<1>3. /\ container' \in [Names -> Optional(Container)]
      /\ \A m \in Names : container'[m] = None <=> container[m] = None
  <2>1. CASE UNCHANGED container
    BY <2>1 DEF Typed, StoreTyped
  <2>2. CASE Running(n) /\ container' = [container EXCEPT ![n].status = "exited"]
    BY <1>1, <2>2, StatusOnly DEF Running, Typed
  <2>3. CASE ~Running(n) /\ container' = [container EXCEPT ![n] = container[n]]
    BY <2>3 DEF Typed, StoreTyped
  <2>4. Running(n) => [container EXCEPT ![n] = [container[n] EXCEPT !.status = "exited"]]
                      = [container EXCEPT ![n].status = "exited"]
    OBVIOUS
  <2> QED
    BY <2>1, <2>2, <2>3, <2>4 DEF StopForUpdate
<1>4. StoreTyped'
  BY <1>3, VolumeMoves DEF StopForUpdate, Typed, StoreTyped, HasVolume
<1>5. RestTyped'
  BY FaultTyped, RestMoves DEF StopForUpdate, Typed, RestTyped, machine, ghosts
<1> QED
  BY <1>2, <1>4, <1>5 DEF Typed

(* A directory whose image or previous image is replaced is one.           *)
LEMMA DirectoryPart ==
    ASSUME StoreTyped, NEW n \in Names, root[n] # None
    PROVE  /\ \A ref \in Optional(Refs) : [root[n] EXCEPT !.previous = ref] \in Directory
           /\ \A ref \in Refs : [root[n] EXCEPT !.image = ref] \in Directory
  BY DirectoryFacts DEF Directory, Optional

(* SetPrevious keeps the types.                                            *)
LEMMA SetPreviousTyped ==
    ASSUME Typed, NEW c \in Clis, SetPrevious(c)
    PROVE  Typed'
<1> DEFINE n == cli[c].n
<1>1. cli[c].op \in {"update", "rollback"} /\ cli[c].pc = "previous" /\ n \in Names
  BY Places DEF Typed, SetPrevious
<1>2. CliTyped'
  <2>1. CASE Goto(c, "swap")
    BY <1>1, <2>1, Goes DEF Typed, SetPrevious, PlacesOf, UpdatePcs
  <2>2. CASE End(c)
    BY <2>2, Ends DEF Typed, SetPrevious
  <2> QED
    BY <2>1, <2>2 DEF SetPrevious
<1>3. StoreTyped'
  <2>1. CASE root[n] = None
    BY <2>1, StoreStays DEF SetPrevious, Store, Typed
  <2>2. CASE root[n] # None
    <3>1. PICK d : d = [root[n] EXCEPT !.previous = root[n].image]
      OBVIOUS
    <3>2. d \in Directory /\ d.secret = root[n].secret /\ root[n].secret > 0
      BY <1>1, <2>2, <3>1, DirectoryFacts, DirectoryPart DEF Typed, Optional, Directory
    <3>3. root' = [root EXCEPT ![n] = d]
      BY <2>2, <3>1 DEF SetPrevious, RecordPrevious
    <3> QED
      BY <1>1, <3>2, <3>3, RootMoves DEF SetPrevious, Typed, Optional
  <2> QED
    BY <2>1, <2>2
<1>4. swaps' \in [Names -> Nat]
  BY <1>1 DEF SetPrevious, Typed, RestTyped
<1>5. RestTyped'
  BY <1>4, RestMoves DEF SetPrevious, Typed, RestTyped, machine, counters
<1> QED
  BY <1>2, <1>3, <1>5 DEF Typed

(* SwapImage keeps the types.                                              *)
LEMMA SwapImageTyped ==
    ASSUME Typed, NEW c \in Clis, SwapImage(c)
    PROVE  Typed'
<1> DEFINE n == cli[c].n
<1>1. /\ cli[c].op \in {"update", "rollback"} /\ cli[c].pc = "swap" /\ n \in Names
      /\ cli[c].ref \in Refs
  BY Places DEF Typed, SwapImage
<1>2. CliTyped'
  <2>1. CASE Goto(c, "up")
    BY <1>1, <2>1, Goes DEF Typed, SwapImage, PlacesOf, UpdatePcs
  <2>2. CASE End(c)
    BY <2>2, Ends DEF Typed, SwapImage
  <2> QED
    BY <2>1, <2>2 DEF SwapImage
<1>3. StoreTyped'
  <2>1. CASE root[n] = None
    BY <2>1, StoreStays DEF SwapImage, Store, Typed
  <2>2. CASE root[n] # None
    <3>1. PICK d : d = [root[n] EXCEPT !.image = cli[c].ref]
      OBVIOUS
    <3>2. d \in Directory /\ d.secret = root[n].secret /\ root[n].secret > 0
      BY <1>1, <2>2, <3>1, DirectoryFacts, DirectoryPart DEF Typed, Directory
    <3>3. root' = [root EXCEPT ![n] = d]
      BY <2>2, <3>1 DEF SwapImage
    <3> QED
      BY <1>1, <3>2, <3>3, RootMoves DEF SwapImage, Typed, Optional
  <2> QED
    BY <2>1, <2>2
<1>4. RestTyped'
  BY RestMoves DEF SwapImage, Typed, RestTyped, machine, counters, ghosts
<1> QED
  BY <1>2, <1>3, <1>4 DEF Typed

(* What `compose down` does to the volumes.                                *)
DownVolumes(c, clean) ==
    [WithoutVolumes(Taken(c)) EXCEPT ![cli[c].n] =
        IF Running(cli[c].n) THEN Closed(WithoutVolumes(Taken(c))[cli[c].n], clean)
        ELSE WithoutVolumes(Taken(c))[cli[c].n]]

(* `compose down` touches the volume of its own name only.                 *)
LEMMA DownVolumesAre ==
    ASSUME StoreTyped, NEW c \in Clis, NEW clean \in BOOLEAN, cli[c].n \in Names
    PROVE  /\ DownVolumes(c, clean) \in [Names -> Optional(Volume)]
           /\ \A m \in Names \ {cli[c].n} : DownVolumes(c, clean)[m] = volume[m]
           /\ clean => DownVolumes(c, clean)[cli[c].n] = IF cli[c].keep THEN volume[cli[c].n] ELSE None
<1> DEFINE n == cli[c].n
<1>1. PICK w : w = WithoutVolumes(Taken(c))
  OBVIOUS
<1>2. /\ w \in [Names -> Optional(Volume)]
      /\ \A m \in Names : w[m] = IF m \in Taken(c) THEN None ELSE volume[m]
  BY <1>1, WithoutTyped
<1>3. PICK v : v = IF Running(n) THEN Closed(w[n], clean) ELSE w[n]
  OBVIOUS
<1>4. v \in Optional(Volume) /\ (clean => v = w[n])
  BY <1>2, <1>3, ClosedIsVolume
<1>5. DownVolumes(c, clean) = [w EXCEPT ![n] = v]
  BY <1>1, <1>3 DEF DownVolumes
<1> QED
  BY <1>2, <1>4, <1>5 DEF Taken

(* `compose down` succeeds, cleanly or not, or fails.                      *)
LEMMA DownCases ==
    ASSUME NEW c \in Clis, Down(c)
    PROVE  \/ /\ root[cli[c].n] # None /\ Goto(c, "unreg")
              /\ container' = [container EXCEPT ![cli[c].n] = None]
              /\ \E clean \in BOOLEAN :
                    /\ volume' = DownVolumes(c, clean)
                    /\ IF clean THEN NoFault /\ UNCHANGED murky ELSE Fault /\ Murky({cli[c].n})
           \/ /\ Fault /\ Murky({cli[c].n}) /\ Goto(c, "unreg") /\ UNCHANGED <<container, volume>>
           \/ /\ Fault \/ NoFault
              /\ Murky({cli[c].n}) /\ End(c) /\ UNCHANGED <<container, volume>>
  BY DEF Down, DownVolumes

(* Down keeps the types.                                                   *)
LEMMA DownTyped ==
    ASSUME Typed, NEW c \in Clis, Down(c)
    PROVE  Typed'
<1> DEFINE n == cli[c].n
<1>1. /\ cli[c].op \in {"remove", "uninstall", "restore"} /\ cli[c].pc = "down" /\ n \in Names
  BY Places DEF Typed, Down
<1>2. CliTyped'
  <2>1. CASE Goto(c, "unreg")
    BY <1>1, <2>1, Goes DEF Typed, Down, PlacesOf, RemovePcs, RestorePcs
  <2>2. CASE End(c)
    BY <2>2, Ends DEF Typed, Down
  <2> QED
    BY <2>1, <2>2 DEF Down
<1>3. /\ container' \in [Names -> Optional(Container)] /\ volume' \in [Names -> Optional(Volume)]
      /\ \A m \in Names : container'[m] # None => volume'[m] # None
  <2>1. CASE UNCHANGED <<container, volume>>
    BY <2>1 DEF Typed, StoreTyped, HasVolume
  <2>2. CASE /\ container' = [container EXCEPT ![n] = None]
             /\ \E clean \in BOOLEAN : volume' = DownVolumes(c, clean)
    <3>1. /\ volume' \in [Names -> Optional(Volume)]
          /\ \A m \in Names \ {n} : volume'[m] = volume[m]
      BY <1>1, <2>2, DownVolumesAre DEF Typed
    <3> QED
      BY <2>2, <3>1 DEF Typed, StoreTyped, HasVolume, Optional
  <2> QED
    BY <2>1, <2>2, DownCases
<1>4. StoreTyped'
  BY <1>3, VolumeMoves DEF Down, Typed
<1>5. murky' \subseteq Names /\ faults' \in Nat
  BY <1>1, DownCases DEF Murky, Fault, NoFault, Typed, RestTyped
<1>6. RestTyped'
  BY <1>5, RestMoves DEF Down, Typed, RestTyped, machine
<1> QED
  BY <1>2, <1>4, <1>6 DEF Typed

(* Sweep keeps the types.                                                  *)
LEMMA SweepTyped ==
    ASSUME Typed, NEW c \in Clis, Sweep(c)
    PROVE  Typed'
<1> DEFINE n == cli[c].n
<1>1. /\ cli[c].op \in {"remove", "uninstall"} /\ cli[c].pc = "sweep" /\ n \in Names
  BY Places DEF Typed, Sweep
<1>2. CliTyped'
  BY <1>1, Goes DEF Typed, Sweep, AfterSweep, PlacesOf, RemovePcs
<1>3. StoreTyped'
  <2>1. CASE cli[c].keep
    BY <2>1, StoreStays DEF Sweep, Store, Typed
  <2>2. CASE ~cli[c].keep
    <3>1. /\ volume' \in [Names -> Optional(Volume)]
          /\ \A m \in Names : volume'[m] = volume[m] \/ container[m] = None
      BY <2>2, WithoutTyped DEF Sweep, Removable, Typed
    <3>2. root' \in [Names -> Optional(Directory)] /\ HasSecret'
      BY <1>1, <2>2 DEF Sweep, Typed, StoreTyped, HasSecret, Optional
    <3> QED
      BY <3>1, <3>2 DEF Sweep, Typed, StoreTyped, HasVolume, GoodArchive
  <2> QED
    BY <2>1, <2>2
<1>4. RestTyped'
  BY RestMoves DEF Sweep, Typed, RestTyped, machine, counters, ghosts
<1> QED
  BY <1>2, <1>3, <1>4 DEF Typed

(* A removal that has begun to look for other users of its image goes on   *)
(* with its command.                                                       *)
LEMMA LookGoes ==
    ASSUME Typed, NEW c \in Clis, cli[c].pc \in {"rmi", "look"}, NEW p \in {"look", "next"},
           NEW S \in SUBSET Names, cli' = [cli EXCEPT ![c].pc = p, ![c].left = S],
           archive' = archive
    PROVE  /\ CliTyped'
           /\ cli'[c].pc = p /\ cli'[c].left = S /\ cli'[c].op = cli[c].op
           /\ cli'[c].n = cli[c].n /\ cli'[c].keep = cli[c].keep /\ cli'[c].rest = cli[c].rest
           /\ cli'[c].ref = cli[c].ref
           /\ \A d \in Clis \ {c} : cli'[d] = cli[d]
<1>1. /\ cli[c] \in WorkSet /\ cli[c].op \in {"remove", "uninstall"} /\ cli[c].n \in Names
      /\ cli[c].src = None
  BY Places DEF Typed
<1>2. PICK v : v = [cli[c] EXCEPT !.pc = p, !.left = S]
  OBVIOUS
<1>3. cli' = [cli EXCEPT ![c] = v]
  BY <1>2 DEF Typed, CliTyped
<1>4. /\ v \in WorkSet /\ v.pc = p /\ v.left = S /\ v.op = cli[c].op /\ v.n = cli[c].n
      /\ v.keep = cli[c].keep /\ v.rest = cli[c].rest /\ v.ref = cli[c].ref
      /\ v.src = cli[c].src /\ v.taken = cli[c].taken
  BY <1>1, <1>2 DEF WorkSet, Pcs
<1>5. Shaped(v) /\ Cardinality(v.taken) <= Cardinality(Names)
  BY <1>1, <1>4 DEF Shaped, RemovePcs, Typed, CliTyped
<1>6. CliTyped'
  BY <1>1, <1>3, <1>4, <1>5, Becomes DEF Typed
<1>7. cli'[c] = v /\ \A d \in Clis \ {c} : cli'[d] = cli[d]
  BY <1>3 DEF Typed, CliTyped
<1> QED
  BY <1>4, <1>6, <1>7

(* The last steps of a removal with --remove-image.                        *)
Rmis(c) == Rmi(c) \/ (\E m \in Names : LookForUse(c, m)) \/ RemoveImage(c)

(* Where they leave the terminals.                                         *)
RmiMoves(c) ==
    /\ CliTyped'
    /\ \/ cli'[c] = Idle
       \/ /\ cli'[c].pc \in {"look", "next"} /\ cli'[c].op = cli[c].op
          /\ cli'[c].n = cli[c].n /\ cli'[c].keep = cli[c].keep
          /\ cli'[c].rest = cli[c].rest
    /\ \A d \in Clis \ {c} : cli'[d] = cli[d]

(* They keep the types.                                                    *)
LEMMA RmiTyped ==
    ASSUME Typed, NEW c \in Clis, Rmis(c)
    PROVE  /\ Typed'
           /\ \/ cli'[c] = Idle
              \/ /\ cli'[c].pc \in {"look", "next"} /\ cli'[c].op = cli[c].op
                 /\ cli'[c].n = cli[c].n /\ cli'[c].keep = cli[c].keep
                 /\ cli'[c].rest = cli[c].rest
           /\ \A d \in Clis \ {c} : cli'[d] = cli[d]
<1>1. /\ cli[c].op \in {"remove", "uninstall"} /\ cli[c].pc \in {"rmi", "look"}
      /\ cli[c].left \in SUBSET Names /\ archive' = archive /\ CliTyped /\ cli[c] \in WorkSet
  BY Places DEF Typed, Rmis, Rmi, LookForUse, RemoveImage, WorkSet
<1>3. ASSUME Goto(c, "next")
      PROVE  RmiMoves(c)
  <2>1. "next" \in PlacesOf(cli[c].op) /\ cli[c].pc # "idle"
    BY <1>1 DEF PlacesOf, RemovePcs
  <2>2. CliTyped'
    BY <1>1, <1>3, <2>1, Goes
  <2>3. /\ cli'[c].pc = "next" /\ cli'[c].op = cli[c].op /\ cli'[c].n = cli[c].n
        /\ cli'[c].keep = cli[c].keep /\ cli'[c].rest = cli[c].rest
        /\ \A d \in Clis \ {c} : cli'[d] = cli[d]
    BY <1>1, <1>3, GotoFacts
  <2> QED
    BY <2>2, <2>3 DEF RmiMoves
<1>4. ASSUME End(c)
      PROVE  RmiMoves(c)
  <2>1. CliTyped'
    BY <1>1, <1>4, Ends
  <2>2. cli'[c] = Idle /\ \A d \in Clis \ {c} : cli'[d] = cli[d]
    BY <1>1, <1>4, EndFacts
  <2> QED
    BY <2>1, <2>2 DEF RmiMoves
<1>5. ASSUME Rmi(c)
      PROVE  RmiMoves(c)
  <2>1. Registered \in SUBSET Names
    BY DEF Registered
  <2>2. CASE Goto(c, "next")
    BY <1>3, <2>2
  <2>3. CASE cli' = [cli EXCEPT ![c].pc = "look", ![c].left = Registered]
    BY <1>1, <2>1, <2>3, LookGoes DEF RmiMoves
  <2> QED
    BY <1>5, <2>2, <2>3 DEF Rmi
<1>6. ASSUME NEW m \in Names, LookForUse(c, m)
      PROVE  RmiMoves(c)
  <2>1. CASE cli' = [cli EXCEPT ![c].left = @ \ {m}]
    <3>1. cli' = [cli EXCEPT ![c].pc = "look", ![c].left = cli[c].left \ {m}]
      <4>1. cli[c].pc = "look"
        BY <1>6 DEF LookForUse
      <4>2. [cli[c] EXCEPT !.left = cli[c].left \ {m}]
              = [cli[c] EXCEPT !.pc = "look", !.left = cli[c].left \ {m}]
        BY <1>1, <4>1 DEF WorkSet
      <4> QED
        BY <1>1, <2>1, <4>2 DEF CliTyped
    <3>2. cli[c].left \ {m} \in SUBSET Names
      BY <1>1
    <3> QED
      BY <1>1, <3>1, <3>2, LookGoes DEF RmiMoves
  <2>2. CASE cli' = [cli EXCEPT ![c].pc = "next", ![c].left = {}]
    <3>1. {} \in SUBSET Names /\ "next" \in {"look", "next"}
      OBVIOUS
    <3>2. /\ CliTyped'
          /\ cli'[c].pc = "next" /\ cli'[c].op = cli[c].op /\ cli'[c].n = cli[c].n
          /\ cli'[c].keep = cli[c].keep /\ cli'[c].rest = cli[c].rest
          /\ \A d \in Clis \ {c} : cli'[d] = cli[d]
      BY <1>1, <2>2, <3>1, LookGoes
    <3> QED
      BY <3>2 DEF RmiMoves
  <2> QED
    BY <1>6, <2>1, <2>2 DEF LookForUse
<1>11. RmiMoves(c)
  <2>1. CASE RemoveImage(c)
    BY <1>3, <1>4, <2>1 DEF RemoveImage
  <2> QED
    BY <1>5, <1>6, <2>1 DEF Rmis
<1>7. UNCHANGED <<registry, tmp, files, machine, archive, ghosts, begun, fresh>> /\ local' \subseteq Refs
  BY DEF Rmis, Rmi, LookForUse, RemoveImage, counters, Typed, StoreTyped
<1>8. StoreTyped'
  BY <1>7 DEF files, Typed, StoreTyped, HasVolume, HasSecret, GoodArchive
<1>9. faults' \in Nat
  <2>1. CASE Rmi(c)
    BY <2>1 DEF Rmi, counters, Typed, RestTyped
  <2>2. CASE ~Rmi(c)
    BY <2>2, FaultTyped DEF Rmis, LookForUse, RemoveImage, Typed
  <2> QED
    BY <2>1, <2>2
<1>10. RestTyped'
  BY <1>7, <1>9, RestMoves DEF Typed, RestTyped, machine, ghosts
<1> QED
  BY <1>8, <1>10, <1>11 DEF RmiMoves, Typed

(* RemovalEnds keeps the types.                                            *)
LEMMA RemovalEndsTyped ==
    ASSUME Typed, NEW c \in Clis, RemovalEnds(c)
    PROVE  Typed'
<1>1. CliTyped'
  BY Ends DEF Typed, RemovalEnds
<1>2. StoreTyped'
  BY StoreStays DEF RemovalEnds, Store, files, Typed
<1>3. RestTyped'
  BY RestMoves DEF RemovalEnds, Typed, RestTyped, machine, counters, ghosts
<1> QED
  BY <1>1, <1>2, <1>3 DEF Typed

(* UninstallEnds keeps the types.                                          *)
LEMMA UninstallEndsTyped ==
    ASSUME Typed, NEW c \in Clis, UninstallEnds(c)
    PROVE  Typed'
<1>1. CliTyped'
  BY Ends DEF Typed, UninstallEnds
<1>2. StoreTyped'
  BY RegistryMoves DEF UninstallEnds, files, Typed, StoreTyped, Optional
<1>3. RestTyped'
  BY Nones DEF UninstallEnds, Typed, RestTyped, counters, ghosts
<1> QED
  BY <1>1, <1>2, <1>3 DEF Typed

(* Extract keeps the types.                                                *)
LEMMA ExtractTyped ==
    ASSUME Typed, NEW c \in Clis, Extract(c)
    PROVE  Typed'
<1> DEFINE n == cli[c].n
<1>1. cli[c].op = "restore" /\ cli[c].pc = "extract" /\ n \in Names /\ archive # None
  BY Places DEF Typed, Extract
<1>2. CliTyped'
  BY <1>1, Goes DEF Typed, Extract, PlacesOf, RestorePcs
<1>3. archive.dir \in Directory /\ archive.dir.secret > 0
  BY <1>1 DEF Typed, StoreTyped, GoodArchive, Optional, Archive
<1>4. StoreTyped'
  BY <1>1, <1>3, RootMoves DEF Extract, Typed, Optional
<1>5. /\ told' \in [Names -> Nat] /\ good' \in [Names -> Optional(Refs)]
      /\ swaps' \in [Names -> Nat]
  BY <1>1 DEF Extract, Typed, RestTyped, Optional
<1>6. RestTyped'
  BY <1>5, RestMoves DEF Extract, Typed, RestTyped, machine, counters
<1> QED
  BY <1>2, <1>4, <1>6 DEF Typed

(* The port a restored instance gets: its own, or a free one.              *)
Moved(c) == archive.mode = "local" /\ root[cli[c].n].port \in TakenPorts(cli[c].n)
NewPort(c) == IF Moved(c) THEN FirstFree(TakenPorts(cli[c].n)) ELSE root[cli[c].n].port

(* The port of a restored instance is a port, and no other instance's when *)
(* it is local.                                                            *)
LEMMA NewPortIs ==
    ASSUME Typed, NEW c \in Clis, cli[c].n \in Names, root[cli[c].n] # None
    PROVE  /\ NewPort(c) \in Ports
           /\ archive.mode = "local" => NewPort(c) \notin TakenPorts(cli[c].n)
<1> DEFINE n == cli[c].n
<1>1. root[n].port \in Ports
  BY DirectoryFacts DEF Typed
<1>2. Registered \ {n} \in SUBSET Registered
  OBVIOUS
<1>3. /\ IsFiniteSet(PortsOf(Registered \ {n}))
      /\ Cardinality(PortsOf(Registered \ {n})) <= Cardinality(Names)
  BY <1>2, PortsRegistered DEF Typed, StoreTyped
<1>4. IsFiniteSet(Bound) /\ Cardinality(Bound) <= Cardinality(Names)
  BY PortsBound DEF Typed, StoreTyped
<1>5. /\ IsFiniteSet(TakenPorts(n))
      /\ Cardinality(TakenPorts(n)) <= 2 * Cardinality(Names)
  BY <1>3, <1>4, TwoSets DEF TakenPorts
<1>6. FirstFree(TakenPorts(n)) \in Ports /\ FirstFree(TakenPorts(n)) \notin TakenPorts(n)
  BY <1>5, FreePort
<1> QED
  BY <1>1, <1>6 DEF NewPort, Moved

(* Adjust keeps the types.                                                 *)
LEMMA AdjustTyped ==
    ASSUME Typed, NEW c \in Clis, Adjust(c)
    PROVE  /\ Typed'
           /\ \/ End(c) /\ UNCHANGED root
              \/ /\ cli'[c].pc = "add" /\ cli'[c].op = "restore" /\ cli'[c].n = cli[c].n
                 /\ cli'[c].port = NewPort(c)
                 /\ \A d \in Clis \ {c} : cli'[d] = cli[d]
                 /\ root'[cli[c].n] # None /\ root'[cli[c].n].secret = root[cli[c].n].secret
                 /\ \A m \in Names \ {cli[c].n} : root'[m] = root[m]
<1> DEFINE n == cli[c].n
<1>1. /\ cli[c] \in WorkSet /\ cli[c].op = "restore" /\ cli[c].pc = "adjust" /\ n \in Names
      /\ archive # None /\ root[n] # None /\ cli[c].src = None /\ cli[c].keep
  BY Places DEF Typed, Adjust
<1>2. RestTyped'
  <2>1. /\ runtime' \in {"missing", "theirs", "ours"}
        /\ choice' \in {None, "detected", "installed"}
        /\ choice' = "installed" => runtime' # "theirs"
    BY RuntimeTyped DEF Adjust, Typed
  <2> QED
    BY <2>1 DEF Adjust, Typed, RestTyped, counters, ghosts
<1>3. CASE End(c) /\ UNCHANGED root
  <2>1. CliTyped'
    BY <1>3, Ends DEF Typed, Adjust
  <2>2. StoreTyped'
    BY <1>3, StoreStays DEF Adjust, Store, Typed
  <2> QED
    BY <1>2, <1>3, <2>1, <2>2 DEF Typed
<1>4. CASE /\ root' = [root EXCEPT ![n].port = NewPort(c),
                    ![n].previous = IF Moved(c) \/ n # archive.n THEN None ELSE @]
           /\ cli' = [cli EXCEPT ![c].pc = "add", ![c].port = NewPort(c)]
  <2>1. PICK p \in Ports : p = NewPort(c)
    BY <1>1, NewPortIs
  <2>2. PICK q \in Optional(Refs) :
            q = IF Moved(c) \/ n # archive.n THEN None ELSE root[n].previous
    BY <1>1, DirectoryFacts DEF Typed, Optional
  <2>3. PICK d : d = [root[n] EXCEPT !.port = p, !.previous = q]
    OBVIOUS
  <2>4. d \in Directory /\ d.secret = root[n].secret /\ root[n].secret > 0 /\ d # None
    BY <1>1, <2>3, DirectoryFacts, Nones DEF Typed, Directory, Optional
  <2>5. root' = [root EXCEPT ![n] = d]
    BY <1>1, <1>4, <2>1, <2>2, <2>3 DEF Typed, StoreTyped
  <2>6. StoreTyped'
    BY <1>1, <2>4, <2>5, RootMoves DEF Adjust, Typed, Optional
  <2>7. PICK v : v = [cli[c] EXCEPT !.pc = "add", !.port = p]
    OBVIOUS
  <2>8. /\ v \in WorkSet /\ v.pc = "add" /\ v.port = p /\ v.op = cli[c].op /\ v.n = cli[c].n
        /\ v.ref = cli[c].ref /\ v.src = cli[c].src /\ v.keep = cli[c].keep
        /\ v.taken = cli[c].taken
    BY <1>1, <2>7 DEF WorkSet, Pcs
  <2>9. cli' = [cli EXCEPT ![c] = v]
    BY <1>1, <1>4, <2>1, <2>7 DEF Typed, CliTyped
  <2>10. Shaped(v) /\ Cardinality(v.taken) <= Cardinality(Names)
    BY <1>1, <2>8 DEF Shaped, RestorePcs, Typed, CliTyped
  <2>11. CliTyped'
    BY <1>1, <2>8, <2>9, <2>10, Becomes DEF Typed, Adjust
  <2>12. cli'[c] = v /\ \A e \in Clis \ {c} : cli'[e] = cli[e]
    BY <2>9 DEF Typed, CliTyped
  <2>13. root'[n] = d /\ \A m \in Names \ {n} : root'[m] = root[m]
    BY <1>1, <2>5 DEF Typed, StoreTyped
  <2> QED
    BY <1>1, <1>2, <2>1, <2>4, <2>6, <2>8, <2>11, <2>12, <2>13 DEF Typed
<1> QED
  BY <1>3, <1>4 DEF Adjust, NewPort, Moved

(* CreateContainer keeps the types.                                        *)
LEMMA CreateContainerTyped ==
    ASSUME Typed, NEW c \in Clis, CreateContainer(c)
    PROVE  Typed'
<1> DEFINE n == cli[c].n
<1>1. cli[c].op = "restore" /\ cli[c].pc = "create" /\ n \in Names
  BY Places DEF Typed, CreateContainer
<1>2. CliTyped'
  <2>1. CASE Goto(c, "cp")
    BY <1>1, <2>1, Goes DEF Typed, CreateContainer, PlacesOf, RestorePcs
  <2>2. CASE End(c)
    BY <2>2, Ends DEF Typed, CreateContainer
  <2> QED
    BY <2>1, <2>2 DEF CreateContainer
<1>3. StoreTyped'
  <2>1. CASE UNCHANGED <<container, volume, local>>
    BY <2>1, StoreStays DEF CreateContainer, Store, Typed
  <2>2. CASE /\ root[n] # None
             /\ container' = [container EXCEPT ![n] =
                   [status |-> "created", image |-> root[n].image, port |-> root[n].port]]
             /\ volume' = [volume EXCEPT ![n] = IF @ = None THEN Empty ELSE @]
             /\ local' = local \cup {root[n].image}
    <3>1. PICK k : k = [status |-> "created", image |-> root[n].image, port |-> root[n].port]
      OBVIOUS
    <3>2. k \in Container
      BY <1>1, <2>2, <3>1, RunsHere DEF Typed
    <3>3. PICK v \in Volume : v = IF volume[n] = None THEN Empty ELSE volume[n]
      BY <1>1, EmptyIsVolume DEF Typed, StoreTyped, Optional
    <3>4. /\ container' \in [Names -> Optional(Container)]
          /\ volume' \in [Names -> Optional(Volume)] /\ local' \subseteq Refs
          /\ \A m \in Names : container'[m] # None => volume'[m] # None
      BY <1>1, <2>2, <3>1, <3>2, <3>3, Nones, DirectoryFacts
         DEF Typed, StoreTyped, Optional, HasVolume
    <3> QED
      BY <3>4 DEF CreateContainer, Typed, StoreTyped, HasVolume, HasSecret, GoodArchive
  <2> QED
    BY <2>1, <2>2 DEF CreateContainer
<1>4. murky' \subseteq Names /\ faults' \in Nat
  BY <1>1 DEF CreateContainer, Murky, Fault, NoFault, Typed, RestTyped
<1>5. RestTyped'
  BY <1>4, RestMoves DEF CreateContainer, Typed, RestTyped, machine
<1> QED
  BY <1>2, <1>3, <1>5 DEF Typed

(* A volume the archive is copied into holds what the archive holds.       *)
LEMMA RestoredIsVolume ==
    ASSUME StoreTyped, archive # None, NEW v
    PROVE  /\ Restored(v) \in Volume
           /\ Restored(v).secret = archive.dir.secret
           /\ Restored(v).key \in {0, archive.dir.secret}
           /\ v.wal = "none" => Restored(v) = [archive.db EXCEPT !.wal = "none"]
           /\ v.wal = "none" => Restored(v).wal = "none"
<1>1. archive.db \in Volume /\ archive.db.secret = archive.dir.secret
      /\ archive.db.key \in {0, archive.dir.secret}
  BY DEF StoreTyped, GoodArchive, Optional, Archive
<1> QED
  BY <1>1 DEF Restored, Volume

(* CopyData keeps the types.                                               *)
LEMMA CopyDataTyped ==
    ASSUME Typed, NEW c \in Clis, CopyData(c)
    PROVE  Typed'
<1> DEFINE n == cli[c].n
<1>1. cli[c].op = "restore" /\ cli[c].pc = "cp" /\ n \in Names /\ archive # None
  BY Places DEF Typed, CopyData
<1>2. CliTyped'
  <2>1. CASE Goto(c, "up")
    BY <1>1, <2>1, Goes DEF Typed, CopyData, PlacesOf, RestorePcs
  <2>2. CASE End(c)
    BY <2>2, Ends DEF Typed, CopyData
  <2> QED
    BY <2>1, <2>2 DEF CopyData
<1>3. StoreTyped'
  <2>1. CASE UNCHANGED volume
    BY <2>1, StoreStays DEF CopyData, Store, Typed
  <2>2. CASE volume' = [volume EXCEPT ![n] = Restored(volume[n])]
    <3>1. Restored(volume[n]) \in Volume
      BY <1>1, RestoredIsVolume DEF Typed
    <3>2. /\ volume' \in [Names -> Optional(Volume)]
          /\ \A m \in Names : volume[m] # None => volume'[m] # None
      BY <1>1, <2>2, <3>1, Nones DEF Typed, StoreTyped, Optional
    <3> QED
      BY <3>2, VolumeMoves DEF CopyData, Typed, StoreTyped, HasVolume
  <2> QED
    BY <2>1, <2>2 DEF CopyData
<1>4. murky' \subseteq Names /\ faults' \in Nat /\ kept' \subseteq Names
  BY <1>1 DEF CopyData, Murky, Fault, NoFault, Typed, RestTyped
<1>5. RestTyped'
  BY <1>4, RestMoves DEF CopyData, Typed, RestTyped, machine
<1> QED
  BY <1>2, <1>3, <1>5 DEF Typed

(* Interrupt keeps the types.                                              *)
LEMMA InterruptTyped ==
    ASSUME Typed, NEW c \in Clis, Interrupt(c)
    PROVE  Typed'
<1>1. cli[c] \in WorkSet
  BY Places DEF Typed
<1>2. CliTyped'
  BY Ends DEF Typed, Interrupt
<1>3. StoreTyped'
  BY StoreStays DEF Interrupt, Store, files, Typed
<1>4. murky' \subseteq Names /\ faults' \in Nat
  BY <1>1 DEF Interrupt, Murky, Fault, Typed, RestTyped, WorkSet, Optional
<1>5. RestTyped'
  BY <1>4, RestMoves DEF Interrupt, Typed, RestTyped, machine
<1> QED
  BY <1>2, <1>3, <1>5 DEF Typed

(* The types hold at the start.                                            *)
LEMMA InitTyped == Init => Typed
<1> SUFFICES ASSUME Init PROVE Typed
  OBVIOUS
<1>1. CliTyped
  BY IdleIsWork, Nones DEF Init, CliTyped
<1>2. StoreTyped
  BY Nones DEF Init, StoreTyped, HasVolume, HasSecret, GoodArchive, Optional
<1>3. RestTyped
  BY Nones DEF Init, RestTyped, Optional
<1> QED
  BY <1>1, <1>2, <1>3 DEF Typed

(***************************************************************************)
(* Who disturbs whom                                                       *)
(***************************************************************************)
(* Unless everything is murky, no two commands in progress disturb each    *)
(* other: one of them at most writes the registry, and each works on a     *)
(* name of its own.                                                        *)
Alone == murky # Names =>
    \A c, d \in Clis : c # d /\ cli[c].pc # "idle" => ~Disturbs(cli[c], cli[d])

Busy(c, n) == cli[c].n = n /\ cli[c].pc \notin {"idle", "next"}

(* A terminal goes on with its command, or ends it.                        *)
Follows(c) ==
    /\ murky \subseteq murky'
    /\ \A d \in Clis \ {c} : cli'[d] = cli[d]
    /\ cli[c].pc # "idle"
    /\ \/ cli'[c] = Idle
       \/ /\ cli'[c].op = cli[c].op /\ cli'[c].pc # "idle"
          /\ cli'[c].n = cli[c].n \/ cli[c].op = "uninstall"

(* Going on is following the command.                                      *)
LEMMA GotoFollows ==
    ASSUME CliTyped, NEW c \in Clis, NEW p, Goto(c, p), p # "idle", cli[c].pc # "idle",
           murky \subseteq murky'
    PROVE  Follows(c)
  BY GotoFacts DEF Follows

(* Ending is following the command.                                        *)
LEMMA EndFollows ==
    ASSUME CliTyped, NEW c \in Clis, End(c), cli[c].pc # "idle", murky \subseteq murky'
    PROVE  Follows(c)
  BY EndFacts DEF Follows

(* Commands that do not disturb each other do not when one of them goes    *)
(* on.                                                                     *)
LEMMA AloneFollows ==
    ASSUME Typed, Typed', Alone, NEW c \in Clis, Follows(c)
    PROVE  Alone'
<1> SUFFICES ASSUME murky' # Names, NEW a \in Clis, NEW d \in Clis, a # d,
                    cli'[a].pc # "idle", Disturbs(cli'[a], cli'[d])
             PROVE  FALSE
  BY DEF Alone, Disturbs, Writers
<1>1. murky # Names
  BY DEF Follows, Typed, RestTyped
<1>2. ~Disturbs(cli[a], cli[d]) \/ cli[a].pc = "idle"
  BY <1>1 DEF Alone
<1>3. cli'[d].pc # "idle"
  BY DEF Disturbs
<1>4. cli[a].pc # "idle" /\ cli[d].pc # "idle"
  BY <1>3, IdleIsWork DEF Follows
<1>5. /\ cli'[a].n = cli[a].n \/ cli[a].op = "uninstall"
      /\ cli'[d].n = cli[d].n \/ cli[d].op = "uninstall"
      /\ cli'[a].op = cli[a].op /\ cli'[d].op = cli[d].op
  BY <1>3, IdleIsWork DEF Follows
<1>6. ~(cli[a].op = "uninstall" \/ cli[d].op = "uninstall")
  BY <1>2, <1>4 DEF Disturbs
<1>7. cli[a].n # cli[d].n /\ ~({cli[d].op, cli[a].op} \subseteq Writers)
  BY <1>2, <1>4 DEF Disturbs
<1> QED
  BY <1>5, <1>6, <1>7 DEF Disturbs

(* Commands that do not disturb each other do not when one more begins, or *)
(* what it touches is marked.                                              *)
LEMMA AloneBegins ==
    ASSUME Typed, Alone, NEW c \in Clis, NEW v, Begin(c, v), v = Idle \/ v.pc # "idle"
    PROVE  Alone'
<1> SUFFICES ASSUME murky' # Names, NEW a \in Clis, NEW d \in Clis, a # d,
                    cli'[a].pc # "idle", Disturbs(cli'[a], cli'[d])
             PROVE  FALSE
  BY DEF Alone, Disturbs, Writers
<1>1. /\ \A e \in Clis : ~Disturbs(v, cli[e])
      /\ murky # Names
  BY DEF Begin
<1>2. cli'[c] = v /\ \A e \in Clis \ {c} : cli'[e] = cli[e]
  BY DEF Begin, Typed, CliTyped
<1>3. cli'[d].pc # "idle"
  BY DEF Disturbs
<1>4. CASE a = c
  BY <1>1, <1>2, <1>4
<1>5. CASE d = c
  <2>1. Disturbs(cli[a], v) /\ cli[a].pc # "idle"
    BY <1>2, <1>5
  <2>2. Disturbs(v, cli[a])
    BY <2>1 DEF Disturbs
  <2> QED
    BY <1>1, <2>2
<1>6. CASE a # c /\ d # c
  BY <1>1, <1>2, <1>6 DEF Alone
<1> QED
  BY <1>4, <1>5, <1>6

(* Commands that do not disturb each other do not when none moves.         *)
LEMMA AloneStays ==
    ASSUME Typed, Typed', Alone, UNCHANGED cli, murky \subseteq murky'
    PROVE  Alone'
<1>1. murky' # Names => murky # Names
  BY DEF Typed, RestTyped
<1> QED
  BY <1>1 DEF Alone, Disturbs, Writers

(***************************************************************************)
(* The registry and its temporary file                                     *)
(***************************************************************************)
ModeIn(w) == IF w.op = "restore" THEN archive.mode ELSE ModeOf(w.n)

(* What the command w, if it writes the registry, knows of it: it read the *)
(* registry, and nobody wrote it since; the port it chose is free; and to  *)
(* uninstall leaves no name behind, and to remove takes no other along.    *)
WrittenFor(w) ==
    /\ w.pc \in {"leftover", "files", "extract", "adjust", "add", "addput", "sweep", "rmi", "look"}
         => registry[w.n] = None
    /\ w.pc = "addput" =>
         tmp = [registry EXCEPT ![w.n] = [port |-> w.port, mode |-> ModeIn(w)]]
    /\ w.pc = "unregput" => tmp = [registry EXCEPT ![w.n] = None]
    /\ w.pc \in {"leftover", "files"} => PortsOf(Registered) \subseteq w.taken
    /\ w.pc \in {"add", "addput"} => ModeIn(w) = "network" \/ w.port \notin PortsOf(Registered)
    /\ w.op = "uninstall" =>
         Registered \subseteq w.rest \cup (IF w.pc \in {"down", "unreg", "unregput"} THEN {w.n} ELSE {})
    /\ w.op = "remove" => w.rest = {}

PortsApart == \A n, m \in Registered : n # m =>
    \/ registry[n].mode = "network" \/ registry[m].mode = "network"
    \/ registry[n].port # registry[m].port

Written == murky # Names => (\A c \in Clis : WrittenFor(cli[c])) /\ PortsApart

(* What a command knows of the registry stays true while nobody writes it. *)
LEMMA WrittenSame ==
    ASSUME Typed, Typed', Written, UNCHANGED <<registry, tmp>>, archive' = archive \/ archive = None,
           NEW c \in Clis, cli'[c] = cli[c], WrittenFor(cli[c])
    PROVE  WrittenFor(cli[c])'
<1>1. PortsOf(Registered)' = PortsOf(Registered) /\ Registered' = Registered
  BY DEF PortsOf, Registered
<1>2. cli[c].op = "restore" => archive' = archive
  BY Places DEF Typed
<1>3. ModeIn(cli[c])' = ModeIn(cli[c])
  BY <1>2 DEF ModeIn, ModeOf
<1> QED
  BY <1>1, <1>3 DEF WrittenFor

(* Ports that differ stay different while nobody writes the registry.      *)
LEMMA PortsApartSame ==
    ASSUME PortsApart, UNCHANGED registry
    PROVE  PortsApart'
  BY DEF PortsApart, Registered

(* A terminal that does nothing has nothing to know of the registry.       *)
LEMMA IdleWritten == WrittenFor(Idle)
  BY IdleIsWork DEF WrittenFor

(* What the commands know of the registry stays true when one of them goes *)
(* on.                                                                     *)
LEMMA WrittenFollows ==
    ASSUME Typed, Typed', Alone, Written, NEW c \in Clis, Follows(c),
           murky' # Names => /\ UNCHANGED <<registry, tmp>> \/ cli[c].op \in Writers
                             /\ UNCHANGED archive
                             /\ WrittenFor(cli[c])'
                             /\ PortsApart'
    PROVE  Written'
<1> SUFFICES ASSUME murky' # Names, NEW d \in Clis, d # c
             PROVE  WrittenFor(cli[d])'
  BY DEF Written
<1>1. murky # Names
  BY DEF Follows, Typed, RestTyped
<1>2. cli'[d] = cli[d] /\ WrittenFor(cli[d])
  BY <1>1 DEF Follows, Written
<1>3. CASE UNCHANGED <<registry, tmp>>
  BY <1>2, <1>3, WrittenSame
<1>4. CASE cli[c].op \in Writers
  <2>1. cli[d].op \notin Writers
    <3> SUFFICES ASSUME cli[d].op \in Writers PROVE FALSE
      OBVIOUS
    <3>1. cli[d].pc # "idle" /\ cli[c].pc # "idle"
      BY Places DEF Typed, Writers, Follows
    <3> QED
      BY <1>1, <1>4, <3>1 DEF Alone, Disturbs
  <2>2. /\ cli'[d].pc \notin {"leftover", "files", "extract", "adjust", "add", "addput", "sweep",
                              "rmi", "look", "unregput"}
        /\ cli'[d].op \notin {"uninstall", "remove"}
    BY <1>2, <2>1, Places DEF Typed, Writers
  <2> QED
    BY <2>2 DEF WrittenFor
<1> QED
  BY <1>3, <1>4

(* What the commands know of the registry stays true when one more begins. *)
LEMMA WrittenBegins ==
    ASSUME Typed, Typed', Written, NEW c \in Clis, NEW v, Begin(c, v),
           UNCHANGED <<registry, tmp, archive>>, murky' # Names => WrittenFor(cli[c])'
    PROVE  Written'
<1> SUFFICES ASSUME murky' # Names
             PROVE  (\A d \in Clis : WrittenFor(cli[d])') /\ PortsApart'
  BY DEF Written
<1>1. murky # Names
  BY DEF Begin
<1>2. \A d \in Clis \ {c} : cli'[d] = cli[d]
  BY DEF Begin, Typed, CliTyped
<1>3. ASSUME NEW d \in Clis, d # c
      PROVE  WrittenFor(cli[d])'
  BY <1>1, <1>2, <1>3, WrittenSame DEF Written
<1> QED
  BY <1>1, <1>3, PortsApartSame DEF Written

(* What the commands know of the registry stays true when no terminal      *)
(* moves.                                                                  *)
LEMMA WrittenStays ==
    ASSUME Typed, Typed', Written, UNCHANGED <<cli, registry, tmp>>,
           archive' = archive \/ archive = None, murky \subseteq murky'
    PROVE  Written'
<1> SUFFICES ASSUME murky' # Names
             PROVE  (\A d \in Clis : WrittenFor(cli[d])') /\ PortsApart'
  BY DEF Written
<1>1. murky # Names
  BY DEF Typed, RestTyped
<1> QED
  BY <1>1, WrittenSame, PortsApartSame DEF Written

(***************************************************************************)
(* One name, and the command at work on it                                 *)
(***************************************************************************)
(* The secrets in the volume are those of the directory, or none yet.      *)
Opens(n) ==
    /\ volume[n].secret \in {0, root[n].secret} /\ volume[n].key \in {0, root[n].secret}
    /\ Running(n) => volume[n].secret = root[n].secret

(* No other instance's volume filter shows the volume of n.                *)
OwnVolume(n) == \A m \in Names : <<m, n>> \in Match => m = n

(* What holds of a sound name n while the command w is at work on it.      *)
Sane(w, n) ==
    /\ volume[n] # None => volume[n].wal = "none"
    /\ container[n] # None => registry[n] # None /\ root[n] # None
    /\ container[n] # None /\ w.pc # "cp" => Opens(n)
    /\ w.op \in {"none", "update", "rollback"} \/ w.pc \in {"cp", "import"}
         => (registry[n] # None => container[n] # None)
    /\ w.op \in {"update", "rollback"} \/ w.pc \in {"up", "create", "cp", "import"}
         => registry[n] # None
    /\ w.pc \in {"unreg", "unregput", "sweep", "rmi", "look", "leftover", "files", "extract",
                 "adjust", "add", "addput", "create"} => container[n] = None

Told(w, n) == told[n] # 0 =>
    /\ volume[n] # None => volume[n].secret = told[n]
    /\ container[n] # None => root[n].secret = told[n]

Named(w, n) == good[n] # None /\ root[n] # None =>
    /\ swaps[n] = 0 => good[n] = root[n].image
    /\ swaps[n] = 1 => good[n] \in {root[n].image, root[n].previous}
    /\ w.pc = "swap" => swaps[n] > 0 /\ (swaps[n] = 1 => good[n] = root[n].previous)

Kept(w, n) ==
    /\ n \in kept /\ OwnVolume(n) => volume[n] # None
    /\ w.op \in {"remove", "uninstall"} /\ ~w.keep => n \notin kept

Creating(w, n) == w.op = "create" =>
    /\ w.pc \in {"files", "add", "addput", "up"} => volume[n] = None /\ container[n] = None
    /\ w.pc \in {"add", "addput", "up"}
         => root[n] # None /\ root[n].secret = w.secret /\ told[n] = 0

Restoring(w, n) == w.op = "restore" =>
    /\ w.pc \in {"adjust", "add", "addput", "create", "cp", "up"} =>
         root[n] # None /\ root[n].secret = archive.dir.secret /\ told[n] = 0 /\ good[n] = None
    /\ w.pc \in {"cp", "up"} => container[n] # None /\ ~Running(n)
    /\ w.pc = "up" => volume[n] = [archive.db EXCEPT !.wal = "none"]

Right(w, n) ==
    /\ Sane(w, n) /\ Told(w, n) /\ Named(w, n) /\ Kept(w, n)
    /\ Creating(w, n) /\ Restoring(w, n)

NamesRight == \A n \in Names \ murky :
    /\ \A c \in Clis : Busy(c, n) => Right(cli[c], n)
    /\ (\A c \in Clis : ~Busy(c, n)) => Right(Idle, n)

(* A step of the command on n leaves the other names alone, but for        *)
(* volumes without a container that the filter of n shows.                 *)
Elsewhere(n) == \A m \in Names \ (murky' \cup {n}) :
    /\ registry'[m] = registry[m] /\ root'[m] = root[m] /\ container'[m] = container[m]
    /\ told'[m] = told[m] /\ good'[m] = good[m] /\ swaps'[m] = swaps[m]
    /\ m \in kept' <=> m \in kept
    /\ \/ volume'[m] = volume[m]
       \/ container[m] = None /\ volume'[m] = None /\ <<n, m>> \in Match

(* What holds of another name, with a command at work on it, still holds.  *)
LEMMA ElsewhereBusy ==
    ASSUME NEW n \in Optional(Names), Elsewhere(n), NEW m \in Names \ (murky' \cup {n}),
           NEW d \in Clis, cli'[d] = cli[d], UNCHANGED archive, Right(cli[d], m)
    PROVE  Right(cli[d], m)'
<1>1. /\ registry'[m] = registry[m] /\ root'[m] = root[m] /\ container'[m] = container[m]
      /\ told'[m] = told[m] /\ good'[m] = good[m] /\ swaps'[m] = swaps[m]
      /\ m \in kept' <=> m \in kept
      /\ \/ volume'[m] = volume[m]
         \/ container[m] = None /\ volume'[m] = None /\ <<n, m>> \in Match
  BY DEF Elsewhere
<1>2. OwnVolume(m) => volume'[m] = volume[m]
  BY <1>1, LifecycleAssumption DEF OwnVolume
<1>3. Running(m)' <=> Running(m)
  BY <1>1 DEF Running
<1>4. Sane(cli[d], m)'
  BY <1>1, <1>3 DEF Right, Sane, Opens
<1>5. Told(cli[d], m)' /\ Named(cli[d], m)'
  BY <1>1 DEF Right, Told, Named
<1>6. Kept(cli[d], m)'
  BY <1>1, <1>2 DEF Right, Kept, OwnVolume
<1>7. Creating(cli[d], m)'
  BY <1>1 DEF Right, Creating
<1>8. Restoring(cli[d], m)'
  BY <1>1, <1>3 DEF Right, Restoring
<1> QED
  BY <1>4, <1>5, <1>6, <1>7, <1>8 DEF Right

(* What holds of another name, with no command at work on it, still holds. *)
LEMMA ElsewhereIdle ==
    ASSUME NEW n \in Optional(Names), Elsewhere(n), NEW m \in Names \ (murky' \cup {n}),
           Right(Idle, m)
    PROVE  Right(Idle, m)'
<1>1. /\ registry'[m] = registry[m] /\ root'[m] = root[m] /\ container'[m] = container[m]
      /\ told'[m] = told[m] /\ good'[m] = good[m] /\ swaps'[m] = swaps[m]
      /\ m \in kept' <=> m \in kept
      /\ \/ volume'[m] = volume[m]
         \/ container[m] = None /\ volume'[m] = None /\ <<n, m>> \in Match
  BY DEF Elsewhere
<1>2. OwnVolume(m) => volume'[m] = volume[m]
  BY <1>1, LifecycleAssumption DEF OwnVolume
<1>3. Running(m)' <=> Running(m)
  BY <1>1 DEF Running
<1>4. Sane(Idle, m)'
  BY <1>1, <1>3, IdleIsWork DEF Right, Sane, Opens
<1>5. Told(Idle, m)' /\ Named(Idle, m)'
  BY <1>1, IdleIsWork DEF Right, Told, Named
<1>6. Kept(Idle, m)'
  BY <1>1, <1>2, IdleIsWork DEF Right, Kept, OwnVolume
<1>7. Creating(Idle, m)' /\ Restoring(Idle, m)'
  BY IdleIsWork DEF Creating, Restoring
<1> QED
  BY <1>4, <1>5, <1>6, <1>7 DEF Right

(* The name a command is about has no other one at work on it.             *)
About(c, n) == cli[c].pc # "idle" /\ (cli[c].n = n \/ cli[c].op = "uninstall")

(* A sound name that a command is at work on, or nobody, has what holds of *)
(* it.                                                                     *)
LEMMA OwnBefore ==
    ASSUME Typed, Alone, NamesRight, NEW c \in Clis, NEW n \in Names \ murky, About(c, n)
    PROVE  /\ \A d \in Clis \ {c} : ~Busy(d, n)
           /\ IF Busy(c, n) THEN Right(cli[c], n) ELSE Right(Idle, n)
<1>1. murky # Names
  OBVIOUS
<1>2. ASSUME NEW d \in Clis, d # c, Busy(d, n)
      PROVE  FALSE
  <2>1. cli[d].pc # "idle" /\ cli[d].n = n
    BY <1>2 DEF Busy
  <2>2. Disturbs(cli[d], cli[c])
    BY <2>1 DEF About, Disturbs
  <2> QED
    BY <1>1, <1>2, <2>1, <2>2 DEF Alone
<1> QED
  BY <1>2 DEF NamesRight

(* Every sound name keeps what holds of it when a command goes on, if its  *)
(* own name does.                                                          *)
LEMMA NamesFollow ==
    ASSUME Typed, Typed', Alone, NamesRight, NEW c \in Clis, Follows(c), UNCHANGED archive,
           NEW n \in Names, About(c, n), Elsewhere(n),
           \A m \in Names \ {n} : ~Busy(c, m) /\ ~Busy(c, m)',
           n \notin murky' => /\ Busy(c, n)' => Right(cli[c], n)'
                              /\ ~Busy(c, n)' => Right(Idle, n)'
    PROVE  NamesRight'
<1>1. \A d \in Clis \ {c} : cli'[d] = cli[d]
  BY DEF Follows
<1>2. \A m \in Names, d \in Clis \ {c} : Busy(d, m)' <=> Busy(d, m)
  BY <1>1 DEF Busy
<1> SUFFICES ASSUME NEW m \in Names \ murky'
             PROVE  /\ \A d \in Clis : Busy(d, m)' => Right(cli[d], m)'
                    /\ (\A d \in Clis : ~Busy(d, m)') => Right(Idle, m)'
  BY DEF NamesRight
<1>3. m \notin murky
  BY DEF Follows
<1>4. CASE m = n
  <2>1. \A d \in Clis \ {c} : ~Busy(d, m)'
    BY <1>2, <1>3, <1>4, OwnBefore
  <2> QED
    BY <1>4, <2>1
<1>5. CASE m # n
  <2>1. ~Busy(c, m) /\ ~Busy(c, m)'
    BY <1>5
  <2>2. ASSUME NEW d \in Clis, Busy(d, m)'
        PROVE  Right(cli[d], m)'
    <3>1. d # c /\ Busy(d, m) /\ cli'[d] = cli[d]
      BY <1>1, <1>2, <2>1, <2>2
    <3>2. Right(cli[d], m)
      BY <1>3, <3>1 DEF NamesRight
    <3> QED
      BY <1>5, <3>1, <3>2, ElsewhereBusy DEF Optional
  <2>3. ASSUME \A d \in Clis : ~Busy(d, m)'
        PROVE  Right(Idle, m)'
    <3>1. \A d \in Clis : ~Busy(d, m)
      BY <1>2, <2>1, <2>3
    <3>2. Right(Idle, m)
      BY <1>3, <3>1 DEF NamesRight
    <3> QED
      BY <1>5, <3>2, ElsewhereIdle DEF Optional
  <2> QED
    BY <2>2, <2>3
<1> QED
  BY <1>4, <1>5

(* A step of a terminal that changes nothing of any name.                  *)
LEMMA NamesFollowNone ==
    ASSUME Typed, Typed', NamesRight, NEW c \in Clis, Follows(c), UNCHANGED archive,
           Elsewhere(None), \A m \in Names : ~Busy(c, m) /\ ~Busy(c, m)'
    PROVE  NamesRight'
<1>1. \A d \in Clis \ {c} : cli'[d] = cli[d]
  BY DEF Follows
<1>2. \A m \in Names, d \in Clis \ {c} : Busy(d, m)' <=> Busy(d, m)
  BY <1>1 DEF Busy
<1> SUFFICES ASSUME NEW m \in Names \ murky'
             PROVE  /\ \A d \in Clis : Busy(d, m)' => Right(cli[d], m)'
                    /\ (\A d \in Clis : ~Busy(d, m)') => Right(Idle, m)'
  BY DEF NamesRight
<1>3. m \notin murky /\ m # None
  BY Nones DEF Follows
<1>4. ASSUME NEW d \in Clis, Busy(d, m)'
      PROVE  Right(cli[d], m)'
  <2>1. d # c /\ Busy(d, m) /\ cli'[d] = cli[d]
    BY <1>1, <1>2, <1>4
  <2>2. Right(cli[d], m)
    BY <1>3, <2>1 DEF NamesRight
  <2> QED
    BY <1>3, <2>1, <2>2, ElsewhereBusy DEF Optional
<1>5. ASSUME \A d \in Clis : ~Busy(d, m)'
      PROVE  Right(Idle, m)'
  <2>1. Right(Idle, m)
    BY <1>2, <1>3, <1>5 DEF NamesRight
  <2> QED
    BY <1>3, <2>1, ElsewhereIdle DEF Optional
<1> QED
  BY <1>4, <1>5

(* A command begins on a name nobody is at work on.                        *)
LEMMA NamesBegin ==
    ASSUME Typed, Typed', NamesRight, NEW c \in Clis, NEW v, Begin(c, v), UNCHANGED archive,
           NEW n \in Names, v.n = n, v.pc \notin {"idle", "next"}, Elsewhere(n),
           n \notin murky' /\ Right(Idle, n) => Right(cli[c], n)'
    PROVE  NamesRight'
<1>1. cli'[c] = v /\ cli[c] = Idle /\ \A d \in Clis \ {c} : cli'[d] = cli[d]
  BY Places DEF Begin, Typed, CliTyped
<1>2. \A m \in Names, d \in Clis \ {c} : Busy(d, m)' <=> Busy(d, m)
  BY <1>1 DEF Busy
<1>3. (\A m \in Names : ~Busy(c, m)) /\ \A m \in Names : Busy(c, m)' <=> m = n
  BY <1>1, IdleIsWork DEF Busy
<1> SUFFICES ASSUME NEW m \in Names \ murky'
             PROVE  /\ \A d \in Clis : Busy(d, m)' => Right(cli[d], m)'
                    /\ (\A d \in Clis : ~Busy(d, m)') => Right(Idle, m)'
  BY DEF NamesRight
<1>4. m \notin murky
  BY DEF Begin
<1>5. CASE m = n
  <2>1. \A d \in Clis : ~Disturbs(v, cli[d])
    BY DEF Begin
  <2>2. \A d \in Clis : ~Busy(d, m)
    BY <1>5, <2>1 DEF Disturbs, Busy
  <2>3. Right(cli[c], n)'
    BY <1>4, <1>5, <2>2 DEF NamesRight
  <2> QED
    BY <1>2, <1>3, <1>5, <2>2, <2>3
<1>6. CASE m # n
  <2>2. ASSUME NEW d \in Clis, Busy(d, m)'
        PROVE  Right(cli[d], m)'
    <3>1. d # c /\ Busy(d, m) /\ cli'[d] = cli[d]
      BY <1>1, <1>2, <1>3, <1>6, <2>2
    <3>2. Right(cli[d], m)
      BY <1>4, <3>1 DEF NamesRight
    <3> QED
      BY <1>6, <3>1, <3>2, ElsewhereBusy DEF Optional
  <2>3. ASSUME \A d \in Clis : ~Busy(d, m)'
        PROVE  Right(Idle, m)'
    <3>1. Right(Idle, m)
      BY <1>2, <1>3, <1>4, <2>3 DEF NamesRight
    <3> QED
      BY <1>6, <3>1, ElsewhereIdle DEF Optional
  <2> QED
    BY <2>2, <2>3
<1> QED
  BY <1>5, <1>6

(* Every sound name keeps what holds of it when a command begins on no     *)
(* name.                                                                   *)
LEMMA NamesBeginNone ==
    ASSUME Typed, Typed', NamesRight, NEW c \in Clis, NEW v, Begin(c, v), UNCHANGED archive,
           v.pc \in {"idle", "next"}, Elsewhere(None)
    PROVE  NamesRight'
<1>1. cli'[c] = v /\ cli[c] = Idle /\ \A d \in Clis \ {c} : cli'[d] = cli[d]
  BY Places DEF Begin, Typed, CliTyped
<1>2. \A m \in Names, d \in Clis : Busy(d, m)' <=> Busy(d, m)
  BY <1>1, IdleIsWork DEF Busy
<1> SUFFICES ASSUME NEW m \in Names \ murky'
             PROVE  /\ \A d \in Clis : Busy(d, m)' => Right(cli[d], m)'
                    /\ (\A d \in Clis : ~Busy(d, m)') => Right(Idle, m)'
  BY DEF NamesRight
<1>3. m \notin murky /\ m # None
  BY Nones DEF Begin
<1>4. ASSUME NEW d \in Clis, Busy(d, m)'
      PROVE  Right(cli[d], m)'
  <2>1. d # c /\ Busy(d, m) /\ cli'[d] = cli[d]
    BY <1>1, <1>2, <1>4, IdleIsWork DEF Busy
  <2>2. Right(cli[d], m)
    BY <1>3, <2>1 DEF NamesRight
  <2> QED
    BY <1>3, <2>1, <2>2, ElsewhereBusy DEF Optional
<1>5. ASSUME \A d \in Clis : ~Busy(d, m)'
      PROVE  Right(Idle, m)'
  <2>1. Right(Idle, m)
    BY <1>2, <1>3, <1>5 DEF NamesRight
  <2> QED
    BY <1>3, <2>1, ElsewhereIdle DEF Optional
<1> QED
  BY <1>4, <1>5

(* A step that is no terminal's: the commands stay where they are.         *)
LEMMA NamesStay ==
    ASSUME Typed, Typed', NamesRight, UNCHANGED cli, UNCHANGED archive, murky \subseteq murky',
           NEW n \in Names, Elsewhere(n),
           n \notin murky' =>
             /\ \A c \in Clis : Busy(c, n) /\ Right(cli[c], n) => Right(cli[c], n)'
             /\ (\A c \in Clis : ~Busy(c, n)) /\ Right(Idle, n) => Right(Idle, n)'
    PROVE  NamesRight'
<1>1. \A m \in Names, d \in Clis : Busy(d, m)' <=> Busy(d, m)
  BY DEF Busy
<1> SUFFICES ASSUME NEW m \in Names \ murky'
             PROVE  /\ \A d \in Clis : Busy(d, m)' => Right(cli[d], m)'
                    /\ (\A d \in Clis : ~Busy(d, m)') => Right(Idle, m)'
  BY DEF NamesRight
<1>2. CASE m = n
  BY <1>1, <1>2 DEF NamesRight
<1>3. CASE m # n
  <2>1. ASSUME NEW d \in Clis, Busy(d, m)'
        PROVE  Right(cli[d], m)'
    <3>1. Right(cli[d], m) /\ cli'[d] = cli[d]
      BY <1>1, <2>1 DEF NamesRight
    <3> QED
      BY <1>3, <3>1, ElsewhereBusy DEF Optional
  <2>2. ASSUME \A d \in Clis : ~Busy(d, m)'
        PROVE  Right(Idle, m)'
    <3>1. Right(Idle, m)
      BY <1>1, <2>2 DEF NamesRight
    <3> QED
      BY <1>3, <3>1, ElsewhereIdle DEF Optional
  <2> QED
    BY <2>1, <2>2
<1> QED
  BY <1>2, <1>3

IInv == Typed /\ Alone /\ Written /\ NamesRight

(* The app's first start on a volume in order leaves it in order.          *)
LEMMA BootedKeeps ==
    ASSUME NEW v \in Volume, NEW s \in Nat, s > 0, v.secret \in {0, s}, v.key \in {0, s},
           v.wal = "none"
    PROVE  /\ Booted(v, s).secret = s /\ Booted(v, s).key \in {0, s} /\ Booted(v, s).wal = "none"
<1>1. v # None
  BY Nones
<1>2. CASE v.secret = 0
  BY <1>2 DEF Booted
<1>3. CASE v.secret # 0
  <2>1. Booted(v, s) = [v EXCEPT !.wal = IF v.wal = "foreign" THEN "foreign" ELSE "none"]
    BY <1>1, <1>3 DEF Booted
  <2> QED
    BY <1>3, <2>1 DEF Volume
<1> QED
  BY <1>2, <1>3

(* A container of a sound name is started, stopped or found as it was, and *)
(* no command is at work on the name.                                      *)
LEMMA Opened ==
    ASSUME Typed, Typed', NEW n \in Names, Right(Idle, n), container[n] # None, container'[n] # None,
           registry'[n] = registry[n], root'[n] = root[n], told'[n] = told[n],
           good'[n] = good[n], swaps'[n] = swaps[n], n \in kept' <=> n \in kept,
           \/ volume'[n] = Booted(volume[n], root[n].secret)
           \/ volume'[n] = volume[n] /\ (Running(n)' => Running(n))
    PROVE  Right(Idle, n)'
<1>1. /\ volume[n] \in Volume /\ volume[n] # None /\ volume'[n] # None
  BY ContainerFacts, Nones DEF Typed, StoreTyped, HasVolume
<1>2. Sane(Idle, n) /\ Opens(n) /\ root[n] # None
  BY IdleIsWork DEF Right, Sane
<1>3. root[n].secret \in Nat /\ root[n].secret > 0
  BY <1>2, DirectoryFacts DEF Typed
<1>4. /\ volume'[n].wal = "none" /\ Opens(n)'
      /\ volume[n].secret # 0 => volume'[n].secret = volume[n].secret
  <2>1. CASE volume'[n] = Booted(volume[n], root[n].secret)
    <3>1. /\ volume'[n].secret = root[n].secret /\ volume'[n].key \in {0, root[n].secret}
          /\ volume'[n].wal = "none"
      BY <1>1, <1>2, <1>3, <2>1, BootedKeeps DEF Opens, Sane
    <3> QED
      BY <1>2, <3>1 DEF Opens
  <2>2. CASE volume'[n] = volume[n] /\ (Running(n)' => Running(n))
    BY <1>1, <1>2, <2>2 DEF Opens, Sane
  <2> QED
    BY <2>1, <2>2
<1>5. Sane(Idle, n)'
  BY <1>2, <1>4, IdleIsWork DEF Sane
<1>6. Told(Idle, n)'
  BY <1>1, <1>4 DEF Right, Told
<1>7. Named(Idle, n)' /\ Kept(Idle, n)'
  BY <1>1, IdleIsWork DEF Right, Named, Kept
<1>8. Creating(Idle, n)' /\ Restoring(Idle, n)'
  BY IdleIsWork DEF Creating, Restoring
<1> QED
  BY <1>5, <1>6, <1>7, <1>8 DEF Right

(* No command is at work on a name that a step from outside does not mark. *)
LEMMA MarkedMeans ==
    ASSUME Typed, NEW n \in Names, n \notin Marked(n)
    PROVE  \A c \in Clis : ~Busy(c, n)
  BY DEF Marked, Busy

(* StartInstance keeps the invariant.                                      *)
LEMMA StartInstanceTreats ==
    ASSUME IInv, NEW n \in Names, StartInstance(n)
    PROVE  IInv'
<1>1. Typed'
  BY StartInstanceTyped DEF IInv
<1>2. UNCHANGED <<cli, archive, registry, tmp>> /\ murky \subseteq murky'
  BY DEF StartInstance, Murky
<1>3. Alone' /\ Written'
  BY <1>1, <1>2, AloneStays, WrittenStays DEF IInv
<1>4. /\ Elsewhere(n) /\ registry'[n] = registry[n] /\ root'[n] = root[n]
      /\ told'[n] = told[n] /\ good'[n] = good[n] /\ swaps'[n] = swaps[n] /\ kept' = kept
  BY DEF StartInstance, Elsewhere, IInv, Typed, StoreTyped
<1>5. container[n] # None /\ container'[n] # None
  <2>1. PICK status \in {"created", "running", "exited"} :
            container' = [container EXCEPT ![n].status = status]
    BY ContainerFacts DEF StartInstance, IInv, Typed, Container
  <2> QED
    BY <2>1, StatusOnly DEF StartInstance, IInv, Typed
<1>6. \/ volume'[n] = Booted(volume[n], root[n].secret)
      \/ volume'[n] = volume[n] /\ (Running(n)' => Running(n))
  <2>1. CASE container[n].port \in Bound \/ container[n].image \in Broken
    <3>1. volume'[n] = volume[n]
      BY <2>1 DEF StartInstance, IInv, Typed, StoreTyped
    <3>2. ~Running(n)'
      <4>1. container[n] \in Container /\ container[n].status # "running"
        BY <1>5, ContainerFacts DEF StartInstance, Running, IInv, Typed
      <4>2. container'[n] = [container[n] EXCEPT !.status =
                IF container[n].port \in Bound THEN container[n].status ELSE "exited"]
        BY <2>1 DEF StartInstance, IInv, Typed, StoreTyped
      <4>3. container'[n].status # "running"
        BY <4>1, <4>2 DEF Container
      <4> QED
        BY <4>3 DEF Running
    <3> QED
      BY <3>1, <3>2
  <2>2. CASE ~(container[n].port \in Bound \/ container[n].image \in Broken)
    BY <2>2 DEF StartInstance, IInv, Typed, StoreTyped
  <2> QED
    BY <2>1, <2>2
<1>7. n \notin murky' => (\A c \in Clis : ~Busy(c, n)) /\ (Right(Idle, n) => Right(Idle, n)')
  BY <1>1, <1>4, <1>5, <1>6, Opened, MarkedMeans DEF StartInstance, Murky, IInv
<1>8. NamesRight'
  BY <1>1, <1>2, <1>4, <1>7, NamesStay DEF IInv
<1> QED
  BY <1>1, <1>3, <1>8 DEF IInv

(* RestartInstance keeps the invariant.                                    *)
LEMMA RestartInstanceTreats ==
    ASSUME IInv, NEW n \in Names, RestartInstance(n)
    PROVE  IInv'
<1>1. Typed'
  BY RestartInstanceTyped DEF IInv
<1>2. UNCHANGED <<cli, archive, registry, tmp>> /\ murky \subseteq murky'
  BY DEF RestartInstance, Murky
<1>3. Alone' /\ Written'
  BY <1>1, <1>2, AloneStays, WrittenStays DEF IInv
<1>4. /\ Elsewhere(n) /\ registry'[n] = registry[n] /\ root'[n] = root[n]
      /\ told'[n] = told[n] /\ good'[n] = good[n] /\ swaps'[n] = swaps[n] /\ kept' = kept
  BY DEF RestartInstance, Elsewhere, IInv, Typed, StoreTyped
<1>5. PICK status \in {"running", "exited"} :
            /\ container' = [container EXCEPT ![n].status = status]
            /\ volume'[n] = IF status = "exited" THEN volume[n] ELSE Booted(volume[n], root[n].secret)
  BY DEF RestartInstance, IInv, Typed, StoreTyped
<1>6. container[n] # None /\ container'[n] # None /\ container'[n].status = status
  BY <1>5, StatusOnly DEF RestartInstance, IInv, Typed, StoreTyped, HasVolume
<1>7. \/ volume'[n] = Booted(volume[n], root[n].secret)
      \/ volume'[n] = volume[n] /\ (Running(n)' => Running(n))
  BY <1>5, <1>6 DEF Running
<1>8. n \notin murky' => (\A c \in Clis : ~Busy(c, n)) /\ (Right(Idle, n) => Right(Idle, n)')
  BY <1>1, <1>4, <1>6, <1>7, Opened, MarkedMeans DEF RestartInstance, Murky, IInv
<1>9. NamesRight'
  BY <1>1, <1>2, <1>4, <1>8, NamesStay DEF IInv
<1> QED
  BY <1>1, <1>3, <1>9 DEF IInv

(* StopInstance keeps the invariant.                                       *)
LEMMA StopInstanceTreats ==
    ASSUME IInv, NEW n \in Names, StopInstance(n)
    PROVE  IInv'
<1>1. Typed'
  BY StopInstanceTyped DEF IInv
<1>2. UNCHANGED <<cli, archive, registry, tmp>> /\ murky \subseteq murky'
  BY DEF StopInstance, Murky
<1>3. Alone' /\ Written'
  BY <1>1, <1>2, AloneStays, WrittenStays DEF IInv
<1>4. /\ Elsewhere(n) /\ registry'[n] = registry[n] /\ root'[n] = root[n]
      /\ told'[n] = told[n] /\ good'[n] = good[n] /\ swaps'[n] = swaps[n] /\ kept' = kept
  BY DEF StopInstance, Elsewhere, IInv, Typed, StoreTyped
<1>5. container[n] # None /\ container'[n] # None /\ container'[n].status = "exited"
  BY StatusOnly DEF StopInstance, Running, IInv, Typed, StoreTyped, HasVolume
<1>6. PICK clean \in BOOLEAN :
        /\ volume' = [volume EXCEPT ![n] = Closed(volume[n], clean)]
        /\ IF clean THEN NoFault /\ Murky(Marked(n)) ELSE Fault /\ Murky({n})
  BY DEF StopInstance
<1>7. n \notin murky' => /\ volume'[n] = volume[n] /\ n \notin Marked(n)
  BY <1>6, ClosedIsVolume DEF Murky, IInv, Typed, StoreTyped
<1>8. n \notin murky' => (\A c \in Clis : ~Busy(c, n)) /\ (Right(Idle, n) => Right(Idle, n)')
  BY <1>1, <1>4, <1>5, <1>7, Opened, MarkedMeans DEF Running, IInv
<1>9. NamesRight'
  BY <1>1, <1>2, <1>4, <1>8, NamesStay DEF IInv
<1> QED
  BY <1>1, <1>3, <1>9 DEF IInv

(* The program stores a key: whatever the command w is doing to the name,  *)
(* if the program runs it opens its own database.                          *)
LEMMA KeyStored ==
    ASSUME Typed, Typed', NEW n \in Names, NEW w, Right(w, n), Running(n), NEW key \in Nat,
           w.op = "create" => w.pc \notin {"files", "add", "addput", "up"},
           w.op = "restore" => w.pc # "up", w.pc # "cp",
           key \in {0, root[n].secret}, UNCHANGED <<registry, root, container, archive, told, good,
           swaps, kept>>, volume' = [volume EXCEPT ![n].key = key]
    PROVE  Right(w, n)'
<1>1. container[n] # None /\ volume[n] # None
  BY DEF Running, Typed, StoreTyped, HasVolume
<1>2. /\ volume'[n] # None /\ volume'[n].key = key /\ volume'[n].secret = volume[n].secret
      /\ volume'[n].wal = volume[n].wal
  BY <1>1, KeyOnly DEF Typed
<1>3. Running(n)' <=> Running(n)
  BY DEF Running
<1>4. Sane(w, n)'
  BY <1>1, <1>2, <1>3 DEF Right, Sane, Opens
<1>5. Told(w, n)' /\ Named(w, n)' /\ Kept(w, n)'
  BY <1>1, <1>2 DEF Right, Told, Named, Kept, OwnVolume
<1>6. Creating(w, n)'
  BY DEF Right, Creating
<1>7. Restoring(w, n)'
  BY <1>3 DEF Right, Restoring
<1> QED
  BY <1>4, <1>5, <1>6, <1>7 DEF Right

(* AppWorks keeps the invariant.                                           *)
LEMMA AppWorksTreats ==
    ASSUME IInv, NEW n \in Names, AppWorks(n)
    PROVE  IInv'
<1>1. Typed'
  BY AppWorksTyped DEF IInv
<1>2. UNCHANGED <<cli, archive, registry, tmp>> /\ murky \subseteq murky'
  BY DEF AppWorks, ghosts
<1>3. Alone' /\ Written'
  BY <1>1, <1>2, AloneStays, WrittenStays DEF IInv
<1>4. root[n].secret \in Nat
  BY DirectoryFacts DEF AppWorks, IInv, Typed
<1>5. /\ UNCHANGED <<registry, root, container, archive, told, good, swaps, kept>>
      /\ volume' = [volume EXCEPT ![n].key = root[n].secret] /\ Running(n)
  BY DEF AppWorks, ghosts
<1>6. Elsewhere(n)
  BY <1>5 DEF Elsewhere, IInv, Typed, StoreTyped
<1>7. ASSUME NEW c \in Clis, Busy(c, n), Right(cli[c], n)
      PROVE  Right(cli[c], n)'
  <2>1. PICK w : w = cli[c]
    OBVIOUS
  <2>2. cli'[c] = w /\ Right(w, n)
    BY <1>2, <1>7, <2>1
  <2>3. /\ w.op = "create" => w.pc \notin {"files", "add", "addput", "up"}
        /\ w.op = "restore" => w.pc # "up"
        /\ w.pc # "cp"
    BY <1>5, <1>7, <2>1, Places DEF Right, Creating, Restoring, Running, IInv, Typed
  <2>4. Right(w, n)'
    BY <1>1, <1>4, <1>5, <2>2, <2>3, KeyStored DEF IInv
  <2> QED
    BY <2>2, <2>4 DEF Right, Sane, Told, Named, Kept, Creating, Restoring
<1>8. Right(Idle, n) => Right(Idle, n)'
  BY <1>1, <1>4, <1>5, IdleIsWork, KeyStored DEF IInv
<1>9. NamesRight'
  BY <1>1, <1>2, <1>6, <1>7, <1>8, NamesStay DEF IInv
<1> QED
  BY <1>1, <1>3, <1>9 DEF IInv

(* A backup is taken of a program that runs: of a database it opens.       *)
LEMMA BackupTreats ==
    ASSUME IInv, NEW n \in Names, Backup(n)
    PROVE  IInv'
<1>1. n \notin murky /\ Running(n) /\ container[n] # None /\ archive = None
  BY DEF Backup, Archived, Running
<1>2. Opens(n)
  <2>1. CASE \E c \in Clis : Busy(c, n)
    <3>1. PICK c \in Clis : Busy(c, n)
      BY <2>1
    <3>2. Right(cli[c], n)
      BY <1>1, <3>1 DEF IInv, NamesRight
    <3>3. cli[c].pc # "cp"
      BY <1>1, Places DEF IInv, Typed
    <3> QED
      BY <1>1, <3>2, <3>3 DEF Right, Sane
  <2>2. CASE \A c \in Clis : ~Busy(c, n)
    BY <1>1, <2>2, IdleIsWork DEF IInv, NamesRight, Right, Sane
  <2> QED
    BY <2>1, <2>2
<1>3. Typed'
  BY <1>1, <1>2, BackupTyped DEF Opens, IInv
<1>4. UNCHANGED <<cli, registry, tmp, root, volume, container, told, good, swaps, kept, murky>>
  BY DEF Backup, files, ghosts
<1>5. Alone' /\ Written'
  BY <1>1, <1>3, <1>4, AloneStays, WrittenStays DEF IInv
<1>6. ASSUME NEW m \in Names \ murky', NEW d \in Clis, Busy(d, m)'
      PROVE  Right(cli[d], m)'
  <2>1. Busy(d, m) /\ Right(cli[d], m) /\ cli'[d] = cli[d]
    BY <1>4, <1>6 DEF IInv, NamesRight, Busy
  <2>2. cli[d].op # "restore"
    BY <1>1, Places DEF IInv, Typed
  <2>3. Restoring(cli[d], m)'
    BY <2>1, <2>2 DEF Restoring
  <2>4. Sane(cli[d], m)' /\ Told(cli[d], m)' /\ Named(cli[d], m)'
    BY <1>4, <2>1 DEF Right, Sane, Told, Named, Opens, Running
  <2>5. Kept(cli[d], m)' /\ Creating(cli[d], m)'
    BY <1>4, <2>1 DEF Right, Kept, Creating, OwnVolume
  <2> QED
    BY <2>3, <2>4, <2>5 DEF Right
<1>7. ASSUME NEW m \in Names \ murky', \A d \in Clis : ~Busy(d, m)'
      PROVE  Right(Idle, m)'
  <2>1. Right(Idle, m)
    BY <1>4, <1>7 DEF IInv, NamesRight, Busy
  <2>2. Sane(Idle, m)' /\ Told(Idle, m)' /\ Named(Idle, m)'
    BY <1>4, <2>1 DEF Right, Sane, Told, Named, Opens, Running
  <2>3. Kept(Idle, m)' /\ Creating(Idle, m)' /\ Restoring(Idle, m)'
    BY <1>4, <2>1, IdleIsWork DEF Right, Kept, Creating, Restoring, OwnVolume
  <2> QED
    BY <2>2, <2>3 DEF Right
<1>8. NamesRight'
  BY <1>6, <1>7 DEF NamesRight
<1> QED
  BY <1>3, <1>5, <1>8 DEF IInv

(***************************************************************************)
(* The commands begin                                                      *)
(***************************************************************************)
LEMMA SameElsewhere ==
    ASSUME UNCHANGED <<registry, files, told, good, swaps>>, NEW n \in Optional(Names),
           \A m \in Names \ {n} : m \in kept' <=> m \in kept
    PROVE  Elsewhere(n)
  BY DEF Elsewhere, files

(* A command that begins on a name keeps the invariant, if it treats that  *)
(* name rightly.                                                           *)
LEMMA BeginTreats ==
    ASSUME IInv, Typed', NEW c \in Clis, NEW v, Begin(c, v), v.pc \notin {"idle", "next"},
           UNCHANGED <<registry, tmp, archive, files, told, good, swaps>>,
           NEW n \in Names, v.n = n,
           \A m \in Names \ {n} : m \in kept' <=> m \in kept,
           murky' # Names => WrittenFor(cli[c])',
           n \notin murky' /\ Right(Idle, n) => Right(cli[c], n)'
    PROVE  IInv'
<1>1. Elsewhere(n)
  BY SameElsewhere DEF Optional
<1>2. Alone'
  BY AloneBegins DEF IInv
<1>3. Written'
  BY WrittenBegins DEF IInv
<1>4. NamesRight'
  BY <1>1, NamesBegin DEF IInv
<1> QED
  BY <1>2, <1>3, <1>4 DEF IInv

(* A command that begins on no name keeps the invariant.                   *)
LEMMA BeginNoneTreats ==
    ASSUME IInv, Typed', NEW c \in Clis, NEW v, Begin(c, v), v = Idle \/ v.pc = "next",
           UNCHANGED <<registry, tmp, archive, files, told, good, swaps, kept>>,
           murky' # Names => WrittenFor(cli[c])'
    PROVE  IInv'
<1>1. Elsewhere(None)
  BY SameElsewhere DEF Optional
<1>2. Alone'
  BY AloneBegins DEF IInv
<1>3. Written'
  BY WrittenBegins DEF IInv
<1>4. NamesRight'
  BY <1>1, IdleIsWork, NamesBeginNone DEF IInv
<1> QED
  BY <1>2, <1>3, <1>4 DEF IInv

(* The terminal takes up the work.                                         *)
LEMMA Began ==
    ASSUME Typed, NEW c \in Clis, NEW v, Begin(c, v)
    PROVE  cli'[c] = v
  BY DEF Begin, Typed, CliTyped

(* CreateBegin keeps the invariant.                                        *)
LEMMA CreateBeginTreats ==
    ASSUME IInv, NEW c \in Clis, NEW n \in Names, NEW ref \in Refs, NEW src \in Optional(Names),
           CreateBegin(c, n, ref, src)
    PROVE  IInv'
<1>1. Typed' /\ UNCHANGED <<registry, tmp, archive, files, told, good, swaps, kept>>
  BY CreateBeginTyped DEF CreateBegin, IInv
<1>2. CASE EnsureRuntime(TRUE)
           /\ Begin(c, [Idle EXCEPT !.pc = "leftover", !.op = "create", !.n = n, !.ref = ref,
                                    !.src = src, !.taken = PortsOf(Registered)])
  <2>1. PICK v : v = CreateJob(n, ref, src)
    OBVIOUS
  <2>2. Begin(c, v)
    BY <1>2, <2>1 DEF CreateJob
  <2>3. v.pc = "leftover" /\ v.op = "create" /\ v.n = n /\ v.taken = PortsOf(Registered)
    BY <2>1, CreateWork DEF IInv
  <2>4. cli'[c] = v /\ registry[n] = None
    BY <2>2, Began DEF IInv, CreateBegin
  <2>5. PortsOf(Registered)' = PortsOf(Registered)
    BY <1>1 DEF PortsOf, Registered
  <2>6. WrittenFor(cli[c])'
    BY <1>1, <2>3, <2>4, <2>5 DEF WrittenFor
  <2>7. ASSUME Right(Idle, n)
        PROVE  Right(cli[c], n)'
    <3>1. Sane(cli[c], n)'
      BY <1>1, <2>3, <2>4, <2>7, IdleIsWork DEF Right, Sane, files
    <3>2. Told(cli[c], n)' /\ Named(cli[c], n)' /\ Kept(cli[c], n)'
      BY <1>1, <2>3, <2>4, <2>7 DEF Right, Told, Named, Kept, OwnVolume, files
    <3>3. Creating(cli[c], n)' /\ Restoring(cli[c], n)'
      BY <2>3, <2>4 DEF Creating, Restoring
    <3> QED
      BY <3>1, <3>2, <3>3 DEF Right
  <2> QED
    BY <1>1, <2>2, <2>3, <2>6, <2>7, BeginTreats
<1>3. CASE EnsureRuntime(FALSE) /\ Begin(c, Idle)
  <2>1. cli'[c] = Idle
    BY <1>3, Began DEF IInv
  <2>2. WrittenFor(cli[c])'
    BY <2>1, IdleIsWork DEF WrittenFor
  <2> QED
    BY <1>1, <1>3, <2>2, BeginNoneTreats
<1> QED
  BY <1>2, <1>3 DEF CreateBegin

(* `update` and `rollback` keep the invariant when they begin.             *)
LEMMA UpdateJobTreats ==
    ASSUME IInv, Typed', NEW c \in Clis, NEW n \in Names, NEW ref \in Refs,
           NEW op \in {"update", "rollback"}, Begin(c, UpdateJob(op, n, ref)), registry[n] # None,
           UNCHANGED <<registry, tmp, archive, files, told, good, swaps, kept>>
    PROVE  IInv'
<1>1. PICK v : v = UpdateJob(op, n, ref)
  OBVIOUS
<1>2. v.pc = "pull" /\ v.op = op /\ v.n = n
  BY <1>1, UpdateWork
<1>3. Begin(c, v) /\ cli'[c] = v
  BY <1>1, Began DEF IInv
<1>4. WrittenFor(cli[c])'
  BY <1>2, <1>3 DEF WrittenFor
<1>5. ASSUME Right(Idle, n)
      PROVE  Right(cli[c], n)'
  <2>1. Sane(cli[c], n)'
    BY <1>2, <1>3, <1>5, IdleIsWork DEF Right, Sane, Opens, Running, files
  <2>2. Told(cli[c], n)' /\ Named(cli[c], n)' /\ Kept(cli[c], n)'
    BY <1>2, <1>3, <1>5 DEF Right, Told, Named, Kept, OwnVolume, files
  <2>3. Creating(cli[c], n)' /\ Restoring(cli[c], n)'
    BY <1>2, <1>3 DEF Creating, Restoring
  <2> QED
    BY <2>1, <2>2, <2>3 DEF Right
<1> QED
  BY <1>2, <1>3, <1>4, <1>5, BeginTreats

(* UpdateBegin keeps the invariant.                                        *)
LEMMA UpdateBeginTreats ==
    ASSUME IInv, NEW c \in Clis, NEW n \in Names, NEW ref \in Refs, UpdateBegin(c, n, ref)
    PROVE  IInv'
<1>1. Typed'
  BY UpdateBeginTyped DEF IInv
<1>2. /\ Begin(c, UpdateJob("update", n, ref)) /\ registry[n] # None
      /\ UNCHANGED <<registry, tmp, archive, files, told, good, swaps, kept>>
  BY DEF UpdateBegin, UpdateJob, Registered
<1> QED
  BY <1>1, <1>2, UpdateJobTreats

(* RollbackBegin keeps the invariant.                                      *)
LEMMA RollbackBeginTreats ==
    ASSUME IInv, NEW c \in Clis, NEW n \in Names, RollbackBegin(c, n)
    PROVE  IInv'
<1>1. Typed'
  BY RollbackBeginTyped DEF IInv
<1>2. root[n].previous \in Refs
  BY DEF RollbackBegin, IInv, Typed, StoreTyped, Optional, Directory
<1>3. /\ Begin(c, UpdateJob("rollback", n, root[n].previous)) /\ registry[n] # None
      /\ UNCHANGED <<registry, tmp, archive, files, told, good, swaps, kept>>
  BY DEF RollbackBegin, UpdateJob, Registered
<1> QED
  BY <1>1, <1>2, <1>3, UpdateJobTreats

(* Asking to keep the data of one name, or not, says nothing of the        *)
(* others.                                                                 *)
LEMMA KeepingElsewhere ==
    ASSUME NEW n \in Names, NEW keep, kept' = Keeping(n, keep)
    PROVE  /\ \A m \in Names \ {n} : m \in kept' <=> m \in kept
           /\ n \in kept' => volume[n] # None
           /\ ~keep => n \notin kept'
  BY DEF Keeping

(* RemoveBegin keeps the invariant.                                        *)
LEMMA RemoveBeginTreats ==
    ASSUME IInv, NEW c \in Clis, NEW n \in Names, NEW keep \in BOOLEAN, NEW rmi \in BOOLEAN,
           RemoveBegin(c, n, keep, rmi)
    PROVE  IInv'
<1>1. PICK v : v = Removal("remove", n, keep, rmi)
  OBVIOUS
<1>2. v.pc = (IF root[n] = None THEN "unreg" ELSE "down") /\ v.op = "remove" /\ v.n = n /\ v.keep = keep
      /\ v.rest = {}
  BY <1>1, RemovalWork DEF IInv
<1>3. /\ Typed' /\ UNCHANGED <<registry, tmp, archive, files, told, good, swaps>>
      /\ kept' = Keeping(n, keep) /\ Begin(c, v) /\ cli'[c] = v
  BY <1>1, RemoveBeginTyped, Began DEF RemoveBegin, IInv
<1>4. WrittenFor(cli[c])'
  BY <1>2, <1>3 DEF WrittenFor
<1>5. ASSUME Right(Idle, n)
      PROVE  Right(cli[c], n)'
  <2>1. Sane(cli[c], n)'
    BY <1>2, <1>3, <1>5, IdleIsWork DEF Right, Sane, Opens, Running, files
  <2>2. Told(cli[c], n)' /\ Named(cli[c], n)'
    BY <1>2, <1>3, <1>5 DEF Right, Told, Named, files
  <2>3. Kept(cli[c], n)'
    BY <1>2, <1>3, KeepingElsewhere DEF Kept, files
  <2>4. Creating(cli[c], n)' /\ Restoring(cli[c], n)'
    BY <1>2, <1>3 DEF Creating, Restoring
  <2> QED
    BY <2>1, <2>2, <2>3, <2>4 DEF Right
<1> QED
  BY <1>2, <1>3, <1>4, <1>5, KeepingElsewhere, BeginTreats

(* UninstallBegin keeps the invariant.                                     *)
LEMMA UninstallBeginTreats ==
    ASSUME IInv, NEW c \in Clis, UninstallBegin(c)
    PROVE  IInv'
<1>1. PICK v : v = UninstallJob
  OBVIOUS
<1>2. v.pc = "next" /\ v.op = "uninstall" /\ v.rest = Registered
  BY <1>1, UninstallWork
<1>3. /\ Typed' /\ UNCHANGED <<registry, tmp, archive, files, told, good, swaps, kept>>
      /\ Begin(c, v) /\ cli'[c] = v
  BY <1>1, UninstallBeginTyped, Began DEF UninstallBegin, UninstallJob, IInv
<1>4. WrittenFor(cli[c])'
  BY <1>2, <1>3 DEF WrittenFor, Registered
<1> QED
  BY <1>2, <1>3, <1>4, BeginNoneTreats

(* RestoreBegin keeps the invariant.                                       *)
LEMMA RestoreBeginTreats ==
    ASSUME IInv, NEW c \in Clis, NEW n \in Names, RestoreBegin(c, n)
    PROVE  IInv'
<1>1. PICK p \in {"down", "extract"} : p = IF n \in Registered THEN "down" ELSE "extract"
  OBVIOUS
<1>2. PICK v : v = RestoreJob(p, n)
  OBVIOUS
<1>3. v.pc = p /\ v.op = "restore" /\ v.n = n
  BY <1>2, RestoreWork
<1>4. /\ Typed' /\ UNCHANGED <<registry, tmp, archive, files, told, good, swaps, kept>>
      /\ Begin(c, v) /\ cli'[c] = v
  BY <1>1, <1>2, RestoreBeginTyped, Began DEF RestoreBegin, RestoreJob, IInv
<1>5. WrittenFor(cli[c])'
  BY <1>1, <1>3, <1>4 DEF WrittenFor, Registered
<1>6. ASSUME Right(Idle, n)
      PROVE  Right(cli[c], n)'
  <2>1. Sane(cli[c], n)'
    BY <1>1, <1>3, <1>4, <1>6, IdleIsWork DEF Right, Sane, Opens, Running, files, Registered
  <2>2. Told(cli[c], n)' /\ Named(cli[c], n)' /\ Kept(cli[c], n)'
    BY <1>3, <1>4, <1>6 DEF Right, Told, Named, Kept, OwnVolume, files
  <2>3. Creating(cli[c], n)' /\ Restoring(cli[c], n)'
    BY <1>3, <1>4 DEF Creating, Restoring
  <2> QED
    BY <2>1, <2>2, <2>3 DEF Right
<1> QED
  BY <1>3, <1>4, <1>5, <1>6, BeginTreats

(***************************************************************************)
(* The commands go on                                                      *)
(***************************************************************************)
LEMMA AllMurky ==
    ASSUME Typed', murky' = Names
    PROVE  IInv'
  BY DEF IInv, Alone, Written, NamesRight

(* What a terminal at work on n may take for granted.                      *)
LEMMA AtWork ==
    ASSUME IInv, NEW c \in Clis, cli[c].pc # "idle", murky # Names
    PROVE  /\ WrittenFor(cli[c]) /\ PortsApart
           /\ cli[c].pc # "next" =>
                cli[c].n \in Names /\ (cli[c].n \notin murky => Right(cli[c], cli[c].n))
  BY Places DEF IInv, Written, NamesRight, Typed, Busy

(* A step of a command keeps the invariant, if it treats its own name and  *)
(* the registry rightly.                                                   *)
LEMMA Treated ==
    ASSUME IInv, Typed', NEW c \in Clis, NEW n \in Names, cli[c].n = n,
           cli[c].pc \notin {"idle", "next"}, murky \subseteq murky', UNCHANGED archive, Elsewhere(n),
           \A d \in Clis \ {c} : cli'[d] = cli[d],
           \/ cli'[c] = Idle
           \/ cli'[c].op = cli[c].op /\ cli'[c].pc # "idle" /\ cli'[c].n = n,
           UNCHANGED <<registry, tmp>> \/ cli[c].op \in Writers,
           WrittenFor(cli[c])', PortsApart',
           n \notin murky' /\ cli'[c].pc \in {"idle", "next"} => Right(Idle, n)',
           n \notin murky' /\ cli'[c].pc \notin {"idle", "next"} => Right(cli[c], n)'
    PROVE  IInv'
<1>1. Follows(c) /\ About(c, n)
  BY DEF Follows, About
<1>2. Alone'
  BY <1>1, AloneFollows DEF IInv
<1>3. Written'
  BY <1>1, WrittenFollows DEF IInv
<1>4. \A m \in Names \ {n} : ~Busy(c, m) /\ ~Busy(c, m)'
  BY IdleIsWork DEF Busy
<1>5. Busy(c, n)' => cli'[c].pc \notin {"idle", "next"}
  BY DEF Busy
<1>6. ~Busy(c, n)' => cli'[c].pc \in {"idle", "next"}
  BY IdleIsWork DEF Busy
<1>7. NamesRight'
  BY <1>1, <1>4, <1>5, <1>6, NamesFollow DEF IInv
<1> QED
  BY <1>2, <1>3, <1>7 DEF IInv

(* A command that has ended has nothing to know of the registry.           *)
LEMMA EndWritten ==
    ASSUME NEW c \in Clis, cli'[c] = Idle
    PROVE  WrittenFor(cli[c])'
  BY IdleIsWork DEF WrittenFor

(* A command that ends and leaves its name murky.                          *)
LEMMA Failed ==
    ASSUME IInv, Typed', NEW c \in Clis, NEW n \in Names, cli[c].n = n,
           cli[c].pc \notin {"idle", "next"}, murky \subseteq murky', n \in murky', murky # Names,
           UNCHANGED <<registry, tmp, archive, root, container, volume, told, good, swaps, kept>>, End(c)
    PROVE  IInv'
<1>1. cli'[c] = Idle /\ \A d \in Clis \ {c} : cli'[d] = cli[d]
  BY EndFacts DEF IInv, Typed
<1>2. WrittenFor(cli[c])' /\ PortsApart'
  BY <1>1, EndWritten, AtWork, PortsApartSame
<1>3. Elsewhere(n)
  BY DEF Elsewhere
<1> QED
  BY <1>1, <1>2, <1>3, Treated

(* UpFails keeps the invariant.                                            *)
LEMMA UpFailsTreats ==
    ASSUME IInv, NEW c \in Clis, UpFails(c)
    PROVE  IInv'
<1> SUFFICES ASSUME murky' # Names PROVE IInv'
  BY UpFailsTyped, AllMurky DEF IInv
<1>1. Typed' /\ cli[c].pc = "up" /\ cli[c].n \in Names
  BY UpFailsTyped, Places DEF UpFails, IInv, Typed
<1>2. /\ murky \subseteq murky' /\ cli[c].n \in murky' /\ murky # Names /\ End(c)
      /\ UNCHANGED <<registry, tmp, archive, root, container, volume, told, good, swaps, kept>>
  BY <1>1 DEF UpFails, Murky, files, IInv, Typed, RestTyped
<1> QED
  BY <1>1, <1>2, Failed

(* Pull keeps the invariant.                                               *)
LEMMA PullTreats ==
    ASSUME IInv, NEW c \in Clis, Pull(c)
    PROVE  IInv'
<1> SUFFICES ASSUME murky' # Names PROVE IInv'
  BY PullTyped, AllMurky DEF IInv
<1>1. /\ Typed' /\ cli[c].pc = "pull" /\ cli[c].n \in Names
      /\ cli[c].op \in {"update", "rollback"} /\ murky' = murky
      /\ UNCHANGED <<registry, tmp, archive, root, container, volume, told, good, swaps, kept>>
  BY PullTyped, Places DEF Pull, files, ghosts, IInv, Typed
<1>2. PICK n \in Names : n = cli[c].n
  BY <1>1
<1>3. Elsewhere(n) /\ PortsApart' /\ (n \notin murky' => Right(cli[c], n))
  BY <1>1, <1>2, AtWork, PortsApartSame DEF Elsewhere
<1>4. CASE Goto(c, "stop")
  <2>1. /\ cli'[c].pc = "stop" /\ cli'[c].op = cli[c].op /\ cli'[c].n = n
        /\ \A d \in Clis \ {c} : cli'[d] = cli[d]
    BY <1>2, <1>4, GotoFacts DEF IInv, Typed
  <2>2. WrittenFor(cli[c])'
    BY <1>1, <2>1 DEF WrittenFor
  <2>3. ASSUME n \notin murky'
        PROVE  Right(cli[c], n)'
    <3>1. Right(cli[c], n)
      BY <1>3, <2>3
    <3>2. Sane(cli[c], n)'
      BY <1>1, <2>1, <3>1 DEF Right, Sane, Opens, Running
    <3>3. Told(cli[c], n)' /\ Named(cli[c], n)' /\ Kept(cli[c], n)'
      BY <1>1, <2>1, <3>1 DEF Right, Told, Named, Kept, OwnVolume
    <3>4. Creating(cli[c], n)' /\ Restoring(cli[c], n)'
      BY <1>1, <2>1 DEF Creating, Restoring
    <3> QED
      BY <3>2, <3>3, <3>4 DEF Right
  <2> QED
    BY <1>1, <1>2, <1>3, <2>1, <2>2, <2>3, Treated
<1>5. CASE End(c)
  <2>1. cli'[c] = Idle /\ \A d \in Clis \ {c} : cli'[d] = cli[d]
    BY <1>5, EndFacts DEF IInv, Typed
  <2>2. WrittenFor(cli[c])'
    BY <2>1, EndWritten
  <2>3. ASSUME n \notin murky'
        PROVE  Right(Idle, n)'
    <3>1. Right(cli[c], n)
      BY <1>3, <2>3
    <3>2. Sane(Idle, n)'
      BY <1>1, <3>1, IdleIsWork DEF Right, Sane, Opens, Running
    <3>3. Told(Idle, n)' /\ Named(Idle, n)' /\ Kept(Idle, n)'
      BY <1>1, <3>1, IdleIsWork DEF Right, Told, Named, Kept, OwnVolume
    <3>4. Creating(Idle, n)' /\ Restoring(Idle, n)'
      BY IdleIsWork DEF Creating, Restoring
    <3> QED
      BY <3>2, <3>3, <3>4 DEF Right
  <2> QED
    BY <1>1, <1>2, <1>3, <2>1, <2>2, <2>3, IdleIsWork, Treated
<1> QED
  BY <1>4, <1>5 DEF Pull

(* StopForUpdate keeps the invariant.                                      *)
LEMMA StopForUpdateTreats ==
    ASSUME IInv, NEW c \in Clis, StopForUpdate(c)
    PROVE  IInv'
<1> SUFFICES ASSUME murky' # Names PROVE IInv'
  BY StopForUpdateTyped, AllMurky DEF IInv
<1>1. /\ Typed' /\ cli[c].pc = "stop" /\ cli[c].n \in Names
      /\ cli[c].op \in {"update", "rollback"} /\ murky' = murky
      /\ UNCHANGED <<registry, tmp, archive, root, volume, told, good, swaps, kept>>
  BY StopForUpdateTyped, Places DEF StopForUpdate, ghosts, IInv, Typed
<1>2. PICK n \in Names : n = cli[c].n
  BY <1>1
<1>3. PortsApart' /\ (n \notin murky' => Right(cli[c], n) /\ registry[n] # None /\ container[n] # None)
  BY <1>1, <1>2, AtWork, PortsApartSame DEF Right, Sane
<1>4. CASE /\ Goto(c, "previous")
           /\ container' = [container EXCEPT ![n] =
                  IF Running(n) THEN [container[n] EXCEPT !.status = "exited"] ELSE container[n]]
  <2>1. /\ cli'[c].pc = "previous" /\ cli'[c].op = cli[c].op /\ cli'[c].n = n
        /\ \A d \in Clis \ {c} : cli'[d] = cli[d]
    BY <1>2, <1>4, GotoFacts DEF IInv, Typed
  <2>2. WrittenFor(cli[c])'
    BY <1>1, <2>1 DEF WrittenFor
  <2>3. Elsewhere(n)
    BY <1>1, <1>4 DEF Elsewhere, IInv, Typed, StoreTyped
  <2>4. container[n] # None => container'[n] # None /\ ~Running(n)'
    <3>1. ASSUME container[n] # None
          PROVE  container'[n] \in Container /\ container'[n].status # "running"
      <4>1. container[n] \in Container
        BY <3>1, ContainerFacts DEF IInv, Typed
      <4>2. container'[n] = IF Running(n) THEN [container[n] EXCEPT !.status = "exited"] ELSE container[n]
        BY <1>4 DEF IInv, Typed, StoreTyped
      <4> QED
        BY <3>1, <4>1, <4>2 DEF Container, Running
    <3> QED
      BY <3>1, Nones DEF Running
  <2>5. ASSUME n \notin murky'
        PROVE  Right(cli[c], n)'
    <3>1. Right(cli[c], n) /\ container[n] # None /\ container'[n] # None /\ ~Running(n)'
      BY <1>3, <2>4, <2>5
    <3>2. Sane(cli[c], n)'
      BY <1>1, <2>1, <3>1 DEF Right, Sane, Opens
    <3>3. Told(cli[c], n)' /\ Named(cli[c], n)' /\ Kept(cli[c], n)'
      BY <1>1, <2>1, <3>1 DEF Right, Told, Named, Kept, OwnVolume
    <3>4. Creating(cli[c], n)' /\ Restoring(cli[c], n)'
      BY <1>1, <2>1 DEF Creating, Restoring
    <3> QED
      BY <3>2, <3>3, <3>4 DEF Right
  <2> QED
    BY <1>1, <1>2, <1>3, <2>1, <2>2, <2>3, <2>5, Treated
<1>5. CASE End(c) /\ UNCHANGED container
  <2>1. cli'[c] = Idle /\ \A d \in Clis \ {c} : cli'[d] = cli[d]
    BY <1>5, EndFacts DEF IInv, Typed
  <2>2. WrittenFor(cli[c])' /\ Elsewhere(n)
    BY <1>1, <1>5, <2>1, EndWritten DEF Elsewhere
  <2>3. ASSUME n \notin murky'
        PROVE  Right(Idle, n)'
    <3>1. Right(cli[c], n)
      BY <1>3, <2>3
    <3>2. Sane(Idle, n)'
      BY <1>1, <1>5, <3>1, IdleIsWork DEF Right, Sane, Opens, Running
    <3>3. Told(Idle, n)' /\ Named(Idle, n)' /\ Kept(Idle, n)'
      BY <1>1, <1>5, <3>1, IdleIsWork DEF Right, Told, Named, Kept, OwnVolume
    <3>4. Creating(Idle, n)' /\ Restoring(Idle, n)'
      BY IdleIsWork DEF Creating, Restoring
    <3> QED
      BY <3>2, <3>3, <3>4 DEF Right
  <2> QED
    BY <1>1, <1>2, <1>3, <2>1, <2>2, <2>3, IdleIsWork, Treated
<1> QED
  BY <1>2, <1>4, <1>5 DEF StopForUpdate

(* SetPrevious keeps the invariant.                                        *)
LEMMA SetPreviousTreats ==
    ASSUME IInv, NEW c \in Clis, SetPrevious(c)
    PROVE  IInv'
<1> SUFFICES ASSUME murky' # Names PROVE IInv'
  BY SetPreviousTyped, AllMurky DEF IInv
<1>1. /\ Typed' /\ cli[c].pc = "previous" /\ cli[c].n \in Names
      /\ cli[c].op \in {"update", "rollback"} /\ murky' = murky
      /\ UNCHANGED <<registry, tmp, archive, container, volume, told, good, kept>>
  BY SetPreviousTyped, Places DEF SetPrevious, IInv, Typed
<1>2. PICK n \in Names : n = cli[c].n
  BY <1>1
<1>3. /\ PortsApart'
      /\ n \notin murky' => Right(cli[c], n) /\ registry[n] # None /\ container[n] # None
                            /\ root[n] # None
  BY <1>1, <1>2, AtWork, PortsApartSame DEF Right, Sane
<1>4. CASE root[n] = None
  <2>1. End(c) /\ UNCHANGED <<root, swaps>>
    BY <1>2, <1>4 DEF SetPrevious
  <2>2. cli'[c] = Idle /\ \A d \in Clis \ {c} : cli'[d] = cli[d]
    BY <2>1, EndFacts DEF IInv, Typed
  <2>3. WrittenFor(cli[c])' /\ Elsewhere(n) /\ n \in murky'
    BY <1>1, <1>3, <1>4, <2>1, <2>2, EndWritten DEF Elsewhere
  <2> QED
    BY <1>1, <1>2, <1>3, <2>2, <2>3, IdleIsWork, Treated
<1>5. CASE root[n] # None
  <2>1. /\ root' = [root EXCEPT ![n].previous = root[n].image]
        /\ swaps' = [swaps EXCEPT ![n] = swaps[n] + 1]
        /\ Goto(c, "swap")
    BY <1>2, <1>5 DEF SetPrevious, RecordPrevious
  <2>2. /\ cli'[c].pc = "swap" /\ cli'[c].op = cli[c].op /\ cli'[c].n = n
        /\ \A d \in Clis \ {c} : cli'[d] = cli[d]
    BY <1>2, <2>1, GotoFacts DEF IInv, Typed
  <2>3. WrittenFor(cli[c])'
    BY <1>1, <2>2 DEF WrittenFor
  <2>4. Elsewhere(n)
    BY <1>1, <2>1 DEF Elsewhere, IInv, Typed, StoreTyped, RestTyped
  <2>5. /\ root'[n].secret = root[n].secret /\ root'[n].image = root[n].image
        /\ root'[n].previous = root[n].image /\ root'[n] # None
    <3>1. root[n] \in Directory /\ root[n].image \in Optional(Refs)
      BY <1>5, DirectoryFacts DEF IInv, Typed, Optional
    <3>2. root'[n] = [root[n] EXCEPT !.previous = root[n].image]
      BY <2>1 DEF IInv, Typed, StoreTyped
    <3>3. root'[n] \in Directory
      BY <1>5, <3>1, <3>2, DirectoryPart DEF IInv, Typed
    <3>4. root'[n] # None
      BY <3>3, Nones
    <3> QED
      BY <3>1, <3>2, <3>4 DEF Directory
  <2>6. swaps[n] \in Nat /\ swaps'[n] = swaps[n] + 1
    BY <2>1 DEF IInv, Typed, RestTyped
  <2>7. swaps'[n] > 0 /\ swaps'[n] # 0 /\ (swaps'[n] = 1 => swaps[n] = 0)
    BY <2>6
  <2>8. ASSUME n \notin murky'
        PROVE  Right(cli[c], n)'
    <3>1. Right(cli[c], n) /\ registry[n] # None /\ container[n] # None
      BY <1>3, <2>8
    <3>2. Sane(cli[c], n)'
      BY <1>1, <2>2, <2>5, <3>1 DEF Right, Sane, Opens, Running
    <3>3. Named(cli[c], n)'
      BY <1>1, <1>5, <2>2, <2>5, <2>7, <3>1 DEF Right, Named
    <3>4. Told(cli[c], n)' /\ Kept(cli[c], n)'
      BY <1>1, <2>2, <2>5, <3>1 DEF Right, Told, Kept, OwnVolume
    <3>5. Creating(cli[c], n)' /\ Restoring(cli[c], n)'
      BY <1>1, <2>2 DEF Creating, Restoring
    <3> QED
      BY <3>2, <3>3, <3>4, <3>5 DEF Right
  <2> QED
    BY <1>1, <1>2, <1>3, <2>2, <2>3, <2>4, <2>8, Treated
<1> QED
  BY <1>4, <1>5

(* SwapImage keeps the invariant.                                          *)
LEMMA SwapImageTreats ==
    ASSUME IInv, NEW c \in Clis, SwapImage(c)
    PROVE  IInv'
<1> SUFFICES ASSUME murky' # Names PROVE IInv'
  BY SwapImageTyped, AllMurky DEF IInv
<1>1. /\ Typed' /\ cli[c].pc = "swap" /\ cli[c].n \in Names /\ cli[c].ref \in Refs
      /\ cli[c].op \in {"update", "rollback"} /\ murky' = murky
      /\ UNCHANGED <<registry, tmp, archive, container, volume, told, good, swaps, kept>>
  BY SwapImageTyped, Places DEF SwapImage, ghosts, IInv, Typed
<1>2. PICK n \in Names : n = cli[c].n
  BY <1>1
<1>3. /\ PortsApart'
      /\ n \notin murky' => Right(cli[c], n) /\ registry[n] # None /\ container[n] # None
                            /\ root[n] # None
  BY <1>1, <1>2, AtWork, PortsApartSame DEF Right, Sane
<1>4. CASE root[n] = None
  <2>1. End(c) /\ UNCHANGED root
    BY <1>2, <1>4 DEF SwapImage
  <2>2. cli'[c] = Idle /\ \A d \in Clis \ {c} : cli'[d] = cli[d]
    BY <2>1, EndFacts DEF IInv, Typed
  <2>3. WrittenFor(cli[c])' /\ Elsewhere(n) /\ n \in murky'
    BY <1>1, <1>3, <1>4, <2>1, <2>2, EndWritten DEF Elsewhere
  <2> QED
    BY <1>1, <1>2, <1>3, <2>2, <2>3, IdleIsWork, Treated
<1>5. CASE root[n] # None
  <2>1. root' = [root EXCEPT ![n].image = cli[c].ref] /\ Goto(c, "up")
    BY <1>2, <1>5 DEF SwapImage
  <2>2. /\ cli'[c].pc = "up" /\ cli'[c].op = cli[c].op /\ cli'[c].n = n
        /\ \A d \in Clis \ {c} : cli'[d] = cli[d]
    BY <1>2, <2>1, GotoFacts DEF IInv, Typed
  <2>3. WrittenFor(cli[c])'
    BY <1>1, <2>2 DEF WrittenFor
  <2>4. Elsewhere(n)
    BY <1>1, <2>1 DEF Elsewhere, IInv, Typed, StoreTyped
  <2>5. /\ root'[n].secret = root[n].secret /\ root'[n].previous = root[n].previous
        /\ root'[n] # None
    <3>1. root[n] \in Directory
      BY <1>5, DirectoryFacts DEF IInv, Typed
    <3>2. root'[n] = [root[n] EXCEPT !.image = cli[c].ref]
      BY <2>1 DEF IInv, Typed, StoreTyped
    <3>3. root'[n] \in Directory
      BY <1>1, <1>5, <3>2, DirectoryPart DEF IInv, Typed
    <3>4. root'[n] # None
      BY <3>3, Nones
    <3> QED
      BY <3>1, <3>2, <3>4 DEF Directory
  <2>6. ASSUME n \notin murky'
        PROVE  Right(cli[c], n)'
    <3>1. Right(cli[c], n) /\ registry[n] # None /\ container[n] # None
      BY <1>3, <2>6
    <3>2. Sane(cli[c], n)'
      BY <1>1, <2>2, <2>5, <3>1 DEF Right, Sane, Opens, Running
    <3>3. Named(cli[c], n)'
      <4>1. swaps[n] \in Nat
        BY DEF IInv, Typed, RestTyped
      <4> QED
        BY <1>1, <1>5, <2>2, <2>5, <3>1, <4>1 DEF Right, Named
    <3>4. Told(cli[c], n)' /\ Kept(cli[c], n)'
      BY <1>1, <2>2, <2>5, <3>1 DEF Right, Told, Kept, OwnVolume
    <3>5. Creating(cli[c], n)' /\ Restoring(cli[c], n)'
      BY <1>1, <2>2 DEF Creating, Restoring
    <3> QED
      BY <3>2, <3>3, <3>4, <3>5 DEF Right
  <2> QED
    BY <1>1, <1>2, <1>3, <2>2, <2>3, <2>4, <2>6, Treated
<1> QED
  BY <1>4, <1>5

(* Import keeps the invariant.                                             *)
LEMMA ImportTreats ==
    ASSUME IInv, NEW c \in Clis, Import(c)
    PROVE  IInv'
<1> SUFFICES ASSUME murky' # Names PROVE IInv'
  BY ImportTyped, AllMurky DEF IInv
<1>1. /\ Typed' /\ cli[c].pc = "import" /\ cli[c].n \in Names /\ murky' = murky
      /\ UNCHANGED <<registry, tmp, archive, container, root, told, good, swaps, kept>> /\ End(c)
  BY ImportTyped, Places DEF Import, ghosts, IInv, Typed
<1>2. PICK n \in Names : n = cli[c].n
  BY <1>1
<1>3. cli'[c] = Idle /\ \A d \in Clis \ {c} : cli'[d] = cli[d]
  BY <1>1, EndFacts DEF IInv, Typed
<1>4. PortsApart' /\ WrittenFor(cli[c])' /\ (n \notin murky' => Right(cli[c], n))
  BY <1>1, <1>2, <1>3, AtWork, EndWritten, PortsApartSame
<1>5. n \notin murky' => Right(Idle, n) /\ (Running(n) => Opens(n))
  <2> SUFFICES ASSUME n \notin murky' PROVE Right(Idle, n) /\ (Running(n) => Opens(n))
    OBVIOUS
  <2>1. Sane(Idle, n) /\ (Running(n) => Opens(n))
    BY <1>1, <1>4, IdleIsWork DEF Right, Sane, Running
  <2>2. Told(Idle, n) /\ Named(Idle, n) /\ Kept(Idle, n) /\ Creating(Idle, n) /\ Restoring(Idle, n)
    BY <1>4, IdleIsWork DEF Right, Told, Named, Kept, Creating, Restoring
  <2> QED
    BY <2>1, <2>2 DEF Right
<1>6. CASE UNCHANGED volume
  <2>1. Elsewhere(n)
    BY <1>1, <1>6 DEF Elsewhere
  <2>2. ASSUME n \notin murky'
        PROVE  Right(Idle, n)'
    <3>1. Sane(Idle, n)' /\ Told(Idle, n)' /\ Named(Idle, n)'
      BY <1>1, <1>5, <1>6, <2>2 DEF Right, Sane, Told, Named, Opens, Running
    <3>2. Kept(Idle, n)' /\ Creating(Idle, n)' /\ Restoring(Idle, n)'
      BY <1>1, <1>5, <1>6, <2>2, IdleIsWork DEF Right, Kept, Creating, Restoring, OwnVolume
    <3> QED
      BY <3>1, <3>2 DEF Right
  <2> QED
    BY <1>1, <1>2, <1>3, <1>4, <2>1, <2>2, IdleIsWork, Treated
<1>7. CASE /\ Running(n) /\ root[n] # None
           /\ \E key \in {volume[n].key, root[n].secret, 0} : volume' = [volume EXCEPT ![n].key = key]
  <2>1. PICK key \in {volume[n].key, root[n].secret, 0} : volume' = [volume EXCEPT ![n].key = key]
    BY <1>7
  <2>2. key \in Nat
    <3>1. root[n].secret \in Nat
      BY <1>7, DirectoryFacts DEF IInv, Typed
    <3>2. volume[n] \in Volume
      BY <1>7, ContainerFacts DEF Running, IInv, Typed
    <3> QED
      BY <2>1, <3>1, <3>2 DEF Volume
  <2>3. Elsewhere(n)
    BY <1>1, <2>1 DEF Elsewhere, IInv, Typed, StoreTyped
  <2>4. ASSUME n \notin murky'
        PROVE  Right(Idle, n)'
    <3>1. Right(Idle, n) /\ key \in {0, root[n].secret}
      BY <1>5, <1>7, <2>1, <2>4 DEF Opens
    <3> QED
      BY <1>1, <1>7, <2>1, <2>2, <3>1, IdleIsWork, KeyStored DEF IInv
  <2> QED
    BY <1>1, <1>2, <1>3, <1>4, <2>3, <2>4, IdleIsWork, Treated
<1> QED
  BY <1>2, <1>6, <1>7 DEF Import, Dumped, Copied, Applied

(* A container comes up, or does not, on a volume that was just made, or   *)
(* that its own secrets open.                                              *)
LEMMA Upped ==
    ASSUME NEW v \in Optional(Volume), NEW s \in Nat, s > 0, NEW up \in BOOLEAN, NEW u,
           u = (IF up THEN Booted(v, s) ELSE IF v = None THEN Empty ELSE v),
           v # None => v.wal = "none" /\ v.secret \in {0, s} /\ v.key \in {0, s}
    PROVE  /\ u # None /\ u.wal = "none" /\ u.secret \in {0, s} /\ u.key \in {0, s}
           /\ up => u.secret = s
           /\ ~up /\ v # None => u = v
<1>1. CASE v = None
  <2>1. u # None
    BY <1>1, BootedIsVolume, EmptyIsVolume, Nones
  <2> QED
    BY <1>1, <2>1 DEF Booted, Empty
<1>2. CASE v # None
  <2>1. v \in Volume /\ u # None
    BY <1>2, BootedIsVolume, Nones DEF Optional
  <2> QED
    BY <1>2, <2>1, BootedKeeps
<1> QED
  BY <1>1, <1>2

(* UpOk keeps the invariant.                                               *)
LEMMA UpOkTreats ==
    ASSUME IInv, NEW c \in Clis, UpOk(c)
    PROVE  IInv'
<1> SUFFICES ASSUME murky' # Names PROVE IInv'
  BY UpOkTyped, AllMurky DEF IInv
<1>1. /\ Typed' /\ cli[c].pc = "up" /\ cli[c].n \in Names /\ murky' = murky
      /\ UNCHANGED <<registry, tmp, archive, root, kept>>
      /\ cli[c].op \in {"create", "update", "rollback", "restore"}
  BY UpOkTyped, Places DEF UpOk, IInv, Typed
<1>2. PICK n \in Names : n = cli[c].n
  BY <1>1
<1>3. PICK up \in BOOLEAN : up <=> Outcome(n) = "running"
  OBVIOUS
<1>4. PortsApart' /\ (n \notin murky' => Right(cli[c], n)) /\ root[n] # None
  BY <1>1, <1>2, AtWork, PortsApartSame DEF UpOk
<1>5. Outcome(n) \in {"created", "running", "exited"}
  BY DEF Outcome
<1>6. PICK k : k = [status |-> Outcome(n), image |-> root[n].image, port |-> root[n].port]
  OBVIOUS
<1>7. k # None /\ (k.status = "running" <=> up)
  BY <1>3, <1>4, <1>5, <1>6, RunsHere DEF IInv, Typed
<1>8. /\ container' = [container EXCEPT ![n] = k]
      /\ volume' = [volume EXCEPT ![n] =
            IF up THEN Booted(volume[n], root[n].secret) ELSE IF volume[n] = None THEN Empty ELSE volume[n]]
      /\ IF up THEN CameUp(c, n) ELSE UNCHANGED <<good, swaps, told>>
      /\ Goto(c, "import") \/ End(c)
      /\ Goto(c, "import") => cli[c].op = "create"
  <2>1. /\ Outcome(n) = "running" <=> up
        /\ Goto(c, "import") => cli[c].src # None
    <3>1. IF Outcome(n) = "running" /\ cli[c].src # None THEN Goto(c, "import") ELSE End(c)
      BY <1>2 DEF UpOk
    <3>2. ~(Goto(c, "import") /\ End(c))
      BY GotoFacts, EndFacts, IdleIsWork DEF IInv, Typed
    <3> QED
      BY <1>3, <3>1, <3>2
  <2>2. cli[c].src # None => cli[c].op = "create"
    BY Places DEF IInv, Typed
  <2> QED
    BY <1>2, <1>6, <2>1, <2>2 DEF UpOk
<1>9. /\ container'[n] = k /\ \A m \in Names \ {n} : container'[m] = container[m]
      /\ volume'[n] = (IF up THEN Booted(volume[n], root[n].secret)
                       ELSE IF volume[n] = None THEN Empty ELSE volume[n])
      /\ \A m \in Names \ {n} : volume'[m] = volume[m]
      /\ Running(n)' <=> up
  BY <1>7, <1>8 DEF Running, IInv, Typed, StoreTyped
<1>10. /\ told'[n] = (IF up /\ cli[c].op = "create" THEN cli[c].secret ELSE told[n])
       /\ good'[n] = (IF up THEN root[n].image ELSE good[n])
       /\ swaps'[n] = (IF up THEN 0 ELSE swaps[n])
       /\ \A m \in Names \ {n} : told'[m] = told[m] /\ good'[m] = good[m] /\ swaps'[m] = swaps[m]
  BY <1>8 DEF CameUp, IInv, Typed, RestTyped
<1>11. Elsewhere(n)
  BY <1>1, <1>9, <1>10 DEF Elsewhere
<1>12. /\ \A d \in Clis \ {c} : cli'[d] = cli[d]
       /\ \/ cli'[c] = Idle
          \/ /\ cli'[c].op = cli[c].op /\ cli'[c].pc = "import" /\ cli'[c].n = n
             /\ cli'[c].op = "create"
  BY <1>2, <1>8, GotoFacts, EndFacts DEF IInv, Typed
<1>13. WrittenFor(cli[c])'
  BY <1>12, IdleIsWork DEF WrittenFor
<1>14. root[n].secret \in Nat /\ root[n].secret > 0 /\ volume[n] \in Optional(Volume)
  BY <1>4, DirectoryFacts DEF IInv, Typed, StoreTyped
<1>15. n \notin murky' /\ volume[n] # None =>
         /\ volume[n].wal = "none" /\ container[n] # None
         /\ volume[n].secret \in {0, root[n].secret}
         /\ volume[n].key \in {0, root[n].secret}
         /\ cli[c].op # "create"
  BY <1>1, <1>4 DEF Right, Sane, Creating, Restoring, Opens
<1>16. n \notin murky' =>
         /\ volume'[n] # None /\ volume'[n].wal = "none" /\ Opens(n)'
         /\ up => volume'[n].secret = root[n].secret
         /\ ~up /\ volume[n] # None => volume'[n] = volume[n]
  BY <1>1, <1>9, <1>14, <1>15, Upped DEF Opens
<1>17. ASSUME n \notin murky'
       PROVE  /\ told'[n] # 0 => told'[n] = root[n].secret /\ volume'[n].secret = told'[n]
  <2>1. Right(cli[c], n)
    BY <1>4, <1>17
  <2>2. CASE cli[c].op = "create"
    BY <1>1, <1>10, <1>16, <1>17, <2>1, <2>2 DEF Right, Creating
  <2>3. CASE cli[c].op = "restore"
    BY <1>1, <1>10, <1>17, <2>1, <2>3 DEF Right, Restoring
  <2>4. CASE cli[c].op \in {"update", "rollback"}
    <3>1. container[n] # None /\ volume[n] # None
      BY <1>1, <2>1, <2>4 DEF Right, Sane, IInv, Typed, StoreTyped, HasVolume
    <3> QED
      BY <1>10, <1>16, <1>17, <2>1, <2>4, <3>1 DEF Right, Told
  <2> QED
    BY <1>1, <2>2, <2>3, <2>4
<1>18. ASSUME n \notin murky', NEW w, w.op \in {"none", "create"}, w.pc \in {"idle", "import"}
       PROVE  Right(w, n)'
  <2>1. Right(cli[c], n)
    BY <1>4, <1>18
  <2>2. Sane(w, n)'
    BY <1>1, <1>4, <1>7, <1>9, <1>16, <1>18, <2>1 DEF Right, Sane
  <2>3. Told(w, n)'
    BY <1>1, <1>17, <1>18 DEF Told
  <2>4. Named(w, n)'
    BY <1>1, <1>10, <1>18, <2>1 DEF Right, Named
  <2>5. Kept(w, n)' /\ Creating(w, n)' /\ Restoring(w, n)'
    BY <1>16, <1>18 DEF Kept, Creating, Restoring
  <2> QED
    BY <2>2, <2>3, <2>4, <2>5 DEF Right
<1>19. n \notin murky' => Right(Idle, n)'
  BY <1>18, IdleIsWork
<1>20. ASSUME n \notin murky', cli'[c].pc = "import"
       PROVE  Right(cli[c], n)'
  <2>1. PICK w : w = cli'[c]
    OBVIOUS
  <2>2. Right(w, n)'
    BY <1>12, <1>18, <1>20, <2>1, IdleIsWork
  <2> QED
    BY <2>1, <2>2 DEF Right, Sane, Told, Named, Kept, Creating, Restoring
<1> QED
  BY <1>1, <1>2, <1>4, <1>11, <1>12, <1>13, <1>19, <1>20, IdleIsWork, Treated

(* Removing the volumes that the filter shows leaves the other names       *)
(* alone, but for what it may remove.                                      *)
LEMMA WithoutElsewhere ==
    ASSUME StoreTyped, UNCHANGED <<registry, container, told, good, swaps>>, NEW n \in Names,
           \A m \in Names \ {n} : root'[m] = root[m] /\ (m \in kept' <=> m \in kept),
           NEW S \in SUBSET Removable(Leftover(n)), volume' = WithoutVolumes(S)
    PROVE  Elsewhere(n) /\ volume'[n] \in {None, volume[n]}
<1>1. \A m \in Names : volume'[m] = IF m \in S THEN None ELSE volume[m]
  BY WithoutTyped
<1>2. \A m \in S : container[m] = None /\ <<n, m>> \in Match
  BY DEF Removable, Leftover
<1> QED
  BY <1>1, <1>2 DEF Elsewhere

(* CreateLeftover keeps the invariant.                                     *)
LEMMA CreateLeftoverTreats ==
    ASSUME IInv, NEW c \in Clis, CreateLeftover(c)
    PROVE  IInv'
<1> SUFFICES ASSUME murky' # Names PROVE IInv'
  BY CreateLeftoverTyped, AllMurky DEF IInv
<1>1. /\ Typed' /\ cli[c].pc = "leftover" /\ cli[c].n \in Names /\ murky \subseteq murky'
      /\ UNCHANGED <<registry, tmp, archive, root, container, told, good, swaps>>
      /\ cli[c].op = "create"
  BY CreateLeftoverTyped, Places DEF CreateLeftover, Murky, IInv, Typed
<1>2. PICK n \in Names : n = cli[c].n
  BY <1>1
<1>3. murky # Names
  BY <1>1 DEF IInv, Typed, RestTyped
<1>4. /\ PortsApart' /\ WrittenFor(cli[c]) /\ registry[n] = None
      /\ n \notin murky' => Right(cli[c], n)
  BY <1>1, <1>2, <1>3, AtWork, PortsApartSame DEF WrittenFor
<1>5. /\ kept' \in {kept, kept \ {n}}
      /\ \/ UNCHANGED volume
         \/ n \notin kept' /\ \E S \in SUBSET Removable(Leftover(n)) : volume' = WithoutVolumes(S)
      /\ Goto(c, "files") => \/ n \in murky'
                             \/ \A m \in Names : <<n, m>> \in Match => volume'[m] = None
      /\ Goto(c, "files") \/ End(c)
  <2>1. CASE Leftover(n) = {} /\ Goto(c, "files") /\ UNCHANGED <<volume, kept>>
    BY <2>1 DEF Leftover
  <2>2. CASE /\ Leftover(n) = Removable(Leftover(n)) /\ Goto(c, "files")
             /\ volume' = WithoutVolumes(Leftover(n)) /\ kept' = kept \ {n}
    <3>1. \A m \in Names : <<n, m>> \in Match => volume'[m] = None
      BY <2>2, WithoutTyped DEF Leftover, IInv, Typed
    <3> QED
      BY <2>2, <3>1
  <2>3. CASE /\ \E S \in SUBSET Removable(Leftover(n)) : volume' = WithoutVolumes(S)
             /\ kept' = kept \ {n} /\ End(c)
    <3>1. ~Goto(c, "files")
      BY <2>3, GotoFacts, EndFacts, IdleIsWork DEF IInv, Typed
    <3> QED
      BY <2>3, <3>1
  <2>4. CASE End(c) /\ UNCHANGED <<volume, kept>>
    <3>1. ~Goto(c, "files")
      BY <2>4, GotoFacts, EndFacts, IdleIsWork DEF IInv, Typed
    <3> QED
      BY <2>4, <3>1
  <2>5. CASE Goto(c, "files") /\ Murky({n}) /\ UNCHANGED <<volume, kept>>
    BY <2>5 DEF Murky
  <2> QED
    BY <1>2, <2>1, <2>2, <2>3, <2>4, <2>5 DEF CreateLeftover
<1>6. Elsewhere(n) /\ volume'[n] \in {None, volume[n]} /\ (n \in kept' => n \in kept /\ volume'[n] = volume[n])
  <2>1. CASE UNCHANGED volume
    BY <1>1, <1>5, <2>1 DEF Elsewhere
  <2>2. CASE n \notin kept' /\ \E S \in SUBSET Removable(Leftover(n)) : volume' = WithoutVolumes(S)
    BY <1>1, <1>5, <2>2, WithoutElsewhere DEF IInv, Typed
  <2> QED
    BY <1>5, <2>1, <2>2
<1>7. ASSUME n \notin murky'
      PROVE  /\ container[n] = None /\ container'[n] = None /\ registry'[n] = None
             /\ volume'[n] # None => volume'[n].wal = "none"
             /\ Told(Idle, n)' /\ Named(Idle, n)'
             /\ n \in kept' /\ OwnVolume(n) => volume'[n] # None
  <2>1. Right(cli[c], n)
    BY <1>4, <1>7
  <2> QED
    BY <1>1, <1>4, <1>6, <2>1, IdleIsWork DEF Right, Sane, Told, Named, Kept
<1>8. CASE Goto(c, "files")
  <2>1. /\ cli'[c].pc = "files" /\ cli'[c].op = "create" /\ cli'[c].n = n
        /\ cli'[c].taken = cli[c].taken /\ \A d \in Clis \ {c} : cli'[d] = cli[d]
    BY <1>1, <1>2, <1>8, GotoFacts DEF IInv, Typed
  <2>2. WrittenFor(cli[c])'
    BY <1>1, <1>4, <2>1 DEF WrittenFor, PortsOf, Registered
  <2>3. ASSUME n \notin murky'
        PROVE  Right(cli[c], n)'
    <3>1. volume'[n] = None
      BY <1>5, <1>8, <2>3, LifecycleAssumption
    <3>2. Sane(cli[c], n)'
      BY <1>7, <2>1, <2>3 DEF Sane
    <3>3. Told(cli[c], n)' /\ Named(cli[c], n)' /\ Kept(cli[c], n)'
      BY <1>7, <2>1, <2>3 DEF Told, Named, Kept, OwnVolume
    <3>4. Creating(cli[c], n)' /\ Restoring(cli[c], n)'
      BY <1>7, <2>1, <2>3, <3>1 DEF Creating, Restoring
    <3> QED
      BY <3>2, <3>3, <3>4 DEF Right
  <2> QED
    BY <1>1, <1>2, <1>4, <1>6, <2>1, <2>2, <2>3, Treated
<1>9. CASE End(c)
  <2>1. cli'[c] = Idle /\ \A d \in Clis \ {c} : cli'[d] = cli[d]
    BY <1>9, EndFacts DEF IInv, Typed
  <2>2. WrittenFor(cli[c])'
    BY <2>1, EndWritten
  <2>3. ASSUME n \notin murky'
        PROVE  Right(Idle, n)'
    <3>1. Sane(Idle, n)'
      BY <1>7, <2>3, IdleIsWork DEF Sane
    <3>2. Kept(Idle, n)' /\ Creating(Idle, n)' /\ Restoring(Idle, n)'
      BY <1>7, <2>3, IdleIsWork DEF Kept, Creating, Restoring, OwnVolume
    <3> QED
      BY <1>7, <2>3, <3>1, <3>2 DEF Right
  <2> QED
    BY <1>1, <1>2, <1>4, <1>6, <2>1, <2>2, <2>3, IdleIsWork, Treated
<1> QED
  BY <1>5, <1>8, <1>9

(* CreateFiles keeps the invariant.                                        *)
LEMMA CreateFilesTreats ==
    ASSUME IInv, NEW c \in Clis, CreateFiles(c)
    PROVE  IInv'
<1> SUFFICES ASSUME murky' # Names PROVE IInv'
  BY CreateFilesTyped, AllMurky DEF IInv
<1>1. /\ Typed' /\ cli[c].pc = "files" /\ cli[c].n \in Names /\ murky' = murky
      /\ UNCHANGED <<registry, tmp, archive, volume, container, kept>> /\ cli[c].op = "create"
  BY CreateFilesTyped, Places DEF CreateFiles, IInv, Typed
<1>2. PICK n \in Names : n = cli[c].n
  BY <1>1
<1>3. /\ cli'[c].pc = "add" /\ cli'[c].op = "create" /\ cli'[c].n = n
      /\ cli'[c].port = PortFor(c) /\ cli'[c].secret = root'[n].secret
      /\ root'[n] # None
      /\ PortFor(c) \notin cli[c].taken
      /\ \A d \in Clis \ {c} : cli'[d] = cli[d]
  BY <1>1, <1>2, CreateFilesTyped DEF IInv
<1>4. /\ PortsApart' /\ WrittenFor(cli[c])
      /\ n \notin murky' => Right(cli[c], n)
  BY <1>1, <1>2, AtWork, PortsApartSame
<1>5. WrittenFor(cli[c])'
  <2>1. registry'[n] = None /\ PortsOf(Registered)' \subseteq cli[c].taken
    BY <1>1, <1>2, <1>4 DEF WrittenFor, PortsOf, Registered
  <2> QED
    BY <1>3, <2>1 DEF WrittenFor
<1>6. /\ told'[n] = 0 /\ good'[n] = None
      /\ \A m \in Names \ {n} : /\ root'[m] = root[m] /\ told'[m] = told[m]
                                /\ good'[m] = good[m] /\ swaps'[m] = swaps[m]
  BY <1>2 DEF CreateFiles, IInv, Typed, StoreTyped, RestTyped
<1>7. Elsewhere(n)
  BY <1>1, <1>6 DEF Elsewhere
<1>8. ASSUME n \notin murky'
      PROVE  Right(cli[c], n)'
  <2>1. Right(cli[c], n) /\ container[n] = None /\ volume[n] = None
    BY <1>1, <1>4, <1>8 DEF Right, Creating
  <2>2. Sane(cli[c], n)'
    BY <1>1, <1>3, <2>1 DEF Sane
  <2>3. Told(cli[c], n)' /\ Named(cli[c], n)'
    BY <1>6 DEF Told, Named
  <2>4. Kept(cli[c], n)'
    BY <1>1, <1>3, <2>1 DEF Right, Kept, OwnVolume
  <2>5. Creating(cli[c], n)' /\ Restoring(cli[c], n)'
    BY <1>1, <1>3, <1>6, <2>1 DEF Creating, Restoring
  <2> QED
    BY <2>2, <2>3, <2>4, <2>5 DEF Right
<1> QED
  BY <1>1, <1>2, <1>3, <1>4, <1>5, <1>7, <1>8, Treated

(* AddLoad keeps the invariant.                                            *)
LEMMA AddLoadTreats ==
    ASSUME IInv, NEW c \in Clis, AddLoad(c)
    PROVE  IInv'
<1> SUFFICES ASSUME murky' # Names PROVE IInv'
  BY AddLoadTyped, AllMurky DEF IInv
<1>1. /\ Typed' /\ cli[c].pc = "add" /\ cli[c].n \in Names /\ murky' = murky
      /\ UNCHANGED <<registry, archive, root, volume, container, told, good, swaps, kept>>
      /\ cli[c].op \in {"create", "restore"}
  BY AddLoadTyped, Places DEF AddLoad, files, ghosts, IInv, Typed
<1>2. PICK n \in Names : n = cli[c].n
  BY <1>1
<1>3. /\ PortsApart' /\ WrittenFor(cli[c]) /\ registry[n] = None
      /\ n \notin murky' => Right(cli[c], n)
  BY <1>1, <1>2, AtWork, PortsApartSame DEF WrittenFor
<1>4. /\ tmp' = [registry EXCEPT ![n] = [port |-> cli[c].port, mode |-> ModeIn(cli[c])]]
      /\ Goto(c, "addput")
  BY <1>2, <1>3 DEF AddLoad, ModeIn
<1>5. /\ cli'[c].pc = "addput" /\ cli'[c].op = cli[c].op /\ cli'[c].n = n
      /\ cli'[c].port = cli[c].port /\ cli'[c].secret = cli[c].secret
      /\ \A d \in Clis \ {c} : cli'[d] = cli[d]
  BY <1>1, <1>2, <1>4, GotoFacts DEF IInv, Typed
<1>6. WrittenFor(cli[c])'
  <2>1. ModeIn(cli[c])' = ModeIn(cli[c]) /\ PortsOf(Registered)' = PortsOf(Registered)
    BY <1>1, <1>2, <1>5 DEF ModeIn, ModeOf, PortsOf, Registered
  <2> QED
    BY <1>1, <1>2, <1>3, <1>4, <1>5, <2>1 DEF WrittenFor
<1>7. Elsewhere(n)
  BY <1>1 DEF Elsewhere
<1>8. ASSUME n \notin murky'
      PROVE  Right(cli[c], n)'
  <2>1. Right(cli[c], n)
    BY <1>3, <1>8
  <2>2. Sane(cli[c], n)'
    BY <1>1, <1>5, <2>1 DEF Right, Sane
  <2>3. Told(cli[c], n)' /\ Named(cli[c], n)' /\ Kept(cli[c], n)'
    BY <1>1, <1>5, <2>1 DEF Right, Told, Named, Kept, OwnVolume
  <2>4. Creating(cli[c], n)' /\ Restoring(cli[c], n)'
    BY <1>1, <1>5, <2>1 DEF Right, Creating, Restoring
  <2> QED
    BY <2>2, <2>3, <2>4 DEF Right
<1> QED
  BY <1>1, <1>2, <1>3, <1>5, <1>6, <1>7, <1>8, Treated DEF Writers

(* AddPut keeps the invariant.                                             *)
LEMMA AddPutTreats ==
    ASSUME IInv, NEW c \in Clis, AddPut(c)
    PROVE  IInv'
<1> SUFFICES ASSUME murky' # Names PROVE IInv'
  BY AddPutTyped, AllMurky DEF IInv
<1>1. /\ Typed' /\ cli[c].pc = "addput" /\ cli[c].n \in Names /\ murky' = murky
      /\ UNCHANGED <<archive, root, volume, container, told, good, swaps, kept>>
      /\ cli[c].op \in {"create", "restore"}
  BY AddPutTyped, Places DEF AddPut, Replace, files, ghosts, IInv, Typed
<1>2. PICK n \in Names : n = cli[c].n
  BY <1>1
<1>3. PICK entry : entry = [port |-> cli[c].port, mode |-> ModeIn(cli[c])]
  OBVIOUS
<1>4. /\ PortsApart /\ WrittenFor(cli[c])
      /\ tmp = [registry EXCEPT ![n] = entry] /\ registry[n] = None
      /\ entry.mode = "network" \/ entry.port \notin PortsOf(Registered)
      /\ n \notin murky' => Right(cli[c], n)
  BY <1>1, <1>2, <1>3, AtWork DEF WrittenFor
<1>5. entry # None /\ tmp # None
  <2>1. cli[c].port \in Ports
    BY Places DEF IInv, Typed, WorkSet
  <2>2. ModeIn(cli[c]) \in {"local", "network"}
    BY <1>1, Places DEF ModeIn, ModeOf, IInv, Typed, StoreTyped, Optional, Archive
  <2>3. entry \in Entry
    BY <1>3, <2>1, <2>2 DEF Entry
  <2>4. tmp \in [Names -> Optional(Entry)]
    BY <1>4, <2>3 DEF IInv, Typed, StoreTyped, Optional
  <2> QED
    BY <2>3, <2>4, Nones
<1>6. /\ registry'[n] = entry /\ \A m \in Names \ {n} : registry'[m] = registry[m]
      /\ Goto(c, IF cli[c].op = "restore" THEN "create" ELSE "up")
  BY <1>4, <1>5 DEF AddPut, Replace, IInv, Typed, StoreTyped
<1>7. /\ cli'[c].pc = (IF cli[c].op = "restore" THEN "create" ELSE "up")
      /\ cli'[c].op = cli[c].op /\ cli'[c].n = n /\ cli'[c].secret = cli[c].secret
      /\ \A d \in Clis \ {c} : cli'[d] = cli[d]
  BY <1>2, <1>6, GotoFacts DEF IInv, Typed
<1>8. WrittenFor(cli[c])'
  BY <1>1, <1>7 DEF WrittenFor
<1>9. PortsApart'
  <2>1. \A m \in Registered : entry.mode = "network" \/ entry.port # registry[m].port
    BY <1>4 DEF PortsOf
  <2>2. /\ Registered' = Registered \cup {n} /\ n \notin Registered
        /\ \A m \in Registered : registry'[m] = registry[m]
    BY <1>4, <1>5, <1>6 DEF Registered
  <2> SUFFICES ASSUME NEW a \in Registered', NEW b \in Registered', a # b
               PROVE  \/ registry'[a].mode = "network" \/ registry'[b].mode = "network"
                      \/ registry'[a].port # registry'[b].port
    BY DEF PortsApart
  <2>3. CASE a = n
    BY <1>6, <2>1, <2>2, <2>3
  <2>4. CASE b = n
    BY <1>6, <2>1, <2>2, <2>4
  <2>5. CASE a # n /\ b # n
    BY <1>4, <2>2, <2>5 DEF PortsApart
  <2> QED
    BY <2>3, <2>4, <2>5
<1>10. Elsewhere(n)
  BY <1>1, <1>6 DEF Elsewhere
<1>11. ASSUME n \notin murky'
       PROVE  Right(cli[c], n)'
  <2>1. Right(cli[c], n) /\ container[n] = None
    BY <1>1, <1>4, <1>11 DEF Right, Sane
  <2>2. Sane(cli[c], n)'
    BY <1>1, <1>5, <1>6, <1>7, <2>1 DEF Right, Sane
  <2>3. Told(cli[c], n)' /\ Named(cli[c], n)' /\ Kept(cli[c], n)'
    BY <1>1, <1>7, <2>1 DEF Right, Told, Named, Kept, OwnVolume
  <2>4. Creating(cli[c], n)' /\ Restoring(cli[c], n)'
    BY <1>1, <1>7, <2>1 DEF Right, Creating, Restoring
  <2> QED
    BY <2>2, <2>3, <2>4 DEF Right
<1> QED
  BY <1>1, <1>2, <1>7, <1>8, <1>9, <1>10, <1>11, Treated DEF Writers

(* Down keeps the invariant.                                               *)
LEMMA DownTreats ==
    ASSUME IInv, NEW c \in Clis, Down(c)
    PROVE  IInv'
<1> SUFFICES ASSUME murky' # Names PROVE IInv'
  BY DownTyped, AllMurky DEF IInv
<1>1. /\ Typed' /\ cli[c].pc = "down" /\ cli[c].n \in Names
      /\ UNCHANGED <<registry, tmp, archive, root, told, good, swaps, kept>>
      /\ cli[c].op \in {"remove", "uninstall", "restore"} /\ (cli[c].op = "restore" => cli[c].keep)
  BY DownTyped, Places DEF Down, IInv, Typed
<1>2. PICK n \in Names : n = cli[c].n
  BY <1>1
<1>3. murky \subseteq murky' /\ murky # Names
  <2>1. murky \subseteq murky'
    BY DownCases DEF Murky
  <2> QED
    BY <1>1, <2>1 DEF IInv, Typed, RestTyped
<1>4. /\ PortsApart' /\ WrittenFor(cli[c])
      /\ n \notin murky' => Right(cli[c], n)
  BY <1>1, <1>2, <1>3, AtWork, PortsApartSame
<1>5. CASE Goto(c, "unreg")
  <2>1. /\ cli'[c].pc = "unreg" /\ cli'[c].op = cli[c].op /\ cli'[c].n = n
        /\ cli'[c].keep = cli[c].keep /\ cli'[c].rest = cli[c].rest
        /\ \A d \in Clis \ {c} : cli'[d] = cli[d]
    BY <1>1, <1>2, <1>5, GotoFacts DEF IInv, Typed
  <2>2. WrittenFor(cli[c])'
    BY <1>1, <1>2, <1>4, <2>1 DEF WrittenFor, Registered
  <2>3. /\ Elsewhere(n)
        /\ n \notin murky' => /\ container'[n] = None
                              /\ volume'[n] = IF cli[c].keep THEN volume[n] ELSE None
    <3>1. CASE UNCHANGED <<container, volume>> /\ n \in murky'
      BY <1>1, <3>1 DEF Elsewhere
    <3>2. CASE /\ container' = [container EXCEPT ![n] = None]
               /\ \E clean \in BOOLEAN :
                     /\ volume' = DownVolumes(c, clean)
                     /\ clean \/ n \in murky'
      <4>1. PICK clean \in BOOLEAN : volume' = DownVolumes(c, clean) /\ (clean \/ n \in murky')
        BY <3>2
      <4>2. /\ \A m \in Names \ {n} : volume'[m] = volume[m]
            /\ clean => volume'[n] = IF cli[c].keep THEN volume[n] ELSE None
        BY <1>2, <4>1, DownVolumesAre DEF IInv, Typed
      <4>3. container'[n] = None /\ \A m \in Names \ {n} : container'[m] = container[m]
        BY <3>2 DEF IInv, Typed, StoreTyped
      <4> QED
        BY <1>1, <4>1, <4>2, <4>3 DEF Elsewhere
    <3>3. ~End(c)
      BY <1>5, GotoFacts, EndFacts, IdleIsWork DEF IInv, Typed
    <3> QED
      BY <1>2, <3>1, <3>2, <3>3, DownCases DEF Murky
  <2>4. ASSUME n \notin murky'
        PROVE  Right(cli[c], n)'
    <3>1. /\ Right(cli[c], n) /\ container'[n] = None
          /\ volume'[n] = IF cli[c].keep THEN volume[n] ELSE None
      BY <1>4, <2>3, <2>4
    <3>2. Sane(cli[c], n)'
      BY <1>1, <2>1, <3>1 DEF Right, Sane
    <3>3. Told(cli[c], n)' /\ Named(cli[c], n)'
      BY <1>1, <2>1, <3>1 DEF Right, Told, Named
    <3>4. Kept(cli[c], n)'
      <4>1. n \in kept => cli[c].keep
        BY <1>1, <3>1 DEF Right, Kept
      <4> QED
        BY <1>1, <2>1, <3>1, <4>1 DEF Right, Kept, OwnVolume
    <3>5. Creating(cli[c], n)' /\ Restoring(cli[c], n)'
      BY <1>1, <2>1 DEF Creating, Restoring
    <3> QED
      BY <3>2, <3>3, <3>4, <3>5 DEF Right
  <2> QED
    BY <1>1, <1>2, <1>3, <1>4, <2>1, <2>2, <2>3, <2>4, Treated
<1>6. CASE End(c)
  <2>1. ~Goto(c, "unreg")
    BY <1>6, GotoFacts, EndFacts, IdleIsWork DEF IInv, Typed
  <2>2. n \in murky' /\ UNCHANGED <<container, volume>>
    BY <1>2, <2>1, DownCases DEF Murky
  <2> QED
    BY <1>1, <1>2, <1>3, <1>6, <2>2, Failed
<1> QED
  BY <1>5, <1>6, DownCases

(* Unregister keeps the invariant.                                         *)
LEMMA UnregisterTreats ==
    ASSUME IInv, NEW c \in Clis, Unregister(c)
    PROVE  IInv'
<1> SUFFICES ASSUME murky' # Names PROVE IInv'
  BY UnregisterTyped, AllMurky DEF IInv
<1>1. /\ Typed' /\ cli[c].pc = "unreg" /\ cli[c].n \in Names /\ murky' = murky
      /\ UNCHANGED <<registry, archive, root, volume, container, told, good, swaps, kept>>
      /\ cli[c].op \in {"remove", "uninstall", "restore"}
  BY UnregisterTyped, Places DEF Unregister, files, ghosts, IInv, Typed
<1>2. PICK n \in Names : n = cli[c].n
  BY <1>1
<1>3. /\ PortsApart' /\ WrittenFor(cli[c])
      /\ n \notin murky' => Right(cli[c], n)
  BY <1>1, <1>2, AtWork, PortsApartSame
<1>4. PICK p \in {"extract", "sweep", "unregput"} :
        /\ Goto(c, p)
        /\ IF p = "unregput" THEN tmp' = [registry EXCEPT ![n] = None]
           ELSE registry[n] = None /\ tmp' = tmp
  BY <1>2 DEF Unregister
<1>5. /\ cli'[c].pc = p /\ cli'[c].op = cli[c].op /\ cli'[c].n = n
      /\ cli'[c].keep = cli[c].keep /\ cli'[c].rest = cli[c].rest
      /\ \A d \in Clis \ {c} : cli'[d] = cli[d]
  BY <1>2, <1>4, GotoFacts DEF IInv, Typed
<1>6. WrittenFor(cli[c])'
  <2>1. /\ cli[c].op = "uninstall" => Registered \subseteq cli[c].rest \cup {n}
        /\ cli[c].op = "remove" => cli[c].rest = {}
    BY <1>1, <1>2, <1>3 DEF WrittenFor
  <2>2. registry[n] = None => n \notin Registered
    BY DEF Registered
  <2>3. Registered' = Registered
    BY <1>1 DEF Registered
  <2> QED
    BY <1>1, <1>4, <1>5, <2>1, <2>2, <2>3 DEF WrittenFor
<1>7. Elsewhere(n)
  BY <1>1 DEF Elsewhere
<1>8. ASSUME n \notin murky'
      PROVE  Right(cli[c], n)'
  <2>1. Right(cli[c], n)
    BY <1>3, <1>8
  <2>2. Sane(cli[c], n)'
    BY <1>1, <1>4, <1>5, <2>1 DEF Right, Sane
  <2>3. Told(cli[c], n)' /\ Named(cli[c], n)' /\ Kept(cli[c], n)'
    BY <1>1, <1>4, <1>5, <2>1 DEF Right, Told, Named, Kept, OwnVolume
  <2>4. Creating(cli[c], n)' /\ Restoring(cli[c], n)'
    BY <1>1, <1>4, <1>5, <2>1 DEF Creating, Restoring
  <2> QED
    BY <2>2, <2>3, <2>4 DEF Right
<1> QED
  BY <1>1, <1>2, <1>3, <1>4, <1>5, <1>6, <1>7, <1>8, Treated DEF Writers

(* UnregisterPut keeps the invariant.                                      *)
LEMMA UnregisterPutTreats ==
    ASSUME IInv, NEW c \in Clis, UnregisterPut(c)
    PROVE  IInv'
<1> SUFFICES ASSUME murky' # Names PROVE IInv'
  BY UnregisterPutTyped, AllMurky DEF IInv
<1>1. /\ Typed' /\ cli[c].pc = "unregput" /\ cli[c].n \in Names /\ murky' = murky
      /\ UNCHANGED <<archive, root, volume, container, told, good, swaps, kept>>
      /\ cli[c].op \in {"remove", "uninstall", "restore"}
  BY UnregisterPutTyped, Places DEF UnregisterPut, Replace, files, ghosts, IInv, Typed
<1>2. PICK n \in Names : n = cli[c].n
  BY <1>1
<1>3. /\ PortsApart /\ WrittenFor(cli[c]) /\ tmp = [registry EXCEPT ![n] = None]
      /\ n \notin murky' => Right(cli[c], n)
  BY <1>1, <1>2, AtWork DEF WrittenFor
<1>4. tmp # None
  <2>1. tmp \in [Names -> Optional(Entry)]
    BY <1>3 DEF IInv, Typed, StoreTyped, Optional
  <2> QED
    BY <2>1, Nones
<1>5. PICK p \in {"extract", "sweep"} : Goto(c, p)
  BY <1>4 DEF UnregisterPut, Replace
<1>6. /\ registry'[n] = None /\ \A m \in Names \ {n} : registry'[m] = registry[m]
      /\ Registered' = Registered \ {n}
  <2>1. registry' = [registry EXCEPT ![n] = None]
    BY <1>3, <1>4 DEF UnregisterPut, Replace
  <2>2. registry'[n] = None /\ \A m \in Names \ {n} : registry'[m] = registry[m]
    BY <2>1 DEF IInv, Typed, StoreTyped
  <2> QED
    BY <2>2 DEF Registered
<1>7. /\ cli'[c].pc = p /\ cli'[c].op = cli[c].op /\ cli'[c].n = n
      /\ cli'[c].keep = cli[c].keep /\ cli'[c].rest = cli[c].rest
      /\ \A d \in Clis \ {c} : cli'[d] = cli[d]
  BY <1>2, <1>5, GotoFacts DEF IInv, Typed
<1>8. WrittenFor(cli[c])'
  <2>1. /\ cli[c].op = "uninstall" => Registered \subseteq cli[c].rest \cup {n}
        /\ cli[c].op = "remove" => cli[c].rest = {}
    BY <1>1, <1>2, <1>3 DEF WrittenFor
  <2> QED
    BY <1>1, <1>6, <1>7, <2>1 DEF WrittenFor
<1>9. PortsApart'
  <2>1. \A m \in Registered' : m \in Registered /\ registry'[m] = registry[m]
    BY <1>6 DEF Registered
  <2> QED
    BY <1>3, <2>1 DEF PortsApart
<1>10. Elsewhere(n)
  BY <1>1, <1>6 DEF Elsewhere
<1>11. ASSUME n \notin murky'
       PROVE  Right(cli[c], n)'
  <2>1. Right(cli[c], n) /\ container[n] = None
    BY <1>1, <1>3, <1>11 DEF Right, Sane
  <2>2. Sane(cli[c], n)'
    BY <1>1, <1>6, <1>7, <2>1 DEF Right, Sane
  <2>3. Told(cli[c], n)' /\ Named(cli[c], n)' /\ Kept(cli[c], n)'
    BY <1>1, <1>7, <2>1 DEF Right, Told, Named, Kept, OwnVolume
  <2>4. Creating(cli[c], n)' /\ Restoring(cli[c], n)'
    BY <1>1, <1>7, <2>1 DEF Creating, Restoring
  <2> QED
    BY <2>2, <2>3, <2>4 DEF Right
<1> QED
  BY <1>1, <1>2, <1>7, <1>8, <1>9, <1>10, <1>11, Treated DEF Writers

(* Sweep keeps the invariant.                                              *)
LEMMA SweepTreats ==
    ASSUME IInv, NEW c \in Clis, Sweep(c)
    PROVE  IInv'
<1> SUFFICES ASSUME murky' # Names PROVE IInv'
  BY SweepTyped, AllMurky DEF IInv
<1>1. /\ Typed' /\ cli[c].pc = "sweep" /\ cli[c].n \in Names /\ murky' = murky
      /\ UNCHANGED <<registry, tmp, archive, container, told, good, swaps, kept>>
      /\ cli[c].op \in {"remove", "uninstall"}
  BY SweepTyped, Places DEF Sweep, ghosts, IInv, Typed
<1>2. PICK n \in Names : n = cli[c].n
  BY <1>1
<1>3. /\ PortsApart' /\ WrittenFor(cli[c]) /\ registry[n] = None
      /\ n \notin murky' => Right(cli[c], n)
  BY <1>1, <1>2, AtWork, PortsApartSame DEF WrittenFor
<1>4. PICK p \in {"rmi", "next"} : Goto(c, p)
  BY DEF Sweep, AfterSweep
<1>5. /\ cli'[c].pc = p /\ cli'[c].op = cli[c].op /\ cli'[c].n = n
      /\ cli'[c].keep = cli[c].keep /\ cli'[c].rest = cli[c].rest
      /\ \A d \in Clis \ {c} : cli'[d] = cli[d]
  BY <1>2, <1>4, GotoFacts DEF IInv, Typed
<1>6. WrittenFor(cli[c])'
  BY <1>1, <1>2, <1>3, <1>5 DEF WrittenFor, Registered
<1>7. /\ Elsewhere(n) /\ volume'[n] \in {None, volume[n]}
      /\ root'[n] = None \/ root'[n] = root[n]
      /\ cli[c].keep => volume'[n] = volume[n]
  <2>1. CASE cli[c].keep
    BY <1>1, <2>1 DEF Sweep, Elsewhere
  <2>2. CASE ~cli[c].keep
    <3>1. volume' = WithoutVolumes(Removable(Leftover(n))) /\ root' = [root EXCEPT ![n] = None]
      BY <1>2, <2>2 DEF Sweep
    <3>2. root'[n] = None /\ \A m \in Names \ {n} : root'[m] = root[m]
      BY <3>1 DEF IInv, Typed, StoreTyped
    <3> QED
      BY <1>1, <2>2, <3>1, <3>2, WithoutElsewhere DEF IInv, Typed
  <2> QED
    BY <2>1, <2>2
<1>8. ASSUME n \notin murky', NEW w, w.op \in {"none", "remove", "uninstall"},
             w.pc \in {"idle", "rmi", "next"}, w.op # "none" => w.keep = cli[c].keep
      PROVE  Right(w, n)'
  <2>1. Right(cli[c], n) /\ container[n] = None
    BY <1>1, <1>3, <1>8 DEF Right, Sane
  <2>2. Sane(w, n)'
    BY <1>1, <1>3, <1>7, <1>8, <2>1 DEF Right, Sane
  <2>3. Told(w, n)' /\ Named(w, n)'
    BY <1>1, <1>7, <1>8, <2>1 DEF Right, Told, Named
  <2>4. Kept(w, n)'
    BY <1>1, <1>7, <1>8, <2>1 DEF Right, Kept, OwnVolume
  <2>5. Creating(w, n)' /\ Restoring(w, n)'
    BY <1>8 DEF Creating, Restoring
  <2> QED
    BY <2>2, <2>3, <2>4, <2>5 DEF Right
<1>9. n \notin murky' => Right(Idle, n)'
  BY <1>8, IdleIsWork
<1>10. ASSUME n \notin murky'
       PROVE  Right(cli[c], n)'
  <2>1. PICK w : w = cli'[c]
    OBVIOUS
  <2>2. Right(w, n)'
    BY <1>1, <1>5, <1>8, <1>10, <2>1
  <2> QED
    BY <2>1, <2>2 DEF Right, Sane, Told, Named, Kept, Creating, Restoring
<1> QED
  BY <1>1, <1>2, <1>3, <1>5, <1>6, <1>7, <1>9, <1>10, Treated

(* The last steps of a removal keep the invariant.                         *)
LEMMA RmiTreats ==
    ASSUME IInv, NEW c \in Clis, Rmis(c)
    PROVE  IInv'
<1> SUFFICES ASSUME murky' # Names PROVE IInv'
  BY RmiTyped, AllMurky DEF IInv
<1>1. /\ Typed' /\ cli[c].pc \in {"rmi", "look"} /\ cli[c].n \in Names /\ murky' = murky
      /\ UNCHANGED <<registry, tmp, archive, root, volume, container, told, good, swaps, kept>>
      /\ cli[c].op \in {"remove", "uninstall"}
  BY RmiTyped, Places DEF Rmis, Rmi, LookForUse, RemoveImage, files, ghosts, IInv, Typed
<1>2. PICK n \in Names : n = cli[c].n
  BY <1>1
<1>3. /\ PortsApart' /\ WrittenFor(cli[c]) /\ registry[n] = None
      /\ n \notin murky' => Right(cli[c], n)
  BY <1>1, <1>2, AtWork, PortsApartSame DEF WrittenFor
<1>4. /\ \/ cli'[c] = Idle
         \/ /\ cli'[c].pc \in {"look", "next"} /\ cli'[c].op = cli[c].op /\ cli'[c].n = n
            /\ cli'[c].keep = cli[c].keep /\ cli'[c].rest = cli[c].rest
      /\ \A d \in Clis \ {c} : cli'[d] = cli[d]
  BY <1>2, RmiTyped DEF IInv
<1>5. WrittenFor(cli[c])'
  <2>1. CASE cli'[c] = Idle
    BY <2>1, EndWritten
  <2>2. CASE cli'[c] # Idle
    BY <1>1, <1>2, <1>3, <1>4, <2>2 DEF WrittenFor, Registered
  <2> QED
    BY <2>1, <2>2
<1>6. Elsewhere(n)
  BY <1>1 DEF Elsewhere
<1>7. ASSUME n \notin murky', NEW w, w.op \in {"none", "remove", "uninstall"},
             w.pc \in {"idle", "look", "next"}, w.op # "none" => w.keep = cli[c].keep
      PROVE  Right(w, n)'
  <2>1. Right(cli[c], n) /\ container[n] = None
    BY <1>1, <1>3, <1>7 DEF Right, Sane
  <2>2. Sane(w, n)'
    BY <1>1, <1>3, <1>7, <2>1 DEF Right, Sane
  <2>3. Told(w, n)' /\ Named(w, n)'
    BY <1>1, <1>7, <2>1 DEF Right, Told, Named
  <2>4. Kept(w, n)'
    BY <1>1, <1>7, <2>1 DEF Right, Kept, OwnVolume
  <2>5. Creating(w, n)' /\ Restoring(w, n)'
    BY <1>7 DEF Creating, Restoring
  <2> QED
    BY <2>2, <2>3, <2>4, <2>5 DEF Right
<1>8. n \notin murky' => Right(Idle, n)'
  BY <1>7, IdleIsWork
<1>9. ASSUME n \notin murky', cli'[c] # Idle
      PROVE  Right(cli[c], n)'
  <2>1. PICK w : w = cli'[c]
    OBVIOUS
  <2>2. Right(w, n)'
    BY <1>1, <1>4, <1>7, <1>9, <2>1
  <2> QED
    BY <2>1, <2>2 DEF Right, Sane, Told, Named, Kept, Creating, Restoring
<1> QED
  BY <1>1, <1>2, <1>3, <1>4, <1>5, <1>6, <1>8, <1>9, IdleIsWork, Treated

(* A step of a terminal between two names.                                 *)
LEMMA TreatedNone ==
    ASSUME IInv, Typed', NEW c \in Clis, cli[c].pc = "next", End(c), murky \subseteq murky',
           UNCHANGED archive, Elsewhere(None), UNCHANGED <<registry, tmp>> \/ cli[c].op \in Writers,
           murky' # Names => PortsApart'
    PROVE  IInv'
<1>1. cli'[c] = Idle /\ Follows(c)
  BY EndFacts, EndFollows DEF IInv, Typed
<1>2. Alone'
  BY <1>1, AloneFollows DEF IInv
<1>3. WrittenFor(cli[c])'
  BY <1>1, EndWritten
<1>4. Written'
  BY <1>1, <1>3, WrittenFollows DEF IInv
<1>5. \A m \in Names : ~Busy(c, m) /\ ~Busy(c, m)'
  BY <1>1, IdleIsWork DEF Busy
<1>6. NamesRight'
  BY <1>1, <1>5, NamesFollowNone DEF IInv
<1> QED
  BY <1>2, <1>4, <1>6 DEF IInv

(* RemovalEnds keeps the invariant.                                        *)
LEMMA RemovalEndsTreats ==
    ASSUME IInv, NEW c \in Clis, RemovalEnds(c)
    PROVE  IInv'
<1>1. /\ Typed' /\ cli[c].pc = "next" /\ End(c) /\ murky' = murky
      /\ UNCHANGED <<registry, tmp, archive, files, told, good, swaps, kept>>
  BY RemovalEndsTyped DEF RemovalEnds, ghosts, IInv
<1>2. Elsewhere(None)
  BY <1>1, SameElsewhere DEF Optional
<1>3. murky' # Names => PortsApart'
  BY <1>1, AtWork, PortsApartSame
<1> QED
  BY <1>1, <1>2, <1>3, TreatedNone

(* UninstallNext keeps the invariant.                                      *)
LEMMA UninstallNextTreats ==
    ASSUME IInv, NEW c \in Clis, NEW n \in Names, NEW keep \in BOOLEAN, NEW rmi \in BOOLEAN,
           UninstallNext(c, n, keep, rmi)
    PROVE  IInv'
<1>1. /\ Typed' /\ cli[c].pc = "next" /\ n \in cli[c].rest /\ murky' = murky
      /\ UNCHANGED <<registry, tmp, archive, files, told, good, swaps>>
  BY UninstallNextTyped DEF UninstallNext, IInv
<1>2. murky' # Names => PortsApart' /\ WrittenFor(cli[c])
  BY <1>1, AtWork, PortsApartSame
<1>3. CASE End(c) /\ UNCHANGED kept
  <2>1. Elsewhere(None)
    BY <1>1, <1>3, SameElsewhere DEF Optional
  <2> QED
    BY <1>1, <1>2, <1>3, <2>1, TreatedNone
<1>4. CASE /\ n \in Registered /\ kept' = Keeping(n, keep)
           /\ cli'[c].pc = (IF root[n] = None THEN "unreg" ELSE "down")
           /\ cli'[c].op = "uninstall" /\ cli'[c].n = n /\ cli'[c].keep = keep
           /\ cli'[c].rest = cli[c].rest \ {n}
           /\ \A d \in Clis \ {c} : cli'[d] = cli[d]
  <2>1. cli[c].op \in {"uninstall", "remove"}
    BY <1>1, Places DEF IInv, Typed
  <2> SUFFICES ASSUME murky' # Names PROVE IInv'
    BY <1>1, AllMurky
  <2>2. cli[c].op = "uninstall"
    BY <1>1, <1>2, <2>1 DEF WrittenFor
  <2>3. Follows(c) /\ About(c, n)
    BY <1>1, <1>4, <2>2 DEF Follows, About
  <2>4. Alone'
    BY <1>1, <2>3, AloneFollows DEF IInv
  <2>5. murky' # Names => WrittenFor(cli[c])'
    BY <1>1, <1>2, <1>4, <2>2 DEF WrittenFor, Registered
  <2>6. Written'
    BY <1>1, <1>2, <2>3, <2>5, WrittenFollows DEF IInv
  <2>7. Elsewhere(n)
    BY <1>1, <1>4, SameElsewhere, KeepingElsewhere DEF Optional
  <2>8. (\A m \in Names : ~Busy(c, m)) /\ (\A m \in Names \ {n} : ~Busy(c, m)') /\ Busy(c, n)'
    BY <1>1, <1>4 DEF Busy
  <2>9. ASSUME n \notin murky'
        PROVE  Right(cli[c], n)'
    <3>1. Right(Idle, n)
      BY <1>1, <2>3, <2>8, <2>9, OwnBefore DEF IInv
    <3>2. Sane(cli[c], n)'
      BY <1>1, <1>4, <3>1, IdleIsWork DEF Right, Sane, Opens, Running, files
    <3>3. Told(cli[c], n)' /\ Named(cli[c], n)'
      BY <1>1, <1>4, <3>1 DEF Right, Told, Named, files
    <3>4. Kept(cli[c], n)'
      BY <1>1, <1>4, KeepingElsewhere DEF Kept, files
    <3>5. Creating(cli[c], n)' /\ Restoring(cli[c], n)'
      BY <1>4 DEF Creating, Restoring
    <3> QED
      BY <3>2, <3>3, <3>4, <3>5 DEF Right
  <2>10. NamesRight'
    BY <1>1, <2>3, <2>7, <2>8, <2>9, NamesFollow DEF IInv
  <2> QED
    BY <1>1, <2>4, <2>6, <2>10 DEF IInv
<1> QED
  BY <1>3, <1>4, UninstallNextTyped DEF IInv

(* UninstallEnds keeps the invariant.                                      *)
LEMMA UninstallEndsTreats ==
    ASSUME IInv, NEW c \in Clis, UninstallEnds(c)
    PROVE  IInv'
<1> SUFFICES ASSUME murky' # Names PROVE IInv'
  BY UninstallEndsTyped, AllMurky DEF IInv
<1>1. /\ Typed' /\ cli[c].pc = "next" /\ cli[c].op = "uninstall" /\ cli[c].rest = {} /\ End(c)
      /\ murky' = murky /\ UNCHANGED <<archive, files, told, good, swaps, kept>>
      /\ \A m \in Names : registry'[m] = None
  BY UninstallEndsTyped DEF UninstallEnds, ghosts, IInv
<1>2. WrittenFor(cli[c]) /\ PortsApart
  BY <1>1, AtWork
<1>3. \A m \in Names : registry[m] = None
  BY <1>1, <1>2 DEF WrittenFor, Registered
<1>4. Elsewhere(None)
  BY <1>1, <1>3 DEF Elsewhere, files
<1>5. PortsApart'
  BY <1>1 DEF PortsApart, Registered
<1> QED
  BY <1>1, <1>4, <1>5, TreatedNone DEF Writers

(* Interrupt keeps the invariant.                                          *)
LEMMA InterruptTreats ==
    ASSUME IInv, NEW c \in Clis, Interrupt(c)
    PROVE  IInv'
<1>1. /\ Typed' /\ cli[c].pc # "idle" /\ End(c)
      /\ murky' = murky \cup (cli[c].rest \cup ({cli[c].n} \ {None}))
      /\ UNCHANGED <<registry, tmp, archive, files, told, good, swaps, kept>>
  BY InterruptTyped DEF Interrupt, Murky, IInv
<1>2. Elsewhere(None)
  BY <1>1, SameElsewhere DEF Optional
<1>3. murky' # Names => murky # Names /\ PortsApart'
  <2>1. murky' # Names => murky # Names
    BY <1>1 DEF IInv, Typed, RestTyped
  <2> QED
    BY <1>1, <2>1, AtWork, PortsApartSame
<1>4. CASE cli[c].pc = "next"
  BY <1>1, <1>2, <1>3, <1>4, TreatedNone
<1>5. CASE cli[c].pc # "next"
  <2>1. PICK n \in Names : n = cli[c].n
    BY <1>1, <1>5, Places DEF IInv, Typed
  <2>2. n \in murky' /\ murky \subseteq murky'
    BY <1>1, <2>1, Nones
  <2> QED
    BY <1>1, <1>3, <1>5, <2>1, <2>2, Failed, AllMurky DEF files
<1> QED
  BY <1>4, <1>5

(* Extract keeps the invariant.                                            *)
LEMMA ExtractTreats ==
    ASSUME IInv, NEW c \in Clis, Extract(c)
    PROVE  IInv'
<1> SUFFICES ASSUME murky' # Names PROVE IInv'
  BY ExtractTyped, AllMurky DEF IInv
<1>1. /\ Typed' /\ cli[c].pc = "extract" /\ cli[c].n \in Names /\ murky' = murky
      /\ UNCHANGED <<registry, tmp, archive, volume, container, kept>>
      /\ cli[c].op = "restore" /\ archive # None /\ Goto(c, "adjust")
  BY ExtractTyped, Places DEF Extract, IInv, Typed
<1>2. PICK n \in Names : n = cli[c].n
  BY <1>1
<1>3. /\ PortsApart' /\ WrittenFor(cli[c]) /\ registry[n] = None
      /\ n \notin murky' => Right(cli[c], n)
  BY <1>1, <1>2, AtWork, PortsApartSame DEF WrittenFor
<1>4. /\ cli'[c].pc = "adjust" /\ cli'[c].op = cli[c].op /\ cli'[c].n = n
      /\ \A d \in Clis \ {c} : cli'[d] = cli[d]
  BY <1>1, <1>2, GotoFacts DEF IInv, Typed
<1>5. WrittenFor(cli[c])'
  BY <1>1, <1>2, <1>3, <1>4 DEF WrittenFor
<1>6. /\ root'[n] = archive.dir /\ told'[n] = 0 /\ good'[n] = None
      /\ \A m \in Names \ {n} : /\ root'[m] = root[m] /\ told'[m] = told[m]
                                /\ good'[m] = good[m] /\ swaps'[m] = swaps[m]
  BY <1>2 DEF Extract, IInv, Typed, StoreTyped, RestTyped
<1>7. root'[n] # None
  BY <1>1, <1>6, Nones DEF IInv, Typed, StoreTyped, Optional, Archive
<1>8. Elsewhere(n)
  BY <1>1, <1>6 DEF Elsewhere
<1>9. ASSUME n \notin murky'
      PROVE  Right(cli[c], n)'
  <2>1. Right(cli[c], n) /\ container[n] = None
    BY <1>1, <1>3, <1>9 DEF Right, Sane
  <2>2. Sane(cli[c], n)'
    BY <1>1, <1>3, <1>4, <2>1 DEF Right, Sane
  <2>3. Told(cli[c], n)' /\ Named(cli[c], n)'
    BY <1>6 DEF Told, Named
  <2>4. Kept(cli[c], n)'
    BY <1>1, <1>4, <2>1 DEF Right, Kept, OwnVolume
  <2>5. Creating(cli[c], n)' /\ Restoring(cli[c], n)'
    BY <1>1, <1>4, <1>6, <1>7 DEF Creating, Restoring
  <2> QED
    BY <2>2, <2>3, <2>4, <2>5 DEF Right
<1> QED
  BY <1>1, <1>2, <1>3, <1>4, <1>5, <1>8, <1>9, Treated

(* Adjust keeps the invariant.                                             *)
LEMMA AdjustTreats ==
    ASSUME IInv, NEW c \in Clis, Adjust(c)
    PROVE  IInv'
<1> SUFFICES ASSUME murky' # Names PROVE IInv'
  BY AdjustTyped, AllMurky DEF IInv
<1>1. /\ Typed' /\ cli[c].pc = "adjust" /\ cli[c].n \in Names /\ murky' = murky
      /\ UNCHANGED <<registry, tmp, archive, volume, container, told, good, swaps, kept>>
      /\ cli[c].op = "restore" /\ archive # None /\ root[cli[c].n] # None
  BY AdjustTyped, Places DEF Adjust, ghosts, IInv, Typed
<1>2. PICK n \in Names : n = cli[c].n
  BY <1>1
<1>3. /\ PortsApart' /\ WrittenFor(cli[c]) /\ registry[n] = None
      /\ n \notin murky' => Right(cli[c], n)
  BY <1>1, <1>2, AtWork, PortsApartSame DEF WrittenFor
<1>4. CASE /\ cli'[c].pc = "add" /\ cli'[c].op = "restore" /\ cli'[c].n = cli[c].n
           /\ cli'[c].port = NewPort(c)
           /\ \A d \in Clis \ {c} : cli'[d] = cli[d]
           /\ root'[cli[c].n] # None /\ root'[cli[c].n].secret = root[cli[c].n].secret
           /\ \A m \in Names \ {cli[c].n} : root'[m] = root[m]
  <2>1. WrittenFor(cli[c])'
    <3>1. ModeIn(cli[c])' = archive.mode /\ PortsOf(Registered)' = PortsOf(Registered)
      BY <1>1, <1>4 DEF ModeIn, PortsOf, Registered
    <3>2. archive.mode = "local" => NewPort(c) \notin PortsOf(Registered)
      <4>1. Registered \ {n} = Registered
        BY <1>3 DEF Registered
      <4> QED
        BY <1>1, <1>2, <4>1, NewPortIs DEF TakenPorts, IInv
    <3>3. archive.mode \in {"local", "network"}
      BY <1>1 DEF IInv, Typed, StoreTyped, Optional, Archive
    <3> QED
      BY <1>1, <1>2, <1>3, <1>4, <3>1, <3>2, <3>3 DEF WrittenFor
  <2>2. Elsewhere(n)
    BY <1>1, <1>2, <1>4 DEF Elsewhere
  <2>3. ASSUME n \notin murky'
        PROVE  Right(cli[c], n)'
    <3>1. /\ Right(cli[c], n) /\ container[n] = None /\ told[n] = 0 /\ good[n] = None
          /\ root[n].secret = archive.dir.secret
      BY <1>1, <1>3, <2>3 DEF Right, Sane, Restoring
    <3>2. Sane(cli[c], n)'
      BY <1>1, <1>3, <1>4, <3>1 DEF Right, Sane
    <3>3. Told(cli[c], n)' /\ Named(cli[c], n)'
      BY <1>1, <3>1 DEF Told, Named
    <3>4. Kept(cli[c], n)'
      BY <1>1, <1>4, <3>1 DEF Right, Kept, OwnVolume
    <3>5. Creating(cli[c], n)' /\ Restoring(cli[c], n)'
      BY <1>1, <1>2, <1>4, <3>1 DEF Creating, Restoring
    <3> QED
      BY <3>2, <3>3, <3>4, <3>5 DEF Right
  <2> QED
    BY <1>1, <1>2, <1>3, <1>4, <2>1, <2>2, <2>3, Treated
<1>5. CASE End(c) /\ UNCHANGED root
  <2>1. cli'[c] = Idle /\ \A d \in Clis \ {c} : cli'[d] = cli[d]
    BY <1>5, EndFacts DEF IInv, Typed
  <2>2. WrittenFor(cli[c])' /\ Elsewhere(n)
    BY <1>1, <1>5, <2>1, EndWritten DEF Elsewhere
  <2>3. ASSUME n \notin murky'
        PROVE  Right(Idle, n)'
    <3>1. Right(cli[c], n) /\ container[n] = None
      BY <1>1, <1>3, <2>3 DEF Right, Sane
    <3>2. Sane(Idle, n)'
      BY <1>1, <1>3, <1>5, <3>1, IdleIsWork DEF Right, Sane
    <3>3. Told(Idle, n)' /\ Named(Idle, n)' /\ Kept(Idle, n)'
      BY <1>1, <1>5, <3>1, IdleIsWork DEF Right, Told, Named, Kept, OwnVolume
    <3>4. Creating(Idle, n)' /\ Restoring(Idle, n)'
      BY IdleIsWork DEF Creating, Restoring
    <3> QED
      BY <3>2, <3>3, <3>4 DEF Right
  <2> QED
    BY <1>1, <1>2, <1>3, <2>1, <2>2, <2>3, IdleIsWork, Treated
<1> QED
  BY <1>4, <1>5, AdjustTyped DEF IInv

(* CreateContainer keeps the invariant.                                    *)
LEMMA CreateContainerTreats ==
    ASSUME IInv, NEW c \in Clis, CreateContainer(c)
    PROVE  IInv'
<1> SUFFICES ASSUME murky' # Names PROVE IInv'
  BY CreateContainerTyped, AllMurky DEF IInv
<1>1. /\ Typed' /\ cli[c].pc = "create" /\ cli[c].n \in Names /\ murky \subseteq murky'
      /\ UNCHANGED <<registry, tmp, archive, root, told, good, swaps, kept>>
      /\ cli[c].op = "restore"
  BY CreateContainerTyped, Places DEF CreateContainer, Murky, IInv, Typed
<1>2. PICK n \in Names : n = cli[c].n
  BY <1>1
<1>3. murky # Names
  BY <1>1 DEF IInv, Typed, RestTyped
<1>4. /\ PortsApart' /\ WrittenFor(cli[c])
      /\ n \notin murky' => Right(cli[c], n)
  BY <1>1, <1>2, <1>3, AtWork, PortsApartSame
<1>5. CASE /\ root[n] # None /\ Goto(c, "cp")
           /\ container' = [container EXCEPT ![n] =
                 [status |-> "created", image |-> root[n].image, port |-> root[n].port]]
           /\ volume' = [volume EXCEPT ![n] = IF volume[n] = None THEN Empty ELSE volume[n]]
  <2>1. /\ cli'[c].pc = "cp" /\ cli'[c].op = cli[c].op /\ cli'[c].n = n
        /\ \A d \in Clis \ {c} : cli'[d] = cli[d]
    BY <1>2, <1>5, GotoFacts DEF IInv, Typed
  <2>2. WrittenFor(cli[c])'
    BY <1>1, <2>1 DEF WrittenFor
  <2>3. /\ container'[n] # None /\ container'[n].status = "created" /\ ~Running(n)'
        /\ \A m \in Names \ {n} : container'[m] = container[m]
    <3>1. PICK k : k = [status |-> "created", image |-> root[n].image, port |-> root[n].port]
      OBVIOUS
    <3>2. k # None /\ k.status = "created"
      BY <1>5, <3>1, RunsHere DEF IInv, Typed
    <3>3. container'[n] = k /\ \A m \in Names \ {n} : container'[m] = container[m]
      BY <1>5, <3>1 DEF IInv, Typed, StoreTyped
    <3> QED
      BY <3>2, <3>3 DEF Running
  <2>4. /\ volume'[n] = IF volume[n] = None THEN Empty ELSE volume[n]
        /\ \A m \in Names \ {n} : volume'[m] = volume[m]
    BY <1>5 DEF IInv, Typed, StoreTyped
  <2>5. Elsewhere(n)
    BY <1>1, <2>3, <2>4 DEF Elsewhere
  <2>6. volume'[n] # None
    BY <2>4, EmptyIsVolume, Nones
  <2>7. ASSUME n \notin murky'
        PROVE  Right(cli[c], n)'
    <3>1. /\ Right(cli[c], n) /\ registry[n] # None /\ told[n] = 0 /\ good[n] = None
          /\ root[n].secret = archive.dir.secret
      BY <1>1, <1>4, <2>7 DEF Right, Sane, Restoring
    <3>2. volume'[n].wal = "none"
      BY <2>4, <3>1 DEF Right, Sane, Empty
    <3>3. Sane(cli[c], n)'
      BY <1>1, <1>5, <2>1, <2>3, <3>1, <3>2 DEF Sane
    <3>4. Told(cli[c], n)' /\ Named(cli[c], n)'
      BY <1>1, <3>1 DEF Told, Named
    <3>5. Kept(cli[c], n)'
      BY <1>1, <2>1, <2>6 DEF Kept
    <3>6. Creating(cli[c], n)' /\ Restoring(cli[c], n)'
      BY <1>1, <1>5, <2>1, <2>3, <3>1 DEF Creating, Restoring
    <3> QED
      BY <3>3, <3>4, <3>5, <3>6 DEF Right
  <2> QED
    BY <1>1, <1>2, <1>4, <2>1, <2>2, <2>5, <2>7, Treated
<1>6. CASE End(c) /\ n \in murky' /\ UNCHANGED <<container, volume>>
  BY <1>1, <1>2, <1>3, <1>6, Failed
<1> QED
  BY <1>2, <1>5, <1>6 DEF CreateContainer, Murky

(* CopyData keeps the invariant.                                           *)
LEMMA CopyDataTreats ==
    ASSUME IInv, NEW c \in Clis, CopyData(c)
    PROVE  IInv'
<1> SUFFICES ASSUME murky' # Names PROVE IInv'
  BY CopyDataTyped, AllMurky DEF IInv
<1>1. /\ Typed' /\ cli[c].pc = "cp" /\ cli[c].n \in Names /\ murky \subseteq murky'
      /\ UNCHANGED <<registry, tmp, archive, root, container, told, good, swaps>>
      /\ cli[c].op = "restore" /\ archive # None
  BY CopyDataTyped, Places DEF CopyData, Murky, IInv, Typed
<1>2. PICK n \in Names : n = cli[c].n
  BY <1>1
<1>3. murky # Names
  BY <1>1 DEF IInv, Typed, RestTyped
<1>4. /\ PortsApart' /\ WrittenFor(cli[c])
      /\ n \notin murky' => Right(cli[c], n)
  BY <1>1, <1>2, <1>3, AtWork, PortsApartSame
<1>5. CASE /\ volume[n] # None
           /\ Goto(c, "up") \/ End(c)
           /\ volume' = [volume EXCEPT ![n] = Restored(volume[n])]
           /\ kept' = kept \ {n}
  <2>1. /\ \A d \in Clis \ {c} : cli'[d] = cli[d]
        /\ \/ cli'[c].pc = "up" /\ cli'[c].op = "restore" /\ cli'[c].n = n
           \/ cli'[c] = Idle
    BY <1>1, <1>2, <1>5, GotoFacts, EndFacts DEF IInv, Typed
  <2>2. WrittenFor(cli[c])'
    BY <2>1, IdleIsWork DEF WrittenFor
  <2>3. /\ volume'[n] = Restored(volume[n]) /\ n \notin kept'
        /\ \A m \in Names \ {n} : volume'[m] = volume[m] /\ (m \in kept' <=> m \in kept)
    BY <1>5 DEF IInv, Typed, StoreTyped
  <2>4. Elsewhere(n)
    BY <1>1, <2>3 DEF Elsewhere
  <2>5. ASSUME n \notin murky', NEW w, w.op \in {"none", "restore"}, w.pc \in {"idle", "up"}
        PROVE  Right(w, n)'
    <3>1. /\ Right(cli[c], n) /\ registry[n] # None /\ container[n] # None /\ ~Running(n)
          /\ root[n] # None /\ told[n] = 0 /\ good[n] = None
          /\ root[n].secret = archive.dir.secret /\ volume[n].wal = "none"
      BY <1>1, <1>4, <1>5, <2>5 DEF Right, Sane, Restoring
    <3>2. /\ volume'[n].wal = "none" /\ volume'[n].secret = root[n].secret
          /\ volume'[n].key \in {0, root[n].secret}
          /\ volume'[n] = [archive.db EXCEPT !.wal = "none"]
      BY <1>1, <2>3, <3>1, RestoredIsVolume DEF IInv, Typed
    <3>3. Opens(n)' /\ ~Running(n)'
      BY <1>1, <3>1, <3>2 DEF Opens, Running
    <3>4. Sane(w, n)'
      BY <1>1, <2>5, <3>1, <3>2, <3>3 DEF Sane
    <3>5. Told(w, n)' /\ Named(w, n)'
      BY <1>1, <3>1 DEF Told, Named
    <3>6. Kept(w, n)' /\ Creating(w, n)'
      BY <2>3, <2>5 DEF Kept, Creating
    <3>7. Restoring(w, n)'
      BY <1>1, <2>5, <3>1, <3>2, <3>3 DEF Restoring
    <3> QED
      BY <3>4, <3>5, <3>6, <3>7 DEF Right
  <2>6. n \notin murky' => Right(Idle, n)'
    BY <2>5, IdleIsWork
  <2>7. ASSUME n \notin murky', cli'[c].pc = "up"
        PROVE  Right(cli[c], n)'
    <3>1. PICK w : w = cli'[c]
      OBVIOUS
    <3>2. Right(w, n)'
      BY <2>1, <2>5, <2>7, <3>1, IdleIsWork
    <3> QED
      BY <3>1, <3>2 DEF Right, Sane, Told, Named, Kept, Creating, Restoring
  <2> QED
    BY <1>1, <1>2, <1>4, <2>1, <2>2, <2>4, <2>6, <2>7, IdleIsWork, Treated
<1>6. CASE End(c) /\ n \in murky' /\ UNCHANGED <<volume, kept>>
  BY <1>1, <1>2, <1>3, <1>6, Failed
<1> QED
  BY <1>2, <1>5, <1>6 DEF CopyData, Murky

(***************************************************************************)
(* The invariant, and what follows from it                                 *)
(***************************************************************************)
LEMMA InitIInv == Init => IInv
<1> SUFFICES ASSUME Init PROVE IInv
  OBVIOUS
<1>1. Typed
  BY InitTyped
<1>2. \A c \in Clis : cli[c] = Idle
  BY DEF Init
<1>3. Alone
  BY <1>2, IdleIsWork DEF Alone
<1>4. Written
  <2>1. PortsApart
    BY DEF Init, PortsApart, Registered
  <2> QED
    BY <1>2, <2>1, IdleWritten DEF Written
<1>5. ASSUME NEW n \in Names
      PROVE  Right(Idle, n)
  <2>1. Sane(Idle, n)
    BY IdleIsWork DEF Init, Sane
  <2>2. Told(Idle, n) /\ Named(Idle, n) /\ Kept(Idle, n)
    BY IdleIsWork DEF Init, Told, Named, Kept
  <2>3. Creating(Idle, n) /\ Restoring(Idle, n)
    BY IdleIsWork DEF Creating, Restoring
  <2> QED
    BY <2>1, <2>2, <2>3 DEF Right
<1>6. NamesRight
  BY <1>2, <1>5 DEF NamesRight
<1> QED
  BY <1>1, <1>3, <1>4, <1>6 DEF IInv

(* A step that changes nothing keeps the invariant.                        *)
LEMMA NothingHappens ==
    ASSUME IInv, UNCHANGED vars
    PROVE  IInv'
<1>1. /\ UNCHANGED <<registry, tmp, root, volume, container, local, archive, cli>>
      /\ UNCHANGED <<runtime, choice, begun, faults, fresh, told, good, swaps, kept, murky>>
  BY DEF vars, files, machine, counters, ghosts
<1>2. Typed'
  <2>1. CliTyped'
    BY <1>1, Stays DEF IInv, Typed
  <2>2. StoreTyped'
    BY <1>1, StoreStays DEF IInv, Typed, Store
  <2>3. RestTyped'
    BY <1>1 DEF IInv, Typed, RestTyped
  <2> QED
    BY <2>1, <2>2, <2>3 DEF Typed
<1>3. Alone' /\ Written'
  BY <1>1, <1>2, AloneStays, WrittenStays DEF IInv
<1>4. \A n \in Names, c \in Clis : (Busy(c, n)' <=> Busy(c, n)) /\ (Right(cli[c], n) => Right(cli[c], n)')
  BY <1>1 DEF Busy, Right, Sane, Opens, Running, Told, Named, Kept, OwnVolume, Creating, Restoring
<1>5. \A n \in Names : Right(Idle, n) => Right(Idle, n)'
  BY <1>1 DEF Right, Sane, Opens, Running, Told, Named, Kept, OwnVolume, Creating, Restoring
<1>6. NamesRight'
  BY <1>1, <1>4, <1>5 DEF IInv, NamesRight
<1> QED
  BY <1>2, <1>3, <1>6 DEF IInv

(* Every step keeps the invariant.                                         *)
LEMMA Inductive == IInv /\ [Next]_vars => IInv'
<1> SUFFICES ASSUME IInv, Next PROVE IInv'
  BY NothingHappens
<1>1. CASE \E n \in Names :
        StartInstance(n) \/ StopInstance(n) \/ RestartInstance(n) \/ AppWorks(n) \/ Backup(n)
  BY <1>1, StartInstanceTreats, StopInstanceTreats, RestartInstanceTreats, AppWorksTreats, BackupTreats
<1>2. CASE \E c \in Clis, n \in Names, ref \in Refs, src \in Optional(Names) :
              CreateBegin(c, n, ref, src)
  BY <1>2, CreateBeginTreats
<1>3. CASE \E c \in Clis, n \in Names, ref \in Refs : UpdateBegin(c, n, ref)
  BY <1>3, UpdateBeginTreats
<1>4. CASE \E c \in Clis, n \in Names : RollbackBegin(c, n) \/ RestoreBegin(c, n)
  BY <1>4, RollbackBeginTreats, RestoreBeginTreats
<1>5. CASE \E c \in Clis, n \in Names, keep \in BOOLEAN, rmi \in BOOLEAN :
              RemoveBegin(c, n, keep, rmi) \/ UninstallNext(c, n, keep, rmi)
  BY <1>5, RemoveBeginTreats, UninstallNextTreats
<1>6. CASE \E c \in Clis : CreateLeftover(c) \/ CreateFiles(c) \/ AddLoad(c) \/ AddPut(c)
  BY <1>6, CreateLeftoverTreats, CreateFilesTreats, AddLoadTreats, AddPutTreats
<1>7. CASE \E c \in Clis : UpOk(c) \/ UpFails(c) \/ Import(c)
  BY <1>7, UpOkTreats, UpFailsTreats, ImportTreats
<1>8. CASE \E c \in Clis : Pull(c) \/ StopForUpdate(c) \/ SetPrevious(c) \/ SwapImage(c)
  BY <1>8, PullTreats, StopForUpdateTreats, SetPreviousTreats, SwapImageTreats
<1>9. CASE \E c \in Clis : Down(c) \/ Unregister(c) \/ UnregisterPut(c) \/ Sweep(c) \/ Rmis(c)
  BY <1>9, DownTreats, UnregisterTreats, UnregisterPutTreats, SweepTreats, RmiTreats
<1>10. CASE \E c \in Clis : RemovalEnds(c) \/ UninstallBegin(c) \/ UninstallEnds(c)
  BY <1>10, RemovalEndsTreats, UninstallBeginTreats, UninstallEndsTreats
<1>11. CASE \E c \in Clis : Extract(c) \/ Adjust(c) \/ CreateContainer(c) \/ CopyData(c)
  BY <1>11, ExtractTreats, AdjustTreats, CreateContainerTreats, CopyDataTreats
<1>12. CASE \E c \in Clis : Interrupt(c)
  BY <1>12, InterruptTreats
<1> QED
  BY <1>1, <1>2, <1>3, <1>4, <1>5, <1>6, <1>7, <1>8, <1>9, <1>10, <1>11, <1>12 DEF Next, Rmis

(* The invariant always holds.                                             *)
LEMMA Invariant == Spec => []IInv
  BY InitIInv, Inductive, PTL DEF Spec

(* What holds of a sound name wherever the command at work on it is.       *)
LEMMA SoundMeans ==
    ASSUME IInv, NEW n \in Names \ murky
    PROVE  /\ container[n] # None => registry[n] # None /\ root[n] # None
           /\ Running(n) => Opens(n)
           /\ told[n] # 0 /\ volume[n] # None => volume[n].secret = told[n]
           /\ good[n] # None /\ root[n] # None /\ swaps[n] <= 1
                => good[n] \in {root[n].image, root[n].previous}
           /\ n \in kept /\ OwnVolume(n) => volume[n] # None
<1>1. swaps[n] \in Nat
  BY DEF IInv, Typed, RestTyped
<1>2. ASSUME NEW w, Right(w, n), w.pc = "cp" => w.op = "restore"
      PROVE  /\ container[n] # None => registry[n] # None /\ root[n] # None
             /\ Running(n) => Opens(n)
             /\ told[n] # 0 /\ volume[n] # None => volume[n].secret = told[n]
             /\ good[n] # None /\ root[n] # None /\ swaps[n] <= 1
                  => good[n] \in {root[n].image, root[n].previous}
             /\ n \in kept /\ OwnVolume(n) => volume[n] # None
  <2>1. container[n] # None => registry[n] # None /\ root[n] # None
    BY <1>2 DEF Right, Sane
  <2>2. Running(n) => Opens(n)
    BY <1>2 DEF Right, Sane, Restoring, Running
  <2>3. good[n] # None /\ root[n] # None /\ swaps[n] <= 1
          => good[n] \in {root[n].image, root[n].previous}
    <3>1. swaps[n] <= 1 => swaps[n] \in {0, 1}
      BY <1>1
    <3> QED
      BY <1>2, <3>1 DEF Right, Named
  <2> QED
    BY <1>2, <2>1, <2>2, <2>3 DEF Right, Told, Kept
<1>3. CASE \E c \in Clis : Busy(c, n)
  <2>1. PICK c \in Clis : Busy(c, n)
    BY <1>3
  <2>2. Right(cli[c], n) /\ (cli[c].pc = "cp" => cli[c].op = "restore")
    BY <2>1, Places DEF IInv, NamesRight, Typed
  <2>3. PICK w : w = cli[c]
    OBVIOUS
  <2> QED
    BY <1>2, <2>2, <2>3
<1>4. CASE \A c \in Clis : ~Busy(c, n)
  <2>1. Right(Idle, n) /\ (Idle.pc = "cp" => Idle.op = "restore")
    BY <1>4, IdleIsWork DEF IInv, NamesRight
  <2> QED
    BY <1>2, <2>1
<1> QED
  BY <1>3, <1>4

(* The password create printed works as long as the database lives, a      *)
(* running instance reads its own keys, after a restore, an update or an   *)
(* import as well, and data the operator kept stays.                       *)
THEOREM DataIsKept == Spec => []DataKept
<1>1. ASSUME IInv
      PROVE  DataKept
  <2>1. ToldPasswordWorks
    BY <1>1, SoundMeans DEF ToldPasswordWorks, Sound
  <2>2. KeysReadable
    <3> SUFFICES ASSUME NEW n \in Names, Sound(n), Running(n)
                 PROVE  /\ root[n] # None /\ volume[n] # None
                        /\ volume[n].secret = root[n].secret
                        /\ volume[n].key \in {0, root[n].secret}
      BY DEF KeysReadable
    <3>1. container[n] # None /\ Opens(n) /\ root[n] # None
      BY <1>1, SoundMeans DEF Sound, Running
    <3>2. volume[n] # None
      BY <1>1, <3>1 DEF IInv, Typed, StoreTyped, HasVolume
    <3> QED
      BY <3>1, <3>2 DEF Opens
  <2>3. KeptDataStays
    <3>1. kept \subseteq Names
      BY <1>1 DEF IInv, Typed, RestTyped
    <3> QED
      BY <1>1, <3>1, SoundMeans DEF KeptDataStays, Sound, OwnVolume
  <2> QED
    BY <2>1, <2>2, <2>3 DEF DataKept
<1> QED
  BY <1>1, Invariant, PTL

(* After one update that did not come up, the image that worked is still   *)
(* named in the directory: PREVIOUS_IMAGE is written before the compose    *)
(* file is.                                                                *)
THEOREM GoodImageIsKept == Spec => []GoodImageKept
<1>1. ASSUME IInv
      PROVE  GoodImageKept
  BY <1>1, SoundMeans DEF GoodImageKept, Sound
<1> QED
  BY <1>1, Invariant, PTL

(***************************************************************************)
(* What a step may not lose                                                *)
(***************************************************************************)
(* A step of the terminal d that takes no image and no runtime away.       *)
Others(d) == \A c \in Clis \ {d} : cli'[c] = cli[c]
Harmless(d) ==
    /\ Others(d) /\ local \subseteq local'
    /\ runtime' = "missing" => runtime = "missing"

(* What runs beside the terminals takes no image and no runtime away.      *)
LEMMA StepsOfNames ==
    ASSUME NEW n \in Names,
           StartInstance(n) \/ StopInstance(n) \/ RestartInstance(n) \/ AppWorks(n) \/ Backup(n)
    PROVE  UNCHANGED <<cli, local, runtime>>
  BY DEF StartInstance, StopInstance, RestartInstance, AppWorks, Backup, machine

(* A command that begins moves no other terminal.                          *)
LEMMA BeginOthers ==
    ASSUME Typed, NEW d \in Clis, NEW v, Begin(d, v)
    PROVE  Others(d)
  BY DEF Begin, Others, Typed, CliTyped

(* A command that goes on or ends moves no other terminal.                 *)
LEMMA StepOthers ==
    ASSUME Typed, NEW d \in Clis, (\E p : Goto(d, p)) \/ End(d)
    PROVE  Others(d)
  BY GotoFacts, EndFacts DEF Others, Typed

(* No command takes an image or the runtime away when it begins.           *)
LEMMA BeginsHarmless ==
    ASSUME Typed, NEW d \in Clis,
           \/ \E n \in Names, ref \in Refs, src \in Optional(Names) : CreateBegin(d, n, ref, src)
           \/ \E n \in Names, ref \in Refs : UpdateBegin(d, n, ref)
           \/ \E n \in Names : RollbackBegin(d, n) \/ RestoreBegin(d, n)
           \/ \E n \in Names, keep \in BOOLEAN, rmi \in BOOLEAN :
                 RemoveBegin(d, n, keep, rmi) \/ UninstallNext(d, n, keep, rmi)
           \/ UninstallBegin(d)
    PROVE  Harmless(d)
<1>1. ASSUME NEW n \in Names, NEW ref \in Refs, NEW src \in Optional(Names), CreateBegin(d, n, ref, src)
      PROVE  Harmless(d)
  <2>1. UNCHANGED local /\ \E v : Begin(d, v)
    BY <1>1 DEF CreateBegin
  <2>2. EnsureRuntime(TRUE) \/ EnsureRuntime(FALSE)
    BY <1>1 DEF CreateBegin
  <2>3. runtime' = "missing" => runtime = "missing"
    BY <2>2, RuntimeTyped DEF Typed
  <2> QED
    BY <2>1, <2>3, BeginOthers DEF Harmless
<1>2. ASSUME NEW n \in Names, NEW keep \in BOOLEAN, NEW rmi \in BOOLEAN, UninstallNext(d, n, keep, rmi)
      PROVE  Harmless(d)
  <2>1. Others(d)
    BY <1>2, UninstallNextTyped, StepOthers DEF Others
  <2> QED
    BY <1>2, <2>1 DEF UninstallNext, Harmless, machine
<1>3. CASE \/ \E n \in Names, ref \in Refs : UpdateBegin(d, n, ref)
           \/ \E n \in Names : RollbackBegin(d, n) \/ RestoreBegin(d, n)
           \/ \E n \in Names, keep \in BOOLEAN, rmi \in BOOLEAN : RemoveBegin(d, n, keep, rmi)
           \/ UninstallBegin(d)
  <2>1. UNCHANGED <<local, runtime>> /\ \E v : Begin(d, v)
    BY <1>3 DEF UpdateBegin, RollbackBegin, RestoreBegin, RemoveBegin, UninstallBegin, machine
  <2> QED
    BY <2>1, BeginOthers DEF Harmless
<1> QED
  BY <1>1, <1>2, <1>3

(* The steps of `create` take no image and no runtime away.                *)
LEMMA CreateHarmless ==
    ASSUME Typed, NEW d \in Clis,
           CreateLeftover(d) \/ CreateFiles(d) \/ AddLoad(d) \/ AddPut(d) \/ Import(d)
    PROVE  Harmless(d)
<1>1. UNCHANGED <<local, runtime>>
  BY DEF CreateLeftover, CreateFiles, AddLoad, AddPut, Replace, Import, machine
<1>2. CASE CreateFiles(d)
  BY <1>1, <1>2, CreateFilesTyped DEF Harmless, Others
<1>3. CASE CreateLeftover(d) \/ AddLoad(d) \/ AddPut(d) \/ Import(d)
  <2>1. (\E p : Goto(d, p)) \/ End(d)
    BY <1>3 DEF CreateLeftover, AddLoad, AddPut, Replace, Import
  <2> QED
    BY <1>1, <2>1, StepOthers DEF Harmless
<1> QED
  BY <1>2, <1>3

(* The steps of `update` and `rollback` take no image and no runtime away. *)
LEMMA UpdateHarmless ==
    ASSUME Typed, NEW d \in Clis,
           \/ UpOk(d) \/ UpFails(d) \/ Interrupt(d)
           \/ Pull(d) \/ StopForUpdate(d) \/ SetPrevious(d) \/ SwapImage(d)
    PROVE  Harmless(d)
<1>1. UNCHANGED runtime /\ local \subseteq local'
  BY DEF UpOk, UpFails, Interrupt, Pull, StopForUpdate, SetPrevious, SwapImage, machine
<1>2. (\E p : Goto(d, p)) \/ End(d)
  BY DEF UpOk, UpFails, Interrupt, Pull, StopForUpdate, SetPrevious, SwapImage
<1> QED
  BY <1>1, <1>2, StepOthers DEF Harmless

(* The steps of a removal before its last ones, and those of `restore`,    *)
(* take no image and no runtime away.                                      *)
LEMMA RemoveHarmless ==
    ASSUME Typed, NEW d \in Clis,
           \/ Down(d) \/ Unregister(d) \/ UnregisterPut(d) \/ Sweep(d) \/ RemovalEnds(d)
           \/ Extract(d) \/ Adjust(d) \/ CreateContainer(d) \/ CopyData(d)
    PROVE  Harmless(d)
<1>1. CASE Adjust(d)
  <2>1. EnsureRuntime(TRUE) \/ EnsureRuntime(FALSE)
    BY <1>1 DEF Adjust
  <2>2. runtime' = "missing" => runtime = "missing"
    BY <2>1, RuntimeTyped DEF Typed
  <2>3. Others(d)
    BY <1>1, AdjustTyped, StepOthers DEF Others
  <2> QED
    BY <1>1, <2>2, <2>3 DEF Adjust, Harmless
<1>2. CASE \/ Down(d) \/ Unregister(d) \/ UnregisterPut(d) \/ Sweep(d) \/ RemovalEnds(d)
           \/ Extract(d) \/ CreateContainer(d) \/ CopyData(d)
  <2>1. UNCHANGED runtime /\ local \subseteq local'
    BY <1>2 DEF Down, Unregister, UnregisterPut, Replace, Sweep, RemovalEnds, Extract,
                CreateContainer, CopyData, machine
  <2>2. (\E p : Goto(d, p)) \/ End(d)
    BY <1>2 DEF Down, Unregister, UnregisterPut, Replace, Sweep, RemovalEnds, Extract,
                CreateContainer, CopyData
  <2> QED
    BY <2>1, <2>2, StepOthers DEF Harmless
<1> QED
  BY <1>1, <1>2

(* What a terminal may do.                                                 *)
Starts(d) ==
    \/ \E n \in Names, ref \in Refs, src \in Optional(Names) : CreateBegin(d, n, ref, src)
    \/ \E n \in Names, ref \in Refs : UpdateBegin(d, n, ref)
    \/ \E n \in Names : RollbackBegin(d, n) \/ RestoreBegin(d, n)
    \/ \E n \in Names, keep \in BOOLEAN, rmi \in BOOLEAN :
          RemoveBegin(d, n, keep, rmi) \/ UninstallNext(d, n, keep, rmi)
    \/ UninstallBegin(d)
Creates(d) == CreateLeftover(d) \/ CreateFiles(d) \/ AddLoad(d) \/ AddPut(d) \/ Import(d)
Updates(d) == Pull(d) \/ StopForUpdate(d) \/ SetPrevious(d) \/ SwapImage(d)
Comes(d) == UpOk(d) \/ UpFails(d) \/ Interrupt(d)
Removes(d) ==
    \/ Down(d) \/ Unregister(d) \/ UnregisterPut(d) \/ Sweep(d) \/ RemovalEnds(d)
    \/ Extract(d) \/ Adjust(d) \/ CreateContainer(d) \/ CopyData(d)

(* The steps, by who takes them.                                           *)
LEMMA NextIs ==
    ASSUME Next
    PROVE  \/ \E n \in Names : \/ StartInstance(n) \/ StopInstance(n) \/ RestartInstance(n)
                               \/ AppWorks(n) \/ Backup(n)
           \/ \E d \in Clis : \/ Starts(d) \/ Creates(d) \/ Updates(d) \/ Comes(d) \/ Removes(d)
                              \/ Rmis(d) \/ UninstallEnds(d)
  BY DEF Next, Starts, Creates, Updates, Comes, Removes, Rmis

(* Every step of a terminal but two takes no image and no runtime away.    *)
LEMMA StepIs ==
    ASSUME Typed, NEW d \in Clis,
           Starts(d) \/ Creates(d) \/ Updates(d) \/ Comes(d) \/ Removes(d)
    PROVE  Harmless(d)
  BY BeginsHarmless, CreateHarmless, UpdateHarmless, RemoveHarmless
     DEF Starts, Creates, Updates, Comes, Removes

(* Of the two that do, the one takes images only and the other the runtime *)
(* only.                                                                   *)
LEMMA TakesAway ==
    ASSUME Typed, NEW d \in Clis, Rmis(d) \/ UninstallEnds(d)
    PROVE  /\ Others(d)
           /\ Rmis(d) => UNCHANGED runtime
           /\ UninstallEnds(d) => UNCHANGED local
<1>1. CASE Rmis(d)
  <2>1. UNCHANGED runtime /\ (UninstallEnds(d) => UNCHANGED local)
    BY <1>1 DEF Rmis, Rmi, LookForUse, RemoveImage, UninstallEnds, machine
  <2> QED
    BY <1>1, <2>1, RmiTyped DEF Others
<1>2. CASE UninstallEnds(d) /\ ~Rmis(d)
  BY <1>2, StepOthers DEF UninstallEnds
<1> QED
  BY <1>1, <1>2

(* A terminal that brings a container up does nothing else.                *)
LEMMA BringsUp ==
    ASSUME NEW d \in Clis, cli[d].pc = "up",
           \/ Starts(d) \/ Creates(d) \/ Updates(d) \/ Comes(d) \/ Removes(d)
           \/ Rmis(d) \/ UninstallEnds(d)
    PROVE  Comes(d)
<1>1. ~Starts(d)
  BY DEF Starts, CreateBegin, UpdateBegin, RollbackBegin, RestoreBegin, RemoveBegin, UninstallNext,
         UninstallBegin, Begin
<1>2. ~Creates(d)
  BY DEF Creates, CreateLeftover, CreateFiles, AddLoad, AddPut, Import
<1>3. ~Updates(d)
  BY DEF Updates, Pull, StopForUpdate, SetPrevious, SwapImage
<1>4. ~Removes(d) /\ ~Rmis(d) /\ ~UninstallEnds(d)
  BY DEF Removes, Down, Unregister, UnregisterPut, Sweep, RemovalEnds, Extract, Adjust,
         CreateContainer, CopyData, Rmis, Rmi, LookForUse, RemoveImage, UninstallEnds
<1> QED
  BY <1>1, <1>2, <1>3, <1>4

(***************************************************************************)
(* Who uses an image that a removal is about to remove                     *)
(***************************************************************************)
(* While c reads the compose files, an instance whose file names the image *)
(* is still to be read or came to name it since.                           *)
LookOk(c) == cli[c].pc = "look" =>
    /\ cli[c].ref # None
    /\ \A n \in Names : ImageOf(n) = cli[c].ref => n \in cli[c].left \cup late[c]
LooksRight == LateTyped /\ \A c \in Clis : LookOk(c)

(* No name comes to name an image.                                         *)
SameImages == \A n \in Names : ImageOf(n)' \in {None, ImageOf(n)}

(* A step of d that begins no look, and lets no name go unwatched.         *)
Quiet(d) ==
    /\ cli'[d].pc # "look"
    /\ Watched \/ (UNCHANGED late /\ SameImages)

(* Names that come late are names.                                         *)
LEMMA WatchedTyped ==
    ASSUME LateTyped, Watched \/ UNCHANGED late
    PROVE  LateTyped'
<1>1. CASE UNCHANGED late
  BY <1>1 DEF LateTyped
<1>2. CASE Watched
  <2>1. ASSUME NEW c \in Clis
        PROVE  /\ late[c] \in SUBSET Names
               /\ late[c] \cup {n \in Names : ImageOf(n) # cli[c].ref /\ ImageOf(n)' = cli[c].ref}
                    \in SUBSET Names
    BY DEF LateTyped
  <2> QED
    BY <1>2, <2>1 DEF Watched, LateTyped
<1> QED
  BY <1>1, <1>2

(* A terminal that looks goes on knowing who is late while others move.    *)
LEMMA LookStays ==
    ASSUME Typed, LooksRight, NEW c \in Clis, cli'[c] = cli[c],
           Watched \/ (late'[c] = late[c] /\ SameImages)
    PROVE  LookOk(c)'
<1> SUFFICES ASSUME cli[c].pc = "look", NEW n \in Names, ImageOf(n)' = cli[c].ref
             PROVE  n \in cli[c].left \cup late'[c]
  BY DEF LookOk, LooksRight
<1>1. cli[c].ref # None /\ (ImageOf(n) = cli[c].ref => n \in cli[c].left \cup late[c])
  BY DEF LooksRight, LookOk
<1>2. CASE late'[c] = late[c] /\ SameImages
  BY <1>1, <1>2 DEF SameImages
<1>3. CASE Watched
  <2>1. late'[c] = late[c] \cup {m \in Names : ImageOf(m) # cli[c].ref /\ ImageOf(m)' = cli[c].ref}
    BY <1>3 DEF Watched
  <2> QED
    BY <1>1, <2>1
<1> QED
  BY <1>2, <1>3

(* The directories and the registry as they were name no new image.        *)
LEMMA ImagesStay ==
    ASSUME UNCHANGED <<registry, root>>
    PROVE  SameImages
  BY DEF SameImages, ImageOf

(* A quiet step keeps what is known of the looks.                          *)
LEMMA QuietStep ==
    ASSUME Typed, LooksRight, NEW d \in Clis, Others(d), Quiet(d)
    PROVE  LooksRight'
<1>1. ASSUME NEW c \in Clis, c # d
      PROVE  LookOk(c)'
  BY <1>1, LookStays DEF Quiet, Others
<1>2. LookOk(d)'
  BY DEF Quiet, LookOk
<1>3. LateTyped'
  BY WatchedTyped DEF Quiet, LooksRight
<1> QED
  BY <1>1, <1>2, <1>3 DEF LooksRight

(* A command that begins is quiet.                                         *)
LEMMA StartsQuiet ==
    ASSUME Typed, NEW d \in Clis, Starts(d)
    PROVE  Quiet(d)
<1>1. UNCHANGED <<registry, root, late>>
  BY DEF Starts, CreateBegin, UpdateBegin, RollbackBegin, RestoreBegin, RemoveBegin, UninstallNext,
         UninstallBegin, files
<1>2. cli'[d].pc # "look"
  <2>1. ASSUME NEW v, Begin(d, v), v.pc # "look"
        PROVE  cli'[d].pc # "look"
    BY <2>1 DEF Begin, Typed, CliTyped
  <2>2. ASSUME NEW n \in Names, NEW ref \in Refs, NEW src \in Optional(Names), CreateBegin(d, n, ref, src)
        PROVE  cli'[d].pc # "look"
    BY <2>1, <2>2 DEF CreateBegin, Idle
  <2>3. ASSUME NEW n \in Names, NEW ref \in Refs, UpdateBegin(d, n, ref)
        PROVE  cli'[d].pc # "look"
    BY <2>1, <2>3 DEF UpdateBegin, Idle
  <2>4. ASSUME NEW n \in Names, RollbackBegin(d, n)
        PROVE  cli'[d].pc # "look"
    BY <2>1, <2>4 DEF RollbackBegin, Idle
  <2>5. ASSUME NEW n \in Names, RestoreBegin(d, n)
        PROVE  cli'[d].pc # "look"
    BY <2>1, <2>5 DEF RestoreBegin, Idle
  <2>6. ASSUME NEW n \in Names, NEW keep \in BOOLEAN, NEW rmi \in BOOLEAN, RemoveBegin(d, n, keep, rmi)
        PROVE  cli'[d].pc # "look"
    BY <2>1, <2>6 DEF RemoveBegin, Removal, Idle
  <2>7. ASSUME NEW n \in Names, NEW keep \in BOOLEAN, NEW rmi \in BOOLEAN,
               UninstallNext(d, n, keep, rmi)
        PROVE  cli'[d].pc # "look"
    BY <2>7, UninstallNextTyped, EndFacts, IdleIsWork DEF Typed
  <2>8. CASE UninstallBegin(d)
    BY <2>1, <2>8 DEF UninstallBegin, Idle
  <2> QED
    BY <2>2, <2>3, <2>4, <2>5, <2>6, <2>7, <2>8 DEF Starts
<1> QED
  BY <1>1, <1>2, ImagesStay DEF Quiet

(* A step to another place but the look, or to the end, begins no look.    *)
LEMMA NoLook ==
    ASSUME Typed, NEW d \in Clis, (\E p : p # "look" /\ Goto(d, p)) \/ End(d)
    PROVE  cli'[d].pc # "look"
  BY GotoFacts, EndFacts, IdleIsWork DEF Typed

(* The steps of `create` are quiet.                                        *)
LEMMA CreatesQuiet ==
    ASSUME Typed, NEW d \in Clis, Creates(d)
    PROVE  Quiet(d)
<1>1. CASE CreateFiles(d)
  <2>1. Watched /\ cli'[d].pc = "add"
    BY <1>1, CreateFilesTyped DEF CreateFiles
  <2> QED
    BY <2>1 DEF Quiet
<1>2. CASE AddPut(d)
  <2>1. Watched /\ ((\E p : p # "look" /\ Goto(d, p)) \/ End(d))
    BY <1>2 DEF AddPut, Replace
  <2> QED
    BY <2>1, NoLook DEF Quiet
<1>3. CASE CreateLeftover(d) \/ AddLoad(d) \/ Import(d)
  <2>1. /\ UNCHANGED <<registry, root, late>>
        /\ (\E p : p # "look" /\ Goto(d, p)) \/ End(d)
    BY <1>3 DEF CreateLeftover, AddLoad, Import, files
  <2> QED
    BY <2>1, NoLook, ImagesStay DEF Quiet
<1> QED
  BY <1>1, <1>2, <1>3 DEF Creates

(* The steps of `update` and `rollback` are quiet.                         *)
LEMMA UpdatesQuiet ==
    ASSUME Typed, NEW d \in Clis, Updates(d)
    PROVE  Quiet(d)
<1>1. cli'[d].pc # "look"
  <2>1. (\E p : p # "look" /\ Goto(d, p)) \/ End(d)
    BY DEF Updates, Pull, StopForUpdate, SetPrevious, SwapImage
  <2> QED
    BY <2>1, NoLook
<1>2. CASE SwapImage(d)
  BY <1>1, <1>2 DEF SwapImage, Quiet
<1>3. CASE Pull(d) \/ StopForUpdate(d)
  <2>1. UNCHANGED <<registry, root, late>>
    BY <1>3 DEF Pull, StopForUpdate, files
  <2> QED
    BY <1>1, <2>1, ImagesStay DEF Quiet
<1>4. CASE SetPrevious(d)
  <2>1. UNCHANGED <<registry, late>>
    BY <1>4 DEF SetPrevious
  <2>2. CASE UNCHANGED root
    BY <1>1, <2>1, <2>2, ImagesStay DEF Quiet
  <2>3. CASE root[cli[d].n] # None /\ RecordPrevious(d)
    <3>1. PICK n \in Names : n = cli[d].n
      BY <1>4, Places DEF SetPrevious, Typed
    <3>2. root' = [root EXCEPT ![n].previous = root[n].image] /\ root[n] # None
      BY <2>3, <3>1 DEF RecordPrevious
    <3>3. root[n] \in Directory
      BY <3>2, DirectoryFacts DEF Typed
    <3>4. root'[n].image = root[n].image /\ \A m \in Names \ {n} : root'[m] = root[m]
      BY <3>2, <3>3 DEF Directory, Typed, StoreTyped
    <3>5. SameImages
      BY <2>1, <3>2, <3>4 DEF SameImages, ImageOf
    <3> QED
      BY <1>1, <2>1, <3>5 DEF Quiet
  <2> QED
    BY <1>4, <2>2, <2>3 DEF SetPrevious
<1> QED
  BY <1>2, <1>3, <1>4 DEF Updates

(* Bringing a container up is quiet, and so is an interruption.            *)
LEMMA ComesQuiet ==
    ASSUME Typed, NEW d \in Clis, Comes(d)
    PROVE  Quiet(d)
<1>1. UNCHANGED <<registry, root, late>> /\ ((\E p : p # "look" /\ Goto(d, p)) \/ End(d))
  BY DEF Comes, UpOk, UpFails, Interrupt, files
<1> QED
  BY <1>1, NoLook, ImagesStay DEF Quiet

(* The steps of a removal before its last ones, and those of `restore`,    *)
(* are quiet.                                                              *)
LEMMA RemovesQuiet ==
    ASSUME Typed, NEW d \in Clis, Removes(d)
    PROVE  Quiet(d)
<1>1. CASE Adjust(d)
  <2>1. cli'[d].pc # "look"
    BY <1>1, AdjustTyped, EndFacts, IdleIsWork DEF Typed
  <2>2. UNCHANGED <<registry, late>>
    BY <1>1 DEF Adjust
  <2>3. CASE UNCHANGED root
    BY <2>1, <2>2, <2>3, ImagesStay DEF Quiet
  <2>4. CASE root' # root
    <3>1. PICK n \in Names : n = cli[d].n
      BY <1>1, Places DEF Adjust, Typed
    <3>2. root[n] \in Directory /\ root[n] # None
      BY <1>1, <3>1, DirectoryFacts DEF Adjust, Typed
    <3>3. /\ \A m \in Names \ {n} : root'[m] = root[m]
      BY <1>1, <2>4, <3>1, AdjustTyped
    <3>4. PICK p, q : root' = [root EXCEPT ![n].port = p, ![n].previous = q]
      <4>1. root' = [root EXCEPT ![n].port = NewPort(d),
                  ![n].previous = IF Moved(d) \/ n # archive.n THEN None ELSE @]
        BY <1>1, <2>4, <3>1 DEF Adjust, NewPort, Moved
      <4>2. root' = [root EXCEPT ![n].port = NewPort(d), ![n].previous =
                        IF Moved(d) \/ n # archive.n THEN None ELSE root[n].previous]
        BY <3>2, <4>1 DEF Typed, StoreTyped, Directory
      <4> QED
        BY <4>2
    <3>5. root'[n].image = root[n].image
      BY <3>2, <3>4 DEF Typed, StoreTyped, Directory
    <3>6. SameImages
      BY <2>2, <3>2, <3>3, <3>5 DEF SameImages, ImageOf
    <3> QED
      BY <2>1, <2>2, <3>6 DEF Quiet
  <2> QED
    BY <2>3, <2>4
<1>2. CASE Sweep(d)
  <2>1. UNCHANGED <<registry, late>> /\ \E p : p # "look" /\ Goto(d, p)
    BY <1>2 DEF Sweep, AfterSweep
  <2>2. \A m \in Names : root'[m] = None \/ root'[m] = root[m]
    BY <1>2 DEF Sweep, Typed, StoreTyped
  <2>3. SameImages
    BY <2>1, <2>2 DEF SameImages, ImageOf
  <2> QED
    BY <2>1, <2>3, NoLook DEF Quiet
<1>3. CASE UnregisterPut(d) \/ Extract(d)
  <2>1. Watched /\ ((\E p : p # "look" /\ Goto(d, p)) \/ End(d))
    BY <1>3 DEF UnregisterPut, Replace, Extract
  <2> QED
    BY <2>1, NoLook DEF Quiet
<1>4. CASE Down(d) \/ Unregister(d) \/ RemovalEnds(d) \/ CreateContainer(d) \/ CopyData(d)
  <2>1. /\ UNCHANGED <<registry, root, late>>
        /\ (\E p : p # "look" /\ Goto(d, p)) \/ End(d)
    BY <1>4 DEF Down, Unregister, RemovalEnds, CreateContainer, CopyData, files
  <2> QED
    BY <2>1, NoLook, ImagesStay DEF Quiet
<1> QED
  BY <1>1, <1>2, <1>3, <1>4 DEF Removes

(* The end of an uninstallation is quiet.                                  *)
LEMMA UninstallEndsQuiet ==
    ASSUME Typed, NEW d \in Clis, UninstallEnds(d)
    PROVE  Quiet(d)
<1>1. UNCHANGED late /\ End(d) /\ \A n \in Names : registry'[n] = None
  BY DEF UninstallEnds
<1> QED
  BY <1>1, NoLook DEF Quiet, SameImages, ImageOf

(* The last steps of a removal keep what is known of the looks.            *)
LEMMA RmiLooks ==
    ASSUME Typed, LooksRight, NEW d \in Clis, Rmis(d)
    PROVE  LooksRight'
<1>1. /\ UNCHANGED <<registry, root>> /\ SameImages /\ Others(d)
      /\ cli[d] \in WorkSet /\ cli[d].left \in SUBSET Names
  BY RmiTyped, ImagesStay, Places DEF Rmis, Rmi, LookForUse, RemoveImage, files, Others, Typed, WorkSet
<1>2. LateTyped' /\ \A c \in Clis \ {d} : late'[c] = late[c]
  BY DEF Rmis, Rmi, LookForUse, RemoveImage, LooksRight, LateTyped
<1>3. ASSUME NEW c \in Clis, c # d
      PROVE  LookOk(c)'
  BY <1>1, <1>2, <1>3, LookStays DEF Others
<1>4. LookOk(d)'
  <2>1. CASE Rmi(d)
    <3>1. CASE cli[d].ref = None
      BY <2>1, <3>1, NoLook DEF Rmi, LookOk
    <3>2. CASE cli[d].ref # None
      <4>1. cli' = [cli EXCEPT ![d].pc = "look", ![d].left = Registered]
        BY <2>1, <3>2 DEF Rmi
      <4>2. Registered \in SUBSET Names /\ cli[d].pc = "rmi" /\ archive' = archive
        BY <2>1 DEF Registered, Rmi
      <4>3. cli'[d].left = Registered /\ cli'[d].ref = cli[d].ref
        BY <4>1, <4>2, LookGoes
      <4> QED
        BY <1>1, <3>2, <4>3 DEF LookOk, ImageOf, Registered
    <3> QED
      BY <3>1, <3>2
  <2>2. ASSUME NEW m \in Names, LookForUse(d, m)
        PROVE  LookOk(d)'
    <3>1. CASE m \notin Users(cli[d].ref) /\ cli' = [cli EXCEPT ![d].left = @ \ {m}]
      <4>1. cli'[d].left = cli[d].left \ {m} /\ cli'[d].ref = cli[d].ref
        BY <1>1, <3>1 DEF WorkSet, Typed, CliTyped
      <4>2. root[m] # None /\ root[m].image # cli[d].ref
        BY <3>1 DEF Users
      <4>3. cli[d].ref # None
            /\ \A n \in Names : ImageOf(n) = cli[d].ref => n \in cli[d].left \cup late[d]
        BY <2>2 DEF LookForUse, LooksRight, LookOk
      <4>4. ImageOf(m) # cli[d].ref
        BY <4>2, <4>3 DEF ImageOf
      <4>5. late' = late /\ \A n \in Names : ImageOf(n)' = ImageOf(n)
        BY <1>1, <2>2 DEF LookForUse, ImageOf
      <4> QED
        BY <4>1, <4>3, <4>4, <4>5 DEF LookOk
    <3>2. CASE cli' = [cli EXCEPT ![d].pc = "next", ![d].left = {}]
      <4>1. cli'[d].pc = "next"
        BY <1>1, <3>2 DEF WorkSet, Typed, CliTyped
      <4> QED
        BY <4>1 DEF LookOk
    <3> QED
      BY <2>2, <3>1, <3>2 DEF LookForUse
  <2>3. CASE RemoveImage(d)
    BY <2>3, NoLook DEF RemoveImage, LookOk
  <2> QED
    BY <2>1, <2>2, <2>3 DEF Rmis
<1> QED
  BY <1>2, <1>3, <1>4 DEF LooksRight

(* Every step keeps what is known of the looks.                            *)
LEMMA LooksFollow ==
    ASSUME Typed, LooksRight, Next
    PROVE  LooksRight'
<1>1. CASE \E n \in Names : \/ StartInstance(n) \/ StopInstance(n) \/ RestartInstance(n)
                            \/ AppWorks(n) \/ Backup(n)
  <2>1. UNCHANGED <<registry, root, late, cli>>
    BY <1>1 DEF StartInstance, StopInstance, RestartInstance, AppWorks, Backup, files
  <2> QED
    BY <2>1, ImagesStay, LookStays, WatchedTyped DEF LooksRight
<1>2. ASSUME NEW d \in Clis, Starts(d) \/ Creates(d) \/ Updates(d) \/ Comes(d) \/ Removes(d)
      PROVE  LooksRight'
  <2>1. Others(d)
    BY <1>2, StepIs DEF Harmless
  <2>2. Quiet(d)
    BY <1>2, StartsQuiet, CreatesQuiet, UpdatesQuiet, ComesQuiet, RemovesQuiet
  <2> QED
    BY <2>1, <2>2, QuietStep
<1>3. ASSUME NEW d \in Clis, UninstallEnds(d)
      PROVE  LooksRight'
  BY <1>3, TakesAway, UninstallEndsQuiet, QuietStep
<1> QED
  BY <1>1, <1>2, <1>3, RmiLooks, NextIs

(* What is known of the looks always holds.                                *)
LEMMA LooksStay == Spec => []LooksRight
<1>1. Init => LooksRight
  BY IdleIsWork DEF Init, LooksRight, LateTyped, LookOk
<1>2. IInv /\ LooksRight /\ [Next]_vars => LooksRight'
  <2>1. ASSUME LooksRight, UNCHANGED vars
        PROVE  LooksRight'
    BY <2>1 DEF vars, files, LooksRight, LateTyped, LookOk, ImageOf
  <2> QED
    BY <2>1, LooksFollow DEF IInv
<1> QED
  BY <1>1, <1>2, Invariant, PTL DEF Spec

(* The registry, the containers and the ports agree: no two local          *)
(* instances get the same port from allocate_port_pair() and               *)
(* add_instance(), and nothing runs that instances.json does not name, of  *)
(* the names no fault, interruption or other command touched.              *)
THEOREM RegistryIsTrue == Spec => []RegistryTrue
<1>1. ASSUME IInv, LooksRight
      PROVE  RegistryTrue
  <2>1. TypeOK
    BY <1>1, TypedIsTypeOK DEF IInv, LooksRight
  <2>2. LocalPortsApart
    <3> SUFFICES ASSUME NEW n \in Registered, NEW m \in Registered, n # m, Sound(n), Sound(m)
                 PROVE  \/ registry[n].mode = "network" \/ registry[m].mode = "network"
                        \/ registry[n].port # registry[m].port
      BY DEF LocalPortsApart
    <3>1. murky # Names
      BY DEF Sound, Registered
    <3> QED
      BY <1>1, <3>1 DEF IInv, Written, PortsApart
  <2>3. NoOrphans
    BY <1>1, SoundMeans DEF NoOrphans, Sound, Running, Registered
  <2> QED
    BY <2>1, <2>2, <2>3 DEF RegistryTrue
<1> QED
  BY <1>1, Invariant, LooksStay, PTL

(* The bodies of the three action properties.                              *)
ImageKept == \A c \in Clis : cli'[c] # cli[c] => ImageKeptFrom(c)
RuntimeKept == runtime # "missing" /\ runtime' = "missing" => runtime = "ours"
GivesBack(c) ==
    /\ cli[c].op = "restore" /\ cli[c].pc = "up" /\ cli'[c].pc = "idle"
    /\ cli[c].n \notin murky' /\ container'[cli[c].n].status = "running"
    => volume'[cli[c].n] = [archive.db EXCEPT !.wal = "none"]

(* No step removes an image that a registered instance's directory names,  *)
(* unless it came to name it while the removal looked, or a runtime that   *)
(* is not the CLI's own.                                                   *)
LEMMA StepKeeps ==
    ASSUME Typed, LooksRight, Next
    PROVE  ImageKept /\ RuntimeKept
<1>1. CASE UNCHANGED <<cli, local, runtime>> \/ \E d \in Clis : Harmless(d)
  BY <1>1 DEF ImageKept, ImageKeptFrom, RuntimeKept, Harmless
<1>2. ASSUME NEW d \in Clis, UNCHANGED runtime, Rmis(d)
      PROVE  ImageKept /\ RuntimeKept
  <2>1. CASE RemoveImage(d)
    <3>1. local \ local' \subseteq {cli[d].ref} /\ cli[d].pc = "look" /\ cli[d].left = {}
      BY <2>1 DEF RemoveImage
    <3>2. \A n \in Names : ImageOf(n) = cli[d].ref => n \in late[d]
      BY <3>1 DEF LooksRight, LookOk
    <3>3. \A c \in Clis : cli'[c] # cli[c] => c = d
      BY <1>2, RmiTyped
    <3> QED
      BY <1>2, <3>1, <3>2, <3>3 DEF ImageKept, ImageKeptFrom, RuntimeKept
  <2>2. CASE Rmi(d) \/ \E m \in Names : LookForUse(d, m)
    BY <1>2, <2>2 DEF Rmi, LookForUse, ImageKept, ImageKeptFrom, RuntimeKept
  <2> QED
    BY <1>2, <2>1, <2>2 DEF Rmis
<1>3. ASSUME NEW d \in Clis, UNCHANGED local, UninstallEnds(d)
      PROVE  ImageKept /\ RuntimeKept
  BY <1>3 DEF UninstallEnds, RuntimeIsOurs, Typed, RestTyped, ImageKept, ImageKeptFrom, RuntimeKept
<1> QED
  BY <1>1, <1>2, <1>3, NextIs, StepsOfNames, StepIs, TakesAway

(* A restore that ends well has given back the database of the archive.    *)
LEMMA StepGivesBack ==
    ASSUME IInv, Next, NEW c \in Clis
    PROVE  GivesBack(c)
<1> SUFFICES ASSUME cli[c].op = "restore", cli[c].pc = "up", cli'[c].pc = "idle",
                    cli[c].n \notin murky', container'[cli[c].n].status = "running"
             PROVE  volume'[cli[c].n] = [archive.db EXCEPT !.wal = "none"]
  BY DEF GivesBack
<1>1. PICK n \in Names : n = cli[c].n
  BY Places DEF IInv, Typed
<1>2. UpOk(c) \/ UpFails(c) \/ Interrupt(c)
  <2>1. cli'[c] # cli[c]
    OBVIOUS
  <2>2. PICK d \in Clis : \/ Starts(d) \/ Creates(d) \/ Updates(d) \/ Comes(d) \/ Removes(d)
                          \/ Rmis(d) \/ UninstallEnds(d)
    BY <2>1, NextIs, StepsOfNames
  <2>3. Others(d)
    BY <2>2, StepIs, TakesAway DEF Harmless, IInv
  <2>4. d = c
    BY <2>1, <2>3 DEF Others
  <2> QED
    BY <2>2, <2>4, BringsUp DEF Comes
<1>3. UpOk(c)
  BY <1>1, <1>2, Nones DEF UpFails, Interrupt, Murky
<1>4. murky' = murky /\ n \notin murky /\ murky # Names
  BY <1>1, <1>3 DEF UpOk
<1>5. /\ volume[n] = [archive.db EXCEPT !.wal = "none"] /\ container[n] # None
      /\ root[n] # None /\ archive # None
  BY <1>1, <1>4, AtWork, Places DEF Right, Restoring, IInv, Typed
<1>6. volume[n] # None /\ archive.db \in Volume /\ archive.db.secret > 0 /\ archive.db.wal = "none"
  BY <1>5, Nones DEF IInv, Typed, StoreTyped, HasVolume, GoodArchive, Optional, Archive
<1>7. Outcome(n) = "running"
  <2>1. container' = [container EXCEPT ![n] =
            [status |-> Outcome(n), image |-> root[n].image, port |-> root[n].port]]
    BY <1>1, <1>3 DEF UpOk
  <2>2. container'[n].status = Outcome(n)
    BY <2>1 DEF IInv, Typed, StoreTyped
  <2> QED
    BY <1>1, <2>2
<1>8. volume'[n] = Booted(volume[n], root[n].secret)
  BY <1>1, <1>3, <1>7 DEF UpOk, IInv, Typed, StoreTyped
<1>9. volume[n] \in Volume /\ volume[n].secret # 0 /\ volume[n].wal = "none"
  BY <1>5, <1>6 DEF Volume
<1>10. volume'[n] = [volume[n] EXCEPT !.wal = "none"]
  BY <1>6, <1>8, <1>9 DEF Booted
<1>11. volume'[n] = volume[n]
  BY <1>9, <1>10 DEF Volume
<1> QED
  BY <1>1, <1>5, <1>11

(* `remove` takes an image only when each instance registered as it began  *)
(* to look, whose compose file it then read, named another; one that came  *)
(* to name it meanwhile is all it may miss.  `uninstall` takes a runtime   *)
(* only when runtime.json says the CLI installed it, and a restore that    *)
(* brings the instance up, untouched by any failure or other command,      *)
(* leaves it with the database of the archive, whole.                      *)
THEOREM NothingNeededIsLost == Spec => NothingNeededLost
<1>1. IInv /\ LooksRight /\ [Next]_vars
        => [ImageKept]_vars /\ [RuntimeKept]_vars /\ [\A c \in Clis : GivesBack(c)]_vars
  BY StepKeeps, StepGivesBack DEF IInv
<1>2. Spec => [][ImageKept]_vars /\ [][RuntimeKept]_vars /\ [][\A c \in Clis : GivesBack(c)]_vars
  BY <1>1, Invariant, LooksStay, PTL DEF Spec
<1> QED
  BY <1>2 DEF NothingNeededLost, ImageInUseKept, OnlyOursRemoved, RestoreGivesBack, ImageKept,
              RuntimeKept, GivesBack
=============================================================================
