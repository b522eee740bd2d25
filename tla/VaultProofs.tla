----------------------------- MODULE VaultProofs -----------------------------
(***************************************************************************)
(* Theorems about Vault, for every set of processes and values, and any    *)
(* number of calls, edits and faults.                                      *)
(***************************************************************************)
EXTENDS Vault, TLAPS

Away == {"idle", "gate", "collect", "lock", "leave", "answer", "look", "match", "store", "tool"}
Steps == Away \cup {"read", "write"}

(* A process has the locals of a call, and each step gives it new ones.    *)
IsCall(c) == c = [kind |-> c.kind, text |-> c.text, gate |-> c.gate, known |-> c.known,
                  view |-> c.view, blind |-> c.blind, cached |-> c.cached,
                  value |-> c.value, attempt |-> c.attempt, held |-> c.held]

Shape ==
    /\ pc \in [Procs -> Steps]
    /\ call = [p \in Procs |-> call[p]]
    /\ \A p \in Procs : IsCall(call[p])

(* The process between its lock and its write holds the lock, and only it. *)
Holder ==
    /\ lock \in Procs \cup {None}
    /\ \A p \in Procs : pc[p] \in {"read", "write"} <=> lock = p

(* What it is about to add to is what the file holds, or nothing when its  *)
(* read failed.                                                            *)
Current(c) == IF c.blind THEN c.view = <<>> ELSE c.view = Loaded

ViewIsCurrent == \A p \in Procs : pc[p] = "write" => Current(call[p])

IInv == Shape /\ Holder /\ ViewIsCurrent

(* A process without a call is well formed.                                *)
LEMMA IdleIsCall == IsCall(Idle)
  BY DEF IsCall, Idle

(* The value that stands for nobody is no process.                         *)
LEMMA NoneIsNoProcess == None \notin Procs
  BY VaultAssumption

(* All processes idle and no lock: the invariant holds. *)
LEMMA AllAway ==
    ASSUME pc = [p \in Procs |-> "idle"], call = [p \in Procs |-> Idle], lock = None
    PROVE  IInv
<1>1. pc \in [Procs -> Steps] /\ \A p \in Procs : pc[p] = "idle"
  BY DEF Steps, Away
<1>2. call = [p \in Procs |-> call[p]]
  BY Zenon
<1>3. \A p \in Procs : IsCall(call[p])
  BY IdleIsCall
<1>4. Holder /\ ViewIsCurrent
  BY <1>1, NoneIsNoProcess DEF Holder, ViewIsCurrent
<1> QED
  BY <1>1, <1>2, <1>3, <1>4 DEF IInv, Shape

(* The invariant of the vault holds at the start.                          *)
LEMMA Initially == Init => IInv
<1> SUFFICES ASSUME Init PROVE IInv
  OBVIOUS
<1>1. pc = [p \in Procs |-> "idle"] /\ call = [p \in Procs |-> Idle] /\ lock = None
  BY DEF Init
<1> QED
  BY <1>1, AllAway

-----------------------------------------------------------------------------
(* Where a process and its locals are after a step. *)
LEMMA Went ==
    ASSUME IInv, NEW p \in Procs, NEW step \in Steps, NEW c, IsCall(c), Goto(p, step, c)
    PROVE  /\ Shape'
           /\ pc'[p] = step /\ call'[p] = c
           /\ \A q \in Procs \ {p} : pc'[q] = pc[q] /\ call'[q] = call[q]
<1>1. pc' \in [Procs -> Steps] /\ pc'[p] = step /\ \A q \in Procs \ {p} : pc'[q] = pc[q]
  BY DEF IInv, Shape, Goto
<1>2. /\ call' = [q \in Procs |-> call'[q]] /\ call'[p] = c
      /\ \A q \in Procs \ {p} : call'[q] = call[q]
  BY DEF IInv, Shape, Goto
<1>3. \A q \in Procs : IsCall(call'[q])
  BY <1>2 DEF IInv, Shape
<1> QED
  BY <1>1, <1>2, <1>3 DEF Shape

(* A step of p that has nothing to do with the vault, before and after.    *)
Quiet(p) ==
    /\ UNCHANGED <<vault, secret, lock>>
    /\ pc[p] \in Away
    /\ \E step \in Away : \E c : IsCall(c) /\ Goto(p, step, c)

(* A step that touches neither the vault nor its lock keeps the invariant. *)
LEMMA QuietKeeps ==
    ASSUME IInv, NEW p \in Procs, Quiet(p)
    PROVE  IInv'
<1>0. PICK step \in Away : \E c : IsCall(c) /\ Goto(p, step, c)
  BY DEF Quiet
<1>1. PICK c : IsCall(c) /\ Goto(p, step, c)
  BY <1>0
<1>2. step \in Steps /\ step \notin {"read", "write"} /\ pc[p] \notin {"read", "write"}
  BY DEF Quiet, Away, Steps
<1>3. /\ Shape'
      /\ pc'[p] = step /\ call'[p] = c
      /\ \A q \in Procs \ {p} : pc'[q] = pc[q] /\ call'[q] = call[q]
  BY <1>1, <1>2, Went
<1>4. Loaded' = Loaded /\ lock' = lock
  BY DEF Quiet, Loaded
<1>5. Holder'
  BY <1>2, <1>3, <1>4 DEF IInv, Holder
<1>6. ViewIsCurrent'
  BY <1>2, <1>3, <1>4 DEF IInv, ViewIsCurrent, Current
<1> QED
  BY <1>3, <1>5, <1>6 DEF IInv

(* The steps that are quiet, one by one. *)
LEMMA QuietSteps ==
    ASSUME IInv, NEW p \in Procs,
           \/ Arrive(p) \/ Compose(p) \/ Gate(p) \/ Collect(p) \/ Leave(p)
           \/ NextProvider(p) \/ Answer(p) \/ Look(p) \/ LookFails(p) \/ Match(p) \/ Store(p)
           \/ Tool(p)
    PROVE  Quiet(p)
<1>0. IsCall(call[p]) /\ IsCall(Idle)
  BY IdleIsCall DEF IInv, Shape
<1>1. CASE Arrive(p)
  <2>1. pc[p] \in Away /\ UNCHANGED <<vault, secret, lock>>
    BY <1>1 DEF Arrive, Away, config
  <2>2. PICK step \in {"look", "tool", "store"} : \E kind, t, gate :
          Goto(p, step, [Idle EXCEPT !.kind = kind, !.text = t, !.gate = gate])
    BY <1>1 DEF Arrive
  <2>3. PICK kind, t, gate : Goto(p, step, [Idle EXCEPT !.kind = kind, !.text = t, !.gate = gate])
    BY <2>2
  <2>4. IsCall([Idle EXCEPT !.kind = kind, !.text = t, !.gate = gate])
    <3> DEFINE c1 == [Idle EXCEPT !.kind = kind]
    <3> DEFINE c2 == [c1 EXCEPT !.text = t]
    <3>1. IsCall(c1)
      BY <1>0 DEF IsCall
    <3> HIDE DEF c1
    <3>2. IsCall(c2)
      BY <3>1 DEF IsCall
    <3> HIDE DEF c2
    <3>3. IsCall([c2 EXCEPT !.gate = gate])
      BY <3>2 DEF IsCall
    <3> QED
      BY <3>3 DEF c1, c2
  <2> QED
    BY <2>1, <2>3, <2>4 DEF Quiet, Away
<1>2. CASE Compose(p)
  <2>1. pc[p] \in Away /\ UNCHANGED <<vault, secret, lock>>
    BY <1>2 DEF Compose, Away, config
  <2>2. PICK kind, t, held :
          Goto(p, "gate", [Idle EXCEPT !.kind = kind, !.text = t, !.held = held])
    BY <1>2 DEF Compose
  <2>3. IsCall([Idle EXCEPT !.kind = kind, !.text = t, !.held = held])
    <3> DEFINE c1 == [Idle EXCEPT !.kind = kind]
    <3> DEFINE c2 == [c1 EXCEPT !.text = t]
    <3>1. IsCall(c1)
      BY <1>0 DEF IsCall
    <3> HIDE DEF c1
    <3>2. IsCall(c2)
      BY <3>1 DEF IsCall
    <3> HIDE DEF c2
    <3>3. IsCall([c2 EXCEPT !.held = held])
      BY <3>2 DEF IsCall
    <3> QED
      BY <3>3 DEF c1, c2
  <2> QED
    BY <2>1, <2>2, <2>3 DEF Quiet, Away
<1>3. CASE Gate(p)
  <2>1. pc[p] \in Away /\ UNCHANGED <<vault, secret, lock>>
    BY <1>3 DEF Gate, Away, config
  <2>2. PICK step \in {"collect", "leave"} : \E gate :
          Goto(p, step, [call[p] EXCEPT !.gate = gate])
    BY <1>3 DEF Gate
  <2>3. PICK gate : Goto(p, step, [call[p] EXCEPT !.gate = gate])
    BY <2>2
  <2>4. IsCall([call[p] EXCEPT !.gate = gate])
    BY <1>0 DEF IsCall
  <2> QED
    BY <2>1, <2>3, <2>4 DEF Quiet, Away
<1>4. CASE Collect(p)
  <2>1. pc[p] \in Away /\ UNCHANGED <<vault, secret, lock>>
    BY <1>4 DEF Collect, Away, config
  <2>2. PICK step \in {"lock", "leave"} : \E t :
          Goto(p, step, [call[p] EXCEPT !.cached = t, !.value = call[p].text, !.known = {}])
    BY <1>4 DEF Collect
  <2>3. PICK t : Goto(p, step, [call[p] EXCEPT !.cached = t, !.value = call[p].text, !.known = {}])
    BY <2>2
  <2>4. IsCall([call[p] EXCEPT !.cached = t, !.value = call[p].text, !.known = {}])
    <3> DEFINE c1 == [call[p] EXCEPT !.cached = t]
    <3> DEFINE c2 == [c1 EXCEPT !.value = call[p].text]
    <3>1. IsCall(c1)
      BY <1>0 DEF IsCall
    <3> HIDE DEF c1
    <3>2. IsCall(c2)
      BY <3>1 DEF IsCall
    <3> HIDE DEF c2
    <3>3. IsCall([c2 EXCEPT !.known = {}])
      BY <3>2 DEF IsCall
    <3> QED
      BY <3>3 DEF c1, c2
  <2> QED
    BY <2>1, <2>3, <2>4 DEF Quiet, Away
<1>5. CASE Leave(p)
  <2>1. pc[p] \in Away /\ UNCHANGED <<vault, secret, lock>>
    BY <1>5 DEF Leave, Away, config
  <2>2. Goto(p, "answer", call[p]) \/ Goto(p, "idle", Idle)
    BY <1>5 DEF Leave, Done
  <2> QED
    BY <1>0, <2>1, <2>2 DEF Quiet, Away
<1>6. CASE NextProvider(p)
  <2>1. pc[p] \in Away /\ UNCHANGED <<vault, secret, lock>>
    BY <1>6 DEF NextProvider, Away, config
  <2>2. PICK k : Goto(p, "gate", [call[p] EXCEPT !.attempt = k])
    BY <1>6 DEF NextProvider
  <2>3. IsCall([call[p] EXCEPT !.attempt = k])
    BY <1>0 DEF IsCall
  <2> QED
    BY <2>1, <2>2, <2>3 DEF Quiet, Away
<1>7. CASE Answer(p)
  <2>1. pc[p] \in Away /\ UNCHANGED <<vault, secret, lock>>
    BY <1>7 DEF Answer, Away, config
  <2>2. PICK step \in {"look", "store"} : \E t :
          Goto(p, step, [call[p] EXCEPT !.text = t])
    BY <1>7 DEF Answer
  <2>3. PICK t : Goto(p, step, [call[p] EXCEPT !.text = t])
    BY <2>2
  <2>4. IsCall([call[p] EXCEPT !.text = t])
    BY <1>0 DEF IsCall
  <2> QED
    BY <2>1, <2>3, <2>4 DEF Quiet, Away
<1>8. CASE Look(p) \/ LookFails(p)
  <2>1. pc[p] \in Away /\ UNCHANGED <<vault, secret, lock>>
    BY <1>8 DEF Look, LookFails, ReadFails, Away, config
  <2>2. PICK view, blind : Goto(p, "match", [call[p] EXCEPT !.view = view, !.blind = blind])
    BY <1>8 DEF Look, LookFails, ReadFails
  <2>3. IsCall([call[p] EXCEPT !.view = view, !.blind = blind])
    <3> DEFINE c1 == [call[p] EXCEPT !.view = view]
    <3>1. IsCall(c1)
      BY <1>0 DEF IsCall
    <3> HIDE DEF c1
    <3>2. IsCall([c1 EXCEPT !.blind = blind])
      BY <3>1 DEF IsCall
    <3> QED
      BY <3>2 DEF c1
  <2> QED
    BY <2>1, <2>2, <2>3 DEF Quiet, Away
<1>9. CASE Match(p)
  <2>1. pc[p] \in Away /\ UNCHANGED <<vault, secret, lock>>
    BY <1>9 DEF Match, Away, config
  <2>2. PICK step \in {"tool", "store"} : \E t, known :
          Goto(p, step, [call[p] EXCEPT !.text = t, !.view = <<>>, !.known = known])
    BY <1>9 DEF Match
  <2>3. PICK t, known : Goto(p, step, [call[p] EXCEPT !.text = t, !.view = <<>>, !.known = known])
    BY <2>2
  <2>4. IsCall([call[p] EXCEPT !.text = t, !.view = <<>>, !.known = known])
    <3> DEFINE c1 == [call[p] EXCEPT !.text = t]
    <3> DEFINE c2 == [c1 EXCEPT !.view = <<>>]
    <3>1. IsCall(c1)
      BY <1>0 DEF IsCall
    <3> HIDE DEF c1
    <3>2. IsCall(c2)
      BY <3>1 DEF IsCall
    <3> HIDE DEF c2
    <3>3. IsCall([c2 EXCEPT !.known = known])
      BY <3>2 DEF IsCall
    <3> QED
      BY <3>3 DEF c1, c2
  <2> QED
    BY <2>1, <2>3, <2>4 DEF Quiet, Away
<1>10. CASE Store(p)
  <2>1. pc[p] \in Away /\ UNCHANGED <<vault, secret, lock>>
    BY <1>10 DEF Store, Away, config
  <2>2. Goto(p, "idle", Idle)
    BY <1>10 DEF Store, Done
  <2> QED
    BY <1>0, <2>1, <2>2 DEF Quiet, Away
<1>11. CASE Tool(p)
  <2>1. pc[p] \in Away /\ UNCHANGED <<vault, secret, lock>>
    BY <1>11 DEF Tool, Away, config
  <2>2. PICK step \in {"collect", "leave"} : \E t, held :
          Goto(p, step, [call[p] EXCEPT !.text = t, !.held = held])
    BY <1>11 DEF Tool
  <2>3. PICK t, held : Goto(p, step, [call[p] EXCEPT !.text = t, !.held = held])
    BY <2>2
  <2>4. IsCall([call[p] EXCEPT !.text = t, !.held = held])
    <3> DEFINE c1 == [call[p] EXCEPT !.text = t]
    <3>1. IsCall(c1)
      BY <1>0 DEF IsCall
    <3> HIDE DEF c1
    <3>2. IsCall([c1 EXCEPT !.held = held])
      BY <3>1 DEF IsCall
    <3> QED
      BY <3>2 DEF c1
  <2> QED
    BY <2>1, <2>3, <2>4 DEF Quiet, Away
<1> QED
  BY <1>1, <1>2, <1>3, <1>4, <1>5, <1>6, <1>7, <1>8, <1>9, <1>10, <1>11

-----------------------------------------------------------------------------
(* _persist_mappings(), step by step. *)
LEMMA LockKeeps == ASSUME IInv, NEW p \in Procs, Lock(p) PROVE IInv'
<1>1. /\ Shape'
      /\ pc'[p] = "read" /\ \A q \in Procs \ {p} : pc'[q] = pc[q] /\ call'[q] = call[q]
  BY Went DEF Lock, IInv, Shape, Steps
<1>2. lock = None /\ lock' = p /\ Loaded' = Loaded
  BY DEF Lock, Free, Loaded, config
<1>3. \A q \in Procs : pc[q] \notin {"read", "write"}
  BY <1>2, NoneIsNoProcess DEF IInv, Holder
<1>4. Holder'
  BY <1>1, <1>2, <1>3 DEF Holder
<1>5. ViewIsCurrent'
  BY <1>1, <1>3 DEF ViewIsCurrent
<1> QED
  BY <1>1, <1>4, <1>5 DEF IInv

(* The locals of a process that has read the vault, or failed to. *)
Viewed(c, view, blind) == [c EXCEPT !.view = view, !.blind = blind]

(* Only what it read changes. *)
LEMMA ReadIsCall ==
    ASSUME NEW c, IsCall(c), NEW view, NEW blind
    PROVE  LET d == Viewed(c, view, blind)
           IN  /\ IsCall(d) /\ d.view = view /\ d.blind = blind /\ d.kind = c.kind
               /\ d.text = c.text /\ d.gate = c.gate /\ d.cached = c.cached
               /\ d.value = c.value /\ d.held = c.held
<1> DEFINE d == Viewed(c, view, blind)
<1> DEFINE c1 == [c EXCEPT !.view = view]
<1>1. /\ IsCall(c1) /\ c1.view = view /\ c1.kind = c.kind /\ c1.text = c.text
      /\ c1.gate = c.gate /\ c1.cached = c.cached /\ c1.value = c.value /\ c1.held = c.held
  BY DEF IsCall
<1>2. d = [c1 EXCEPT !.blind = blind]
  BY DEF Viewed
<1> HIDE DEF c1, d
<1>3. IsCall(d) /\ d.blind = blind /\ d.view = c1.view /\ d.kind = c1.kind
  BY <1>1, <1>2 DEF IsCall
<1>4. /\ d.text = c1.text /\ d.gate = c1.gate /\ d.cached = c1.cached
      /\ d.value = c1.value /\ d.held = c1.held
  BY <1>1, <1>2 DEF IsCall
<1> QED
  BY <1>1, <1>3, <1>4 DEF d

(* Reading the vault, or failing to, keeps the invariant.                  *)
LEMMA ReadKeeps ==
    ASSUME IInv, NEW p \in Procs, ReadVault(p) \/ ReadVaultFails(p)
    PROVE  IInv'
<1>0. IsCall(call[p]) /\ pc[p] = "read"
  BY DEF IInv, Shape, ReadVault, ReadVaultFails
<1>1. PICK c : IsCall(c) /\ Current(c) /\ Goto(p, "write", c)
  <2>1. PICK view, blind :
          /\ Goto(p, "write", Viewed(call[p], view, blind))
          /\ IF blind THEN view = <<>> ELSE view = Loaded
    BY DEF ReadVault, ReadVaultFails, ReadFails, Viewed
  <2> DEFINE d == Viewed(call[p], view, blind)
  <2>2. IsCall(d) /\ d.view = view /\ d.blind = blind
    BY <1>0, ReadIsCall
  <2> HIDE DEF d
  <2>3. Current(d)
    BY <2>1, <2>2 DEF Current
  <2> QED
    BY <2>1, <2>2, <2>3 DEF d
<1>3. /\ Shape'
      /\ pc'[p] = "write" /\ call'[p] = c
      /\ \A q \in Procs \ {p} : pc'[q] = pc[q] /\ call'[q] = call[q]
  BY <1>1, Went DEF Steps
<1>4. lock' = lock /\ Loaded' = Loaded
  BY DEF ReadVault, ReadVaultFails, ReadFails, Loaded, config
<1>5. Holder'
  BY <1>0, <1>3, <1>4 DEF IInv, Holder
<1>6. ViewIsCurrent'
  BY <1>1, <1>3, <1>4 DEF IInv, ViewIsCurrent, Current
<1> QED
  BY <1>3, <1>5, <1>6 DEF IInv

(* A process that gives up the lock, or is killed with or without it.      *)
LEMMA ReleaseKeeps ==
    ASSUME IInv, NEW p \in Procs, NEW step \in Away, NEW c, IsCall(c), Goto(p, step, c),
           lock' = (IF lock = p THEN None ELSE lock),
           Loaded' = Loaded \/ lock = p
    PROVE  IInv'
<1>0. step \in Steps /\ step \notin {"read", "write"}
  BY DEF Away, Steps
<1>1. /\ Shape'
      /\ pc'[p] = step /\ \A q \in Procs \ {p} : pc'[q] = pc[q] /\ call'[q] = call[q]
  BY <1>0, Went
<1>2. \A q \in Procs \ {p} : lock' = q <=> lock = q
  BY NoneIsNoProcess
<1>3. lock' # p
  BY NoneIsNoProcess
<1>4. Holder'
  BY <1>0, <1>1, <1>2, <1>3 DEF IInv, Holder
<1>5. ViewIsCurrent'
  <2> SUFFICES ASSUME NEW q \in Procs, pc'[q] = "write" PROVE Current(call[q])'
    BY DEF ViewIsCurrent
  <2>1. q # p /\ pc[q] = "write" /\ call'[q] = call[q]
    BY <1>0, <1>1
  <2>2. lock = q
    BY <2>1 DEF IInv, Holder
  <2>3. Loaded' = Loaded /\ Current(call[q])
    BY <2>1, <2>2 DEF IInv, ViewIsCurrent
  <2> QED
    BY <2>1, <2>3 DEF Current
<1> QED
  BY <1>1, <1>4, <1>5 DEF IInv

(* Writing the vault, or failing to, keeps the invariant.                  *)
LEMMA WriteKeeps == ASSUME IInv, NEW p \in Procs, WriteVault(p) \/ WriteFails(p) PROVE IInv'
<1>0. IsCall(call[p]) /\ lock = p
  BY DEF IInv, Shape, Holder, WriteVault, WriteFails
<1>1. CASE WriteVault(p)
  <2> DEFINE c == [call[p] EXCEPT !.view = <<>>]
  <2>1. IsCall(c)
    BY <1>0 DEF IsCall
  <2> HIDE DEF c
  <2>2. IsCall([c EXCEPT !.value = None])
    BY <2>1 DEF IsCall
  <2>3. Goto(p, "leave", [c EXCEPT !.value = None])
    BY <1>1 DEF WriteVault, c
  <2> QED
    BY <1>0, <1>1, <2>2, <2>3, ReleaseKeeps DEF WriteVault, Unlocked, Away
<1>2. CASE WriteFails(p)
  <2>1. Goto(p, "leave", call[p])
    BY <1>2 DEF WriteFails
  <2> QED
    BY <1>0, <1>2, <2>1, ReleaseKeeps DEF WriteFails, Unlocked, Away
<1> QED
  BY <1>1, <1>2

(* A crash keeps the invariant.                                            *)
LEMMA CrashKeeps == ASSUME IInv, NEW p \in Procs, Crash(p) PROVE IInv'
<1>1. Goto(p, "idle", Idle) /\ Loaded' = Loaded
  BY DEF Crash, Done, Loaded, config
<1>2. lock' = (IF lock = p THEN None ELSE lock)
  BY DEF Crash
<1> QED
  BY <1>1, <1>2, IdleIsCall, ReleaseKeeps DEF Away

(* What happens meanwhile leaves the processes where they are, or ends them all. *)
LEMMA MeanwhileKeeps ==
    ASSUME IInv, AddRecord \/ DeleteRecord \/ SetPrivacy \/ Rotate \/ UNCHANGED vars
    PROVE  IInv'
<1>1. CASE AddRecord \/ SetPrivacy \/ UNCHANGED vars
  <2>1. UNCHANGED <<pc, call, lock, vault, secret>>
    BY <1>1 DEF AddRecord, SetPrivacy, Edit, vars, config
  <2> QED
    BY <2>1 DEF IInv, Shape, Holder, ViewIsCurrent, Current, Loaded
<1>2. CASE DeleteRecord
  <2>1. UNCHANGED <<pc, lock, vault, secret>>
    BY <1>2 DEF DeleteRecord, Edit
  <2>2. PICK v : call' = [p \in Procs |-> IF call[p].text = v
                                          THEN [call[p] EXCEPT !.held = FALSE] ELSE call[p]]
    BY <1>2 DEF DeleteRecord
  <2>3. \A p \in Procs : /\ IsCall(call'[p]) /\ call'[p].view = call[p].view
                          /\ call'[p].blind = call[p].blind
    <3> SUFFICES ASSUME NEW p \in Procs
                 PROVE  /\ IsCall(call'[p]) /\ call'[p].view = call[p].view
                        /\ call'[p].blind = call[p].blind
      OBVIOUS
    <3>1. IsCall(call[p])
      BY DEF IInv, Shape
    <3>2. CASE call'[p] = call[p]
      BY <3>1, <3>2
    <3>3. CASE call'[p] = [call[p] EXCEPT !.held = FALSE]
      BY <3>1, <3>3 DEF IsCall
    <3> QED
      BY <2>2, <3>2, <3>3
  <2>4. call' = [p \in Procs |-> call'[p]]
    BY <2>2
  <2> QED
    BY <2>1, <2>3, <2>4 DEF IInv, Shape, Holder, ViewIsCurrent, Current, Loaded
<1>3. CASE Rotate
  <2>1. pc' = [p \in Procs |-> "idle"] /\ call' = [p \in Procs |-> Idle] /\ lock' = None
    BY <1>3 DEF Rotate
  <2>2. pc' \in [Procs -> Steps] /\ \A p \in Procs : pc'[p] = "idle" /\ call'[p] = Idle
    BY <2>1 DEF Steps, Away
  <2>3. call' = [p \in Procs |-> call'[p]]
    BY <2>1, Zenon
  <2>4. Holder' /\ ViewIsCurrent'
    BY <2>1, <2>2, NoneIsNoProcess DEF Holder, ViewIsCurrent
  <2> QED
    BY <2>2, <2>3, <2>4, IdleIsCall DEF IInv, Shape
<1> QED
  BY <1>1, <1>2, <1>3

(* Every step keeps the invariant.                                         *)
LEMMA Inductive == IInv /\ [Next]_vars => IInv'
<1> SUFFICES ASSUME IInv, [Next]_vars PROVE IInv'
  OBVIOUS
<1>1. ASSUME NEW p \in Procs, Arrive(p) \/ Compose(p) \/ Step(p) \/ Crash(p) PROVE IInv'
  <2>1. CASE Lock(p)
    BY <2>1, LockKeeps
  <2>2. CASE ReadVault(p) \/ ReadVaultFails(p)
    BY <2>2, ReadKeeps
  <2>3. CASE WriteVault(p) \/ WriteFails(p)
    BY <2>3, WriteKeeps
  <2>4. CASE Crash(p)
    BY <2>4, CrashKeeps
  <2>5. CASE \/ Arrive(p) \/ Compose(p) \/ Gate(p) \/ Collect(p) \/ Leave(p)
             \/ NextProvider(p) \/ Answer(p) \/ Look(p) \/ LookFails(p) \/ Match(p)
             \/ Store(p) \/ Tool(p)
    BY <2>5, QuietSteps, QuietKeeps
  <2> QED
    BY <1>1, <2>1, <2>2, <2>3, <2>4, <2>5 DEF Step
<1> QED
  BY <1>1, MeanwhileKeeps DEF Next

-----------------------------------------------------------------------------
(* The vault file changes in one action. *)
LEMMA VaultStep ==
    ASSUME [Next]_vars
    PROVE  UNCHANGED vault \/ \E p \in Procs : WriteVault(p)
<1>1. ASSUME NEW p \in Procs, Arrive(p) \/ Compose(p) \/ Step(p) \/ Crash(p), ~WriteVault(p)
      PROVE  UNCHANGED vault
  BY <1>1 DEF Arrive, Compose, Step, Crash, Gate, Collect, Lock, ReadVault, ReadVaultFails,
              ReadFails, WriteFails, Leave, NextProvider, Answer, Look, LookFails, Match,
              Store, Tool
<1>2. CASE AddRecord \/ DeleteRecord \/ SetPrivacy \/ Rotate \/ UNCHANGED vars
  BY <1>2 DEF AddRecord, DeleteRecord, SetPrivacy, Edit, Rotate, vars
<1> QED
  BY <1>1, <1>2 DEF Next

(* A write that adds to what the file holds loses and changes nothing of it. *)
LEMMA WriteGrows ==
    ASSUME IInv, NEW p \in Procs, WriteVault(p), vault'.secret = vault.secret, ~WritesBlind
    PROVE  /\ DOMAIN vault.map \subseteq DOMAIN vault'.map
           /\ \A ph \in DOMAIN vault.map : vault'.map[ph] = vault.map[ph]
<1>0. pc[p] = "write" /\ pc'[p] = "leave"
  BY DEF WriteVault, Goto, IInv, Shape
<1>1. CASE vault' = vault
  BY <1>1
<1>2. CASE vault' = [secret |-> secret, map |-> Merged(p)]
  <2>1. call[p].view = vault.map
    BY <1>0, <1>2 DEF IInv, ViewIsCurrent, Current, Loaded, WritesBlind
  <2> QED
    BY <1>2, <2>1 DEF Merged
<1> QED
  BY <1>1, <1>2 DEF WriteVault

(* The invariant, for every instance. *)
LEMMA Invariant == Spec => []IInv
  BY Initially, Inductive, PTL DEF Spec

(* No lock is left behind, and no write of the vault that could read it    *)
(* loses or changes a mapping of its secret: privacy.py:386-401 reads and  *)
(* writes under the flock.                                                 *)
THEOREM VaultIsKept == Spec => VaultKept
<1>1. IInv => LockIsUsed
  BY DEF IInv, Holder, LockIsUsed
<1>2. IInv /\ [Next]_vars =>
         [(vault'.secret = vault.secret /\ ~WritesBlind) =>
             /\ DOMAIN vault.map \subseteq DOMAIN vault'.map
             /\ \A ph \in DOMAIN vault.map : vault'.map[ph] = vault.map[ph]]_vars
  BY VaultStep, WriteGrows
<1> QED
  BY <1>1, <1>2, Invariant, PTL DEF Spec, VaultKept, VaultGrows

-----------------------------------------------------------------------------
USE VaultAssumption

(* A placeholder that can be read is one of a set: those that can be turned *)
(* back, or those nobody promised.                                          *)
Kept(t, set) == Reads(t) => t \in set

(* What is true of the locals c of a process at a step, of which values it  *)
(* hides when rows are the records, and of what backs its placeholders when *)
(* key is the secret, gone what is excused, and stored what the vault maps. *)
Formed(step, c) ==
    /\ c.kind \in Kinds \cup {None}
    /\ c.text \in Tokens \cup {None} /\ c.cached \in Tokens \cup {None}
    /\ step # "idle" => c.text \in Tokens
    /\ (step \in {"leave", "answer"} /\ c.gate) => c.cached # None
    /\ step = "answer" => c.kind = "chain"
    /\ (step = "tool" \/ (step \in {"look", "match"} /\ c.kind = "mcp")) => c.cached = None

OnItsWay == {"gate", "collect", "lock", "read", "write", "leave", "answer"}

Hides(step, c, rows) ==
    /\ (step \in OnItsWay /\ c.held) => c.text \in rows
    /\ step \in OnItsWay \ {"collect"} =>
         /\ c.cached \notin Shapes \cup Sensitive
         /\ c.held => c.cached \notin Names

Backed(step, c, key, gone, stored) ==
    /\ step \in {"lock", "read", "write"} =>
         c.value \in Values /\ c.cached = <<key, Fold[c.value]>>
    /\ step \in {"gate", "leave", "answer"} => Kept(c.cached, gone \cup stored)
    /\ step \in OnItsWay \cup {"tool", "store"} => Kept(c.text, gone)
    /\ step = "look" => Kept(c.text, gone \cup stored)
    /\ step = "match" =>
         /\ ~c.blind => Kept(c.text, gone \cup DOMAIN c.view)
         /\ \A ph \in DOMAIN c.view : c.view[ph] \in Values

Calls == \A p \in Procs :
    /\ Formed(pc[p], call[p])
    /\ Hides(pc[p], call[p], records)
    /\ Backed(pc[p], call[p], secret, excused, DOMAIN Loaded)

Typed ==
    /\ faults \in 0 .. MaxFaults /\ secret \in 1 .. faults + 1
    /\ records \subseteq Recorded /\ notes \subseteq Tokens
    /\ enabled \in BOOLEAN /\ strict \in BOOLEAN
    /\ shown \subseteq Tokens /\ excused \subseteq Placeholders

(* The vault maps a placeholder to a value it was made of.                 *)
Mapped ==
    /\ vault.secret \in 1 .. secret
    /\ \A ph \in DOMAIN vault.map :
         vault.map[ph] \in Values /\ ph = <<vault.secret, Fold[vault.map[ph]]>>

(* A placeholder that can be read is not stored, and is shown only when the *)
(* vault has it, but for those nobody promised.                             *)
Noted == \A t \in notes : Kept(t, excused)
Known == \A t \in shown : Kept(t, excused \cup DOMAIN Loaded)

Facts == Typed /\ Mapped /\ Noted /\ Known
PInv == IInv /\ Facts /\ Calls

(* Values, placeholders and the marker are all different.                  *)
LEMMA TokensApart ==
    /\ \A v \in Values : v \notin Placeholders /\ v \in Tokens /\ v # None /\ v # Marker
    /\ None \notin Placeholders /\ None \notin Tokens /\ None # Marker
    /\ Marker \notin Placeholders /\ Marker \in Tokens
    /\ Placeholders \subseteq Tokens
    /\ \A t \in Tokens : t \in Values \/ t \in Placeholders \/ t = Marker
  BY DEF Tokens

(* The folded form of a value is one of the folded forms.                  *)
LEMMA FoldsAreMade == \A v \in Values : Fold[v] \in Range(Fold)
  BY DEF Range

(* What a text becomes on its way out. *)
LEMMA RedactedIs ==
    ASSUME Typed, NEW text \in Tokens, NEW t \in Redacted(text, records)
    PROVE  /\ t \in Tokens
           /\ t \notin Shapes \cup Sensitive
           /\ text \in records => t \notin Names
           /\ t = text \/ t = Marker \/ (text \in Values /\ t = <<secret, Fold[text]>>)
<1>0. secret \in 1 .. MaxFaults + 1
  BY DEF Typed
<1>1. Shapes \cup Sensitive \cup Names \subseteq Values
  BY DEF Shapes, Values
<1>2. Certain(records) \subseteq Values
  BY DEF Certain, Spelt, Shapes, Values
<1>3. CASE text \in Values /\ t = Placeholder(text)
  <2>1. t \in Placeholders
    BY <1>0, <1>3, FoldsAreMade DEF Placeholder, Placeholders
  <2> QED
    BY <1>1, <1>3, <2>1, TokensApart DEF Placeholder
<1>4. CASE t = Marker
  BY <1>1, <1>4, TokensApart
<1>5. CASE /\ t = text /\ text \notin Sensitive /\ text \notin Certain(records)
  <2>1. text \notin Shapes
    BY <1>5 DEF Certain
  <2>2. text \in records => text \notin Names
    <3> SUFFICES ASSUME text \in records, text \in Names PROVE text \in Certain(records)
      BY <1>5
    <3>1. text \in Spelt(records \cap Names)
      BY <1>1 DEF Spelt
    <3> QED
      BY <3>1 DEF Certain
  <2> QED
    BY <1>5, <2>1, <2>2
<1>6. Names \subseteq Values
  BY <1>1
<1> QED
  BY <1>2, <1>3, <1>4, <1>5, <1>6 DEF Redacted, Stripped

(* What a process knows stays true when rows are added, more is excused    *)
(* and the vault grows but for what is excused.                            *)
LEMMA OthersKeep ==
    ASSUME NEW step, NEW c, NEW key, NEW rows, NEW rows2, NEW gone, NEW gone2,
           NEW stored, NEW stored2,
           rows \subseteq rows2, gone \subseteq gone2,
           gone \cup stored \subseteq gone2 \cup stored2,
           Hides(step, c, rows), Backed(step, c, key, gone, stored)
    PROVE  Hides(step, c, rows2) /\ Backed(step, c, key, gone2, stored2)
<1>1. Hides(step, c, rows2)
  BY DEF Hides
<1>2. Backed(step, c, key, gone2, stored2)
  BY DEF Backed, Kept
<1> QED
  BY <1>1, <1>2

(* The calls stay as they must be when one of them goes on to what is as   *)
(* it must be.                                                             *)
LEMMA CallsKeep ==
    ASSUME Calls, NEW p \in Procs, NEW step, NEW c,
           pc'[p] = step, call'[p] = c,
           \A q \in Procs \ {p} : pc'[q] = pc[q] /\ call'[q] = call[q],
           secret' = secret, records \subseteq records', excused \subseteq excused',
           excused \cup DOMAIN Loaded \subseteq excused' \cup DOMAIN Loaded',
           Formed(step, c), Hides(step, c, records'),
           Backed(step, c, secret, excused', DOMAIN Loaded')
    PROVE  Calls'
<1> SUFFICES ASSUME NEW q \in Procs
             PROVE  /\ Formed(pc'[q], call'[q])
                    /\ Hides(pc'[q], call'[q], records')
                    /\ Backed(pc'[q], call'[q], secret', excused', DOMAIN Loaded')
  BY DEF Calls
<1>1. CASE q = p
  BY <1>1
<1>2. CASE q # p
  <2>1. /\ Formed(pc[q], call[q])
        /\ Hides(pc[q], call[q], records)
        /\ Backed(pc[q], call[q], secret, excused, DOMAIN Loaded)
    BY DEF Calls
  <2> QED
    BY <1>2, <2>1, OthersKeep
<1> QED
  BY <1>1, <1>2

-----------------------------------------------------------------------------
(* A step that goes on from the invariant of the redaction keeps the calls *)
(* as they must be.                                                        *)
LEMMA StepKeeps ==
    ASSUME PInv, NEW p \in Procs, NEW step \in Steps, NEW c, IsCall(c), Goto(p, step, c),
           secret' = secret, records \subseteq records', excused \subseteq excused',
           excused \cup DOMAIN Loaded \subseteq excused' \cup DOMAIN Loaded',
           Formed(step, c), Hides(step, c, records'),
           Backed(step, c, secret, excused', DOMAIN Loaded')
    PROVE  Calls'
<1>1. IInv /\ Calls
  BY DEF PInv
<1>2. /\ pc'[p] = step /\ call'[p] = c
      /\ \A q \in Procs \ {p} : pc'[q] = pc[q] /\ call'[q] = call[q]
  BY <1>1, Went
<1> QED
  BY <1>1, <1>2, CallsKeep

(* What is true of a process before its step. *)
LEMMA Before ==
    ASSUME PInv, NEW p \in Procs
    PROVE  /\ IsCall(call[p]) /\ IInv /\ Facts /\ Typed
           /\ Formed(pc[p], call[p])
           /\ Hides(pc[p], call[p], records)
           /\ Backed(pc[p], call[p], secret, excused, DOMAIN Loaded)
  BY DEF PInv, Calls, IInv, Shape, Facts

(* A process that goes idle. *)
LEMMA IdleIsFine ==
    ASSUME NEW rows, NEW key, NEW gone, NEW stored
    PROVE  /\ IsCall(Idle) /\ Formed("idle", Idle) /\ Hides("idle", Idle, rows)
           /\ Backed("idle", Idle, key, gone, stored)
<1>1. Idle.kind = None /\ Idle.text = None /\ Idle.cached = None
  BY DEF Idle
<1> QED
  BY <1>1, IdleIsCall DEF Formed, Hides, Backed, OnItsWay

(* The state beside the processes, when a step leaves it alone. *)
LEMMA StillFacts ==
    ASSUME Facts, UNCHANGED <<data, config, vault, shown, faults, excused>>
    PROVE  /\ Facts' /\ Loaded' = Loaded
           /\ secret' = secret /\ records \subseteq records' /\ excused \subseteq excused'
           /\ DOMAIN Loaded \subseteq DOMAIN Loaded'
           /\ records' = records /\ excused' = excused
<1>1. /\ records' = records /\ notes' = notes /\ secret' = secret /\ enabled' = enabled
      /\ strict' = strict /\ vault' = vault /\ shown' = shown /\ faults' = faults
      /\ excused' = excused
  BY DEF data, config
<1>2. Loaded' = Loaded
  BY <1>1 DEF Loaded
<1>3. Typed'
  BY <1>1, Zenon DEF Facts, Typed
<1>4. Mapped'
  BY <1>1, Zenon DEF Facts, Mapped
<1>5. Noted' /\ Known'
  BY <1>1, <1>2, Zenon DEF Facts, Noted, Known
<1> QED
  BY <1>1, <1>2, <1>3, <1>4, <1>5 DEF Facts

(* Gate keeps the invariant of the redaction.                              *)
LEMMA GateHolds == ASSUME PInv, NEW p \in Procs, Gate(p) PROVE Facts' /\ Calls'
<1>1. PICK remote \in BOOLEAN :
        Goto(p, IF Guarded(p, remote) /\ call[p].cached = None THEN "collect" ELSE "leave",
             [call[p] EXCEPT !.gate = Guarded(p, remote)])
  <2>1. \A remote : [call[p] EXCEPT !.gate = Guarded(p, remote)].gate = Guarded(p, remote)
                    /\ [call[p] EXCEPT !.gate = Guarded(p, remote)].cached = call[p].cached
    BY Before DEF IsCall
  <2> QED
    BY <2>1 DEF Gate
<1> DEFINE g == Guarded(p, remote)
<1> HIDE DEF g
<1> DEFINE c == [call[p] EXCEPT !.gate = g]
<1> DEFINE step == IF g /\ call[p].cached = None THEN "collect" ELSE "leave"
<1>2. Goto(p, step, c) /\ pc[p] = "gate"
  BY <1>1 DEF g, Gate
<1>3. /\ c.kind = call[p].kind /\ c.text = call[p].text /\ c.cached = call[p].cached
      /\ c.held = call[p].held /\ c.gate = g /\ IsCall(c) /\ c.value = call[p].value
  <2>0. IsCall(call[p])
    BY Before
  <2>1. IsCall(c)
    BY <2>0 DEF IsCall
  <2>2. c.kind = call[p].kind /\ c.text = call[p].text /\ c.cached = call[p].cached
    BY <2>0 DEF IsCall
  <2>3. c.held = call[p].held /\ c.gate = g /\ c.value = call[p].value
    BY <2>0 DEF IsCall
  <2> QED
    BY <2>1, <2>2, <2>3
<1>4. Facts' /\ secret' = secret /\ records \subseteq records' /\ excused \subseteq excused'
      /\ DOMAIN Loaded \subseteq DOMAIN Loaded' /\ records' = records /\ excused' = excused
      /\ Loaded' = Loaded
  BY Before, StillFacts DEF Gate
<1> HIDE DEF c
<1>5. step = "collect" \/ (step = "leave" /\ ~(g /\ call[p].cached = None))
  OBVIOUS
<1> HIDE DEF step
<1>6. step \in Steps
  BY <1>5 DEF Steps, Away
<1>7. Formed(step, c)
  BY <1>2, <1>3, <1>5, Before DEF Formed
<1>8. Hides(step, c, records)
  BY <1>2, <1>3, <1>5, Before DEF Hides, OnItsWay
<1>9. Backed(step, c, secret, excused, DOMAIN Loaded)
  BY <1>2, <1>3, <1>5, Before DEF Backed, OnItsWay
<1> QED
  BY <1>2, <1>3, <1>4, <1>6, <1>7, <1>8, <1>9, StepKeeps

(* Collect keeps the invariant of the redaction.                           *)
LEMMA CollectHolds == ASSUME PInv, NEW p \in Procs, Collect(p) PROVE Facts' /\ Calls'
<1>1. PICK t \in Redacted(call[p].text, records) :
        Goto(p, IF t \in Placeholders \ {call[p].text} THEN "lock" ELSE "leave",
             [call[p] EXCEPT !.cached = t, !.value = call[p].text, !.known = {}])
  BY DEF Collect, Searched
<1> DEFINE c1 == [call[p] EXCEPT !.cached = t]
<1> DEFINE c2 == [c1 EXCEPT !.value = call[p].text]
<1> DEFINE c == [c2 EXCEPT !.known = {}]
<1> DEFINE step == IF t \in Placeholders \ {call[p].text} THEN "lock" ELSE "leave"
<1>2. Goto(p, step, c) /\ pc[p] = "collect"
  BY <1>1 DEF Collect
<1>3. /\ c.kind = call[p].kind /\ c.text = call[p].text /\ c.cached = t
      /\ c.held = call[p].held /\ c.gate = call[p].gate /\ IsCall(c)
      /\ c.value = call[p].text
  <2>1. /\ c1.kind = call[p].kind /\ c1.text = call[p].text /\ c1.cached = t
        /\ c1.held = call[p].held /\ c1.gate = call[p].gate /\ IsCall(c1)
    <3>1. IsCall(call[p])
      BY Before
    <3> QED
      BY <3>1 DEF IsCall
  <2> HIDE DEF c1
  <2>2. /\ c2.kind = call[p].kind /\ c2.text = call[p].text /\ c2.cached = t
        /\ c2.held = call[p].held /\ c2.gate = call[p].gate /\ IsCall(c2)
        /\ c2.value = call[p].text
    BY <2>1 DEF IsCall
  <2> HIDE DEF c2
  <2> QED
    BY <2>2 DEF IsCall
<1>4. Facts' /\ secret' = secret /\ records \subseteq records' /\ excused \subseteq excused'
      /\ DOMAIN Loaded \subseteq DOMAIN Loaded' /\ records' = records /\ excused' = excused
      /\ Loaded' = Loaded
  BY Before, StillFacts DEF Collect
<1> HIDE DEF c
<1>5. \/ step = "lock" /\ t \in Placeholders /\ t # call[p].text
      \/ step = "leave" /\ (t \notin Placeholders \/ t = call[p].text)
  OBVIOUS
<1> HIDE DEF step
<1>6. step \in Steps
  BY <1>5 DEF Steps, Away
<1>7. call[p].text \in Tokens
  BY <1>2, Before DEF Formed
<1>8. /\ t \in Tokens
      /\ t \notin Shapes \cup Sensitive
      /\ call[p].text \in records => t \notin Names
      /\ t = call[p].text \/ t = Marker
         \/ (call[p].text \in Values /\ t = <<secret, Fold[call[p].text]>>)
  BY <1>7, Before, RedactedIs
<1>9. Formed(step, c)
  BY <1>2, <1>3, <1>5, <1>7, <1>8, TokensApart, Before DEF Formed
<1>10. Hides(step, c, records)
  BY <1>2, <1>3, <1>5, <1>8, Before DEF Hides, OnItsWay
<1>11. Backed(step, c, secret, excused, DOMAIN Loaded)
  <2>1. Kept(call[p].text, excused)
    BY <1>2, Before DEF Backed, OnItsWay
  <2>2. CASE step = "lock"
    BY <1>3, <1>5, <1>8, <2>1, <2>2, TokensApart DEF Backed, OnItsWay
  <2>3. CASE step = "leave"
    <3>1. Kept(t, excused \cup DOMAIN Loaded)
      BY <1>5, <2>1, <2>3 DEF Kept, Reads
    <3> QED
      BY <1>3, <2>1, <2>3, <3>1 DEF Backed, OnItsWay
  <2> QED
    BY <1>5, <2>2, <2>3
<1> QED
  BY <1>2, <1>3, <1>4, <1>6, <1>9, <1>10, <1>11, StepKeeps

(* Lock keeps the invariant of the redaction.                              *)
LEMMA LockHolds == ASSUME PInv, NEW p \in Procs, Lock(p) PROVE Facts' /\ Calls'
<1>1. Goto(p, "read", call[p]) /\ pc[p] = "lock"
  BY DEF Lock
<1>2. Facts' /\ secret' = secret /\ records \subseteq records' /\ excused \subseteq excused'
      /\ DOMAIN Loaded \subseteq DOMAIN Loaded' /\ records' = records /\ excused' = excused
      /\ Loaded' = Loaded
  BY Before, StillFacts DEF Lock
<1>3. "read" \in Steps /\ IsCall(call[p])
  BY Before DEF Steps
<1>4. Formed("read", call[p]) /\ Hides("read", call[p], records)
  BY <1>1, Before DEF Formed, Hides, OnItsWay
<1>5. Backed("read", call[p], secret, excused, DOMAIN Loaded)
  BY <1>1, Before DEF Backed, OnItsWay
<1> QED
  BY <1>1, <1>2, <1>3, <1>4, <1>5, StepKeeps

(* A read, also one that fails, leaves the state beside the processes alone. *)
LEMMA ReadFacts ==
    ASSUME PInv, NEW p \in Procs,
           ReadVault(p) \/ ReadVaultFails(p) \/ Look(p) \/ LookFails(p)
    PROVE  /\ Facts' /\ Loaded' = Loaded /\ secret' = secret /\ records' = records
           /\ excused' = excused
<1>1. CASE ReadVault(p) \/ Look(p)
  BY <1>1, Before, StillFacts DEF ReadVault, Look
<1>2. CASE ReadVaultFails(p) \/ LookFails(p)
  <2>1. /\ records' = records /\ notes' = notes /\ secret' = secret /\ enabled' = enabled
        /\ strict' = strict /\ vault' = vault /\ shown' = shown /\ excused' = excused
        /\ faults' = faults + 1 /\ faults < MaxFaults
    BY <1>2 DEF ReadVaultFails, LookFails, ReadFails, data, config
  <2>2. Loaded' = Loaded
    BY <2>1 DEF Loaded
  <2>3. faults' \in 0 .. MaxFaults /\ secret' \in 1 .. faults' + 1
    BY <2>1, Before DEF Typed
  <2>4. Typed'
    BY <2>1, <2>3, Before, Zenon DEF Typed
  <2>5. Mapped' /\ Noted' /\ Known'
    BY <2>1, <2>2, Before, Zenon DEF Facts, Mapped, Noted, Known
  <2> QED
    BY <2>1, <2>2, <2>4, <2>5 DEF Facts
<1> QED
  BY <1>1, <1>2

(* Reading the vault, or failing to, keeps the invariant of the redaction. *)
LEMMA ReadHolds ==
    ASSUME PInv, NEW p \in Procs, ReadVault(p) \/ ReadVaultFails(p)
    PROVE  Facts' /\ Calls'
<1>0. IsCall(call[p]) /\ pc[p] = "read"
  BY Before DEF ReadVault, ReadVaultFails
<1>1. PICK view, blind : Goto(p, "write", Viewed(call[p], view, blind))
  BY DEF ReadVault, ReadVaultFails, ReadFails, Viewed
<1> DEFINE c == Viewed(call[p], view, blind)
<1>2. /\ Facts' /\ Loaded' = Loaded /\ secret' = secret /\ records' = records
      /\ excused' = excused
  BY ReadFacts
<1>3. /\ c.kind = call[p].kind /\ c.text = call[p].text /\ c.cached = call[p].cached
      /\ c.held = call[p].held /\ c.gate = call[p].gate /\ c.value = call[p].value
      /\ IsCall(c)
  BY <1>0, ReadIsCall
<1>4. Goto(p, "write", c)
  BY <1>1
<1> HIDE DEF c
<1>5. "write" \in Steps
  BY DEF Steps
<1>6. Formed("write", c) /\ Hides("write", c, records)
  BY <1>0, <1>3, Before DEF Formed, Hides, OnItsWay
<1>7. Backed("write", c, secret, excused, DOMAIN Loaded)
  BY <1>0, <1>3, Before DEF Backed, OnItsWay
<1> QED
  BY <1>2, <1>3, <1>4, <1>5, <1>6, <1>7, StepKeeps

(* What the vault maps is a placeholder of its secret. *)
LEMMA LoadedMap ==
    ASSUME PInv
    PROVE  \A ph \in DOMAIN Loaded :
              Loaded[ph] \in Values /\ ph = <<secret, Fold[Loaded[ph]]>> /\ ph \in Placeholders
<1>1. Mapped /\ secret \in 1 .. MaxFaults + 1
  BY DEF PInv, Facts, Typed
<1>2. CASE vault.secret = secret
  <2>1. \A ph \in DOMAIN Loaded : Loaded[ph] \in Values /\ ph = <<secret, Fold[Loaded[ph]]>>
    BY <1>1, <1>2 DEF Loaded, Mapped
  <2> QED
    BY <1>1, <2>1, FoldsAreMade DEF Placeholders
<1>3. CASE vault.secret # secret
  <2>1. DOMAIN Loaded = {}
    BY <1>3 DEF Loaded
  <2> QED
    BY <2>1
<1> QED
  BY <1>2, <1>3

(* The file maps what its writer had read, which is what the file mapped   *)
(* but for what the write drops, and the placeholder of the writer.        *)
LEMMA WrittenMap ==
    ASSUME PInv, NEW p \in Procs, WriteVault(p)
    PROVE  /\ Mapped'
           /\ call[p].cached \in DOMAIN Loaded'
           /\ DOMAIN Loaded \subseteq Dropped(p) \cup DOMAIN Loaded'
<1>0. /\ pc[p] = "write" /\ secret' = secret
      /\ call[p].value \in Values /\ call[p].cached = <<secret, Fold[call[p].value]>>
  BY Before DEF WriteVault, config, Backed
<1>1. Current(call[p]) /\ secret \in Nat /\ secret \in 1 .. secret /\ Mapped
  BY <1>0, Before DEF IInv, ViewIsCurrent, Typed, Facts
<1>2. /\ \A ph \in DOMAIN call[p].view :
            call[p].view[ph] \in Values /\ ph = <<secret, Fold[call[p].view[ph]]>>
      /\ DOMAIN Loaded \subseteq Dropped(p) \cup DOMAIN call[p].view \cup {call[p].cached}
  <2>1. CASE ~call[p].blind
    BY <1>1, <2>1, LoadedMap DEF Current
  <2>2. CASE call[p].blind
    <3>1. DOMAIN call[p].view = {}
      BY <1>1, <2>2 DEF Current
    <3> QED
      BY <2>2, <3>1 DEF Dropped
  <2> QED
    BY <2>1, <2>2
<1>3. CASE call[p].cached \in DOMAIN call[p].view
  <2>1. vault' = vault
    BY <1>3 DEF WriteVault
  <2>2. call[p].view = Loaded
    <3>1. call[p].view # <<>>
      BY <1>3
    <3> QED
      BY <1>1, <3>1 DEF Current
  <2> QED
    BY <1>0, <1>1, <1>2, <1>3, <2>1, <2>2 DEF Mapped, Loaded
<1>4. CASE call[p].cached \notin DOMAIN call[p].view
  <2>1. vault' = [secret |-> secret, map |-> Merged(p)]
    BY <1>4 DEF WriteVault
  <2>2. /\ DOMAIN Merged(p) = DOMAIN call[p].view \cup {call[p].cached}
        /\ \A ph \in DOMAIN call[p].view : Merged(p)[ph] = call[p].view[ph]
        /\ Merged(p)[call[p].cached] = call[p].value
    BY <1>4 DEF Merged
  <2>3. vault'.secret = secret /\ vault'.map = Merged(p)
    BY <2>1
  <2>4. Loaded' = Merged(p)
    BY <1>0, <2>3 DEF Loaded
  <2>5. \A ph \in DOMAIN Merged(p) :
           Merged(p)[ph] \in Values /\ ph = <<secret, Fold[Merged(p)[ph]]>>
    BY <1>0, <1>2, <2>2
  <2>6. Mapped'
    BY <1>0, <1>1, <2>3, <2>5 DEF Mapped
  <2> QED
    BY <1>2, <2>2, <2>4, <2>6
<1> QED
  BY <1>3, <1>4

(* WriteVault keeps the invariant of the redaction.                        *)
LEMMA WriteHolds == ASSUME PInv, NEW p \in Procs, WriteVault(p) PROVE Facts' /\ Calls'
<1> DEFINE c1 == [call[p] EXCEPT !.view = <<>>]
<1> DEFINE c == [c1 EXCEPT !.value = None]
<1>1. Goto(p, "leave", c) /\ pc[p] = "write"
  BY DEF WriteVault
<1>2. /\ c.kind = call[p].kind /\ c.text = call[p].text /\ c.cached = call[p].cached
      /\ c.held = call[p].held /\ c.gate = call[p].gate /\ IsCall(c)
  <2>0. IsCall(call[p])
    BY Before
  <2>1. /\ c1.kind = call[p].kind /\ c1.text = call[p].text /\ c1.cached = call[p].cached
        /\ c1.held = call[p].held /\ c1.gate = call[p].gate
    BY <2>0 DEF IsCall
  <2>2. IsCall(c1)
    BY <2>0 DEF IsCall
  <2> HIDE DEF c1
  <2>3. /\ c.kind = c1.kind /\ c.text = c1.text /\ c.cached = c1.cached
        /\ c.held = c1.held /\ c.gate = c1.gate
    BY <2>2 DEF IsCall
  <2>4. IsCall(c)
    BY <2>2 DEF IsCall
  <2> QED
    BY <2>1, <2>3, <2>4
<1>3. /\ records' = records /\ notes' = notes /\ secret' = secret /\ enabled' = enabled
      /\ strict' = strict /\ shown' = shown /\ faults' = faults
      /\ excused' = excused \cup Dropped(p)
  BY DEF WriteVault, data, config
<1>4. /\ Mapped' /\ call[p].cached \in DOMAIN Loaded'
      /\ DOMAIN Loaded \subseteq Dropped(p) \cup DOMAIN Loaded'
  BY WrittenMap
<1>5. Facts'
  <2>1. Typed'
    <3>1. excused' \subseteq Placeholders
      BY <1>3, LoadedMap, Before DEF Typed, Dropped
    <3> QED
      BY <1>3, <3>1, Before, Zenon DEF Typed
  <2>2. Noted'
    BY <1>3, Before DEF Facts, Noted, Kept
  <2>3. Known'
    BY <1>3, <1>4, Before DEF Facts, Known, Kept
  <2> QED
    BY <1>4, <2>1, <2>2, <2>3 DEF Facts
<1> HIDE DEF c
<1>6. "leave" \in Steps
  BY DEF Steps, Away
<1>7. Kept(call[p].cached, excused' \cup DOMAIN Loaded')
  BY <1>4 DEF Kept
<1>8. call[p].cached # None
  <2>1. call[p].value \in Values /\ call[p].cached = <<secret, Fold[call[p].value]>>
    BY <1>1, Before DEF Backed
  <2>2. secret \in 1 .. MaxFaults + 1
    BY Before DEF Typed
  <2>3. call[p].cached \in Placeholders
    BY <2>1, <2>2, FoldsAreMade DEF Placeholders
  <2> QED
    BY <2>3, TokensApart
<1>9. Formed("leave", c)
  BY <1>1, <1>2, <1>8, Before DEF Formed
<1>10. Hides("leave", c, records)
  BY <1>1, <1>2, Before DEF Hides, OnItsWay
<1>11. Kept(call[p].text, excused')
  BY <1>1, <1>3, Before DEF Backed, OnItsWay, Kept
<1>12. Backed("leave", c, secret, excused', DOMAIN Loaded')
  BY <1>2, <1>7, <1>11 DEF Backed
<1>13. /\ secret' = secret /\ records \subseteq records' /\ excused \subseteq excused'
       /\ excused \cup DOMAIN Loaded \subseteq excused' \cup DOMAIN Loaded'
  BY <1>3, <1>4
<1> QED
  BY <1>1, <1>2, <1>3, <1>5, <1>6, <1>9, <1>10, <1>12, <1>13, StepKeeps

(* A write that fails excuses its placeholder. *)
LEMMA FailHolds == ASSUME PInv, NEW p \in Procs, WriteFails(p) PROVE Facts' /\ Calls'
<1>1. Goto(p, "leave", call[p]) /\ pc[p] = "write"
  BY DEF WriteFails
<1>2. /\ records' = records /\ notes' = notes /\ secret' = secret /\ enabled' = enabled
      /\ strict' = strict /\ shown' = shown /\ vault' = vault
      /\ faults' = faults + 1 /\ faults < MaxFaults /\ excused' = excused \cup {call[p].cached}
  BY DEF WriteFails, data, config
<1>3. Loaded' = Loaded
  BY <1>2 DEF Loaded
<1>4. call[p].cached \in Placeholders
  <2>1. call[p].value \in Values /\ call[p].cached = <<secret, Fold[call[p].value]>>
    BY <1>1, Before DEF Backed
  <2>2. secret \in 1 .. MaxFaults + 1
    BY Before DEF Typed
  <2> QED
    BY <2>1, <2>2, FoldsAreMade DEF Placeholders
<1>5. Facts'
  <2>1. Typed'
    <3>1. faults' \in 0 .. MaxFaults /\ secret' \in 1 .. faults' + 1
      BY <1>2, Before DEF Typed
    <3>2. excused' \subseteq Placeholders
      BY <1>2, <1>4, Before DEF Typed
    <3>3. /\ records' \subseteq Recorded /\ notes' \subseteq Tokens
          /\ enabled' \in BOOLEAN /\ strict' \in BOOLEAN /\ shown' \subseteq Tokens
      BY <1>2, Before, Zenon DEF Typed
    <3> QED
      BY <3>1, <3>2, <3>3 DEF Typed
  <2>2. Mapped'
    BY <1>2, Before, Zenon DEF Facts, Mapped
  <2>3. Noted'
    BY <1>2, Before DEF Facts, Noted, Kept
  <2>4. Known'
    BY <1>2, <1>3, Before DEF Facts, Known, Kept
  <2> QED
    BY <2>1, <2>2, <2>3, <2>4 DEF Facts
<1>6. "leave" \in Steps /\ IsCall(call[p])
  BY Before DEF Steps, Away
<1>7. Formed("leave", call[p])
  BY <1>1, <1>4, TokensApart, Before DEF Formed
<1>8. Hides("leave", call[p], records')
  BY <1>1, <1>2, Before DEF Hides, OnItsWay
<1>9. Kept(call[p].text, excused)
  BY <1>1, Before DEF Backed, OnItsWay
<1>10. Backed("leave", call[p], secret, excused', DOMAIN Loaded')
  BY <1>2, <1>9 DEF Backed, Kept
<1>11. /\ secret' = secret /\ records \subseteq records' /\ excused \subseteq excused'
       /\ DOMAIN Loaded \subseteq DOMAIN Loaded'
  BY <1>2, <1>3
<1> QED
  BY <1>1, <1>5, <1>6, <1>7, <1>8, <1>10, <1>11, StepKeeps

(* NextProvider keeps the invariant of the redaction.                      *)
LEMMA NextHolds == ASSUME PInv, NEW p \in Procs, NextProvider(p) PROVE Facts' /\ Calls'
<1> DEFINE c == [call[p] EXCEPT !.attempt = call[p].attempt + 1]
<1>1. Goto(p, "gate", c) /\ pc[p] = "answer"
  BY DEF NextProvider
<1>2. Facts' /\ secret' = secret /\ records \subseteq records' /\ excused \subseteq excused'
      /\ DOMAIN Loaded \subseteq DOMAIN Loaded' /\ records' = records /\ excused' = excused
      /\ Loaded' = Loaded
  BY Before, StillFacts DEF NextProvider
<1>3. /\ c.kind = call[p].kind /\ c.text = call[p].text /\ c.cached = call[p].cached
      /\ c.held = call[p].held /\ c.gate = call[p].gate /\ IsCall(c)
  <2>0. IsCall(call[p])
    BY Before
  <2>1. IsCall(c)
    BY <2>0 DEF IsCall
  <2>2. c.kind = call[p].kind /\ c.text = call[p].text /\ c.cached = call[p].cached
    BY <2>0 DEF IsCall
  <2>3. c.held = call[p].held /\ c.gate = call[p].gate
    BY <2>0 DEF IsCall
  <2> QED
    BY <2>1, <2>2, <2>3
<1> HIDE DEF c
<1>4. "gate" \in Steps
  BY DEF Steps, Away
<1>5. Formed("gate", c) /\ Hides("gate", c, records)
  BY <1>1, <1>3, Before DEF Formed, Hides, OnItsWay
<1>6. Backed("gate", c, secret, excused, DOMAIN Loaded)
  BY <1>1, <1>3, Before DEF Backed, OnItsWay
<1> QED
  BY <1>1, <1>2, <1>3, <1>4, <1>5, <1>6, StepKeeps

(* What a process sends, or has sent. *)
LEMMA OutgoingIs ==
    ASSUME PInv, NEW p \in Procs, pc[p] \in {"leave", "answer"}
    PROVE  /\ Outgoing(p) \in Tokens
           /\ Kept(Outgoing(p), excused \cup DOMAIN Loaded)
           /\ call[p].gate \/ Kept(Outgoing(p), excused)
<1>1. /\ call[p].text \in Tokens /\ Kept(call[p].text, excused)
      /\ Kept(call[p].cached, excused \cup DOMAIN Loaded)
  BY Before DEF Formed, Backed, OnItsWay
<1>2. call[p].gate => call[p].cached \in Tokens
  BY Before DEF Formed
<1>3. CASE call[p].gate
  BY <1>1, <1>2, <1>3 DEF Outgoing
<1>4. CASE ~call[p].gate
  BY <1>1, <1>4 DEF Outgoing, Kept
<1> QED
  BY <1>3, <1>4

(* Leave keeps the invariant of the redaction.                             *)
LEMMA LeaveHolds == ASSUME PInv, NEW p \in Procs, Leave(p) PROVE Facts' /\ Calls'
<1>1. /\ records' = records /\ notes' = notes /\ secret' = secret /\ enabled' = enabled
      /\ strict' = strict /\ vault' = vault /\ faults' = faults /\ excused' = excused
      /\ shown' = shown \cup {Outgoing(p)} /\ pc[p] = "leave"
  BY DEF Leave, data, config
<1>2. Loaded' = Loaded
  BY <1>1 DEF Loaded
<1>3. Outgoing(p) \in Tokens /\ Kept(Outgoing(p), excused \cup DOMAIN Loaded)
  BY <1>1, OutgoingIs
<1>4. Facts'
  <2>1. Typed'
    BY <1>1, <1>3, Before DEF Typed
  <2>2. Mapped' /\ Noted'
    BY <1>1, Before, Zenon DEF Facts, Mapped, Noted
  <2>3. Known'
    BY <1>1, <1>2, <1>3, Before DEF Facts, Known
  <2> QED
    BY <2>1, <2>2, <2>3 DEF Facts
<1>5. /\ secret' = secret /\ records \subseteq records' /\ excused \subseteq excused'
      /\ DOMAIN Loaded \subseteq DOMAIN Loaded'
  BY <1>1, <1>2
<1>6. CASE call[p].kind = "chain" /\ Goto(p, "answer", call[p])
  <2>1. "answer" \in Steps /\ IsCall(call[p])
    BY Before DEF Steps, Away
  <2>2. Formed("answer", call[p])
    BY <1>1, <1>6, Before DEF Formed
  <2>3. Hides("answer", call[p], records')
    BY <1>1, Before DEF Hides, OnItsWay
  <2>4. Backed("answer", call[p], secret, excused', DOMAIN Loaded')
    BY <1>1, <1>2, Before DEF Backed, OnItsWay
  <2> QED
    BY <1>4, <1>5, <1>6, <2>1, <2>2, <2>3, <2>4, StepKeeps
<1>7. CASE Goto(p, "idle", Idle)
  <2>1. "idle" \in Steps
    BY DEF Steps, Away
  <2> QED
    BY <1>4, <1>5, <1>7, <2>1, IdleIsFine, StepKeeps
<1> QED
  BY <1>6, <1>7 DEF Leave, Done

(* Answer keeps the invariant of the redaction.                            *)
LEMMA AnswerHolds == ASSUME PInv, NEW p \in Procs, Answer(p) PROVE Facts' /\ Calls'
<1> DEFINE t == Outgoing(p)
<1> DEFINE c == [call[p] EXCEPT !.text = t]
<1> DEFINE step == IF TurnsBack(p) /\ t \in Placeholders THEN "look" ELSE "store"
<1>1. Goto(p, step, c) /\ pc[p] = "answer"
  BY DEF Answer
<1>2. /\ records' = records /\ notes' = notes /\ secret' = secret /\ enabled' = enabled
      /\ strict' = strict /\ vault' = vault /\ faults' = faults /\ shown' = shown
      /\ excused' = IF call[p].gate THEN excused ELSE excused \cup ({t} \cap Placeholders)
  BY DEF Answer, data, config
<1>3. Loaded' = Loaded
  BY <1>2 DEF Loaded
<1>4. t \in Tokens /\ Kept(t, excused \cup DOMAIN Loaded) /\ (call[p].gate \/ Kept(t, excused))
  BY <1>1, OutgoingIs
<1>5. /\ c.kind = call[p].kind /\ c.text = t /\ c.cached = call[p].cached
      /\ c.held = call[p].held /\ c.gate = call[p].gate /\ IsCall(c)
  <2>0. IsCall(call[p])
    BY Before
  <2> HIDE DEF t
  <2>1. IsCall(c)
    BY <2>0 DEF IsCall
  <2>2. c.kind = call[p].kind /\ c.text = t /\ c.cached = call[p].cached
    BY <2>0 DEF IsCall
  <2>3. c.held = call[p].held /\ c.gate = call[p].gate
    BY <2>0 DEF IsCall
  <2> QED
    BY <2>1, <2>2, <2>3
<1> HIDE DEF c
<1>6. excused \subseteq excused' /\ excused' \subseteq Placeholders
  <2>1. excused \subseteq Placeholders
    BY Before DEF Typed
  <2>2. CASE call[p].gate
    BY <1>2, <2>1, <2>2
  <2>3. CASE ~call[p].gate
    BY <1>2, <2>1, <2>3
  <2> QED
    BY <2>2, <2>3
<1>7. Facts'
  <2>1. Typed'
    BY <1>2, <1>6, Before DEF Typed
  <2>2. Mapped'
    BY <1>2, Before, Zenon DEF Facts, Mapped
  <2>3. Noted'
    BY <1>2, <1>6, Before DEF Facts, Noted, Kept
  <2>4. Known'
    BY <1>2, <1>3, <1>6, Before DEF Facts, Known, Kept
  <2> QED
    BY <2>1, <2>2, <2>3, <2>4 DEF Facts
<1>8. \/ step = "look" /\ t \in Placeholders
      \/ step = "store" /\ (~call[p].gate \/ t \notin Placeholders)
  BY DEF TurnsBack
<1> HIDE DEF t, step
<1>9. step \in Steps
  BY <1>8 DEF Steps, Away
<1>10. Formed(step, c)
  BY <1>1, <1>4, <1>5, <1>8, Before DEF Formed
<1>11. Hides(step, c, records')
  BY <1>8 DEF Hides, OnItsWay
<1>12. Backed(step, c, secret, excused', DOMAIN Loaded')
  <2>1. CASE step = "look"
    BY <1>3, <1>4, <1>5, <1>6, <2>1 DEF Backed, OnItsWay, Kept
  <2>2. CASE step = "store"
    <3>1. Kept(t, excused')
      <4>1. CASE ~call[p].gate
        BY <1>4, <1>6, <4>1 DEF Kept
      <4>2. CASE t \notin Placeholders
        BY <4>2 DEF Kept, Reads
      <4> QED
        BY <1>8, <2>2, <4>1, <4>2
    <3> QED
      BY <1>5, <2>2, <3>1 DEF Backed, OnItsWay
  <2> QED
    BY <1>8, <2>1, <2>2
<1>13. /\ secret' = secret /\ records \subseteq records'
       /\ DOMAIN Loaded \subseteq DOMAIN Loaded'
  BY <1>2, <1>3
<1> QED
  BY <1>1, <1>5, <1>6, <1>7, <1>9, <1>10, <1>11, <1>12, <1>13, StepKeeps

(* Looking into the vault, or failing to, keeps the invariant of the redaction. *)
LEMMA LookHolds ==
    ASSUME PInv, NEW p \in Procs, Look(p) \/ LookFails(p)
    PROVE  Facts' /\ Calls'
<1>0. IsCall(call[p]) /\ pc[p] = "look"
  BY Before DEF Look, LookFails
<1>1. PICK view, blind :
        /\ Goto(p, "match", Viewed(call[p], view, blind))
        /\ view = Loaded \/ (view = <<>> /\ blind = TRUE)
  BY DEF Look, LookFails, ReadFails, Viewed
<1> DEFINE c == Viewed(call[p], view, blind)
<1>2. /\ Facts' /\ Loaded' = Loaded /\ secret' = secret /\ records' = records
      /\ excused' = excused
  BY ReadFacts
<1>3. /\ c.kind = call[p].kind /\ c.text = call[p].text /\ c.cached = call[p].cached
      /\ c.view = view /\ c.blind = blind /\ IsCall(c)
  BY <1>0, ReadIsCall
<1>4. Goto(p, "match", c)
  BY <1>1
<1> HIDE DEF c
<1>5. "match" \in Steps
  BY DEF Steps, Away
<1>6. Formed("match", c) /\ Hides("match", c, records)
  BY <1>0, <1>3, Before DEF Formed, Hides, OnItsWay
<1>7. Kept(call[p].text, excused \cup DOMAIN Loaded)
  BY <1>0, Before DEF Backed
<1>8. Backed("match", c, secret, excused, DOMAIN Loaded)
  <2>1. CASE view = Loaded
    BY <1>3, <1>7, <2>1, LoadedMap DEF Backed, OnItsWay
  <2>2. CASE view = <<>> /\ blind = TRUE
    <3>1. DOMAIN c.view = {}
      BY <1>3, <2>2
    <3> QED
      BY <1>3, <2>2, <3>1 DEF Backed, OnItsWay
  <2> QED
    BY <1>1, <2>1, <2>2
<1> QED
  BY <1>2, <1>3, <1>4, <1>5, <1>6, <1>8, StepKeeps

(* A placeholder that was promised back becomes a value. *)
LEMMA MatchHolds == ASSUME PInv, NEW p \in Procs, Match(p) PROVE Facts' /\ Calls'
<1>1. PICK t \in Rehydrated(call[p].text, call[p].view, records) :
        /\ Goto(p, IF call[p].kind = "mcp" THEN "tool" ELSE "store",
                [call[p] EXCEPT !.text = t, !.view = <<>>,
                                !.known = IF call[p].kind = "mcp" THEN records ELSE {}])
        /\ excused' = IF call[p].blind THEN excused \cup ({t} \cap Placeholders) ELSE excused
  BY DEF Match
<1> DEFINE k == IF call[p].kind = "mcp" THEN records ELSE {}
<1> DEFINE c1 == [call[p] EXCEPT !.text = t]
<1> DEFINE c2 == [c1 EXCEPT !.view = <<>>]
<1> DEFINE c == [c2 EXCEPT !.known = k]
<1> DEFINE step == IF call[p].kind = "mcp" THEN "tool" ELSE "store"
<1>2. Goto(p, step, c) /\ pc[p] = "match"
  BY <1>1 DEF Match
<1> HIDE DEF k
<1>3. /\ c.kind = call[p].kind /\ c.text = t /\ c.cached = call[p].cached /\ IsCall(c)
  <2>0. IsCall(call[p])
    BY Before
  <2>1. c1.kind = call[p].kind /\ c1.text = t /\ c1.cached = call[p].cached /\ IsCall(c1)
    BY <2>0 DEF IsCall
  <2> HIDE DEF c1
  <2>2. c2.kind = call[p].kind /\ c2.text = t /\ c2.cached = call[p].cached /\ IsCall(c2)
    BY <2>1 DEF IsCall
  <2> HIDE DEF c2
  <2> QED
    BY <2>2 DEF IsCall
<1>4. /\ records' = records /\ notes' = notes /\ secret' = secret /\ enabled' = enabled
      /\ strict' = strict /\ vault' = vault /\ faults' = faults /\ shown' = shown
      /\ excused \subseteq excused' /\ excused' \subseteq excused \cup Placeholders
      /\ (call[p].blind /\ t \in Placeholders) => t \in excused'
  <2>1. CASE call[p].blind
    BY <1>1, <2>1 DEF Match, data, config
  <2>2. CASE ~call[p].blind
    BY <1>1, <2>2 DEF Match, data, config
  <2> QED
    BY <2>1, <2>2
<1> HIDE DEF c
<1>5. \/ step = "tool" /\ call[p].kind = "mcp"
      \/ step = "store"
  OBVIOUS
<1> HIDE DEF step
<1>6. step \in Steps
  BY <1>5 DEF Steps, Away
<1>7. t \in Tokens /\ Kept(t, excused')
  <2>0. CASE t \in Placeholders /\ call[p].blind
    BY <1>4, <2>0, TokensApart DEF Kept
  <2>1. /\ ~call[p].blind => Kept(call[p].text, excused \cup DOMAIN call[p].view)
        /\ \A ph \in DOMAIN call[p].view : call[p].view[ph] \in Values
        /\ call[p].text \in Tokens
    BY <1>2, Before DEF Backed, Formed
  <2>2. CASE t \in Values
    BY <2>2, TokensApart DEF Kept, Reads
  <2>3. CASE t = call[p].text /\ ~Reads(call[p].text)
    BY <2>1, <2>3 DEF Kept
  <2>4. CASE t = call[p].text /\ call[p].text \notin DOMAIN call[p].view
    <3>1. CASE call[p].blind
      BY <1>4, <2>1, <2>4, <3>1 DEF Kept, Reads
    <3>2. CASE ~call[p].blind
      BY <1>4, <2>1, <2>4, <3>2 DEF Kept
    <3> QED
      BY <3>1, <3>2
  <2>5. CASE t \in records
    BY <2>2, <2>5, Before DEF Typed, Recorded, Values
  <2> QED
    BY <2>1, <2>2, <2>3, <2>4, <2>5 DEF Rehydrated
<1>8. Formed(step, c)
  BY <1>2, <1>3, <1>5, <1>7, Before DEF Formed
<1>9. Hides(step, c, records')
  BY <1>5 DEF Hides, OnItsWay
<1>10. Backed(step, c, secret, excused', DOMAIN Loaded')
  BY <1>3, <1>5, <1>7 DEF Backed, OnItsWay
<1>11. Loaded' = Loaded
  BY <1>4 DEF Loaded
<1>12. Facts'
  <2>0. Facts /\ Typed /\ excused \subseteq Placeholders
    BY Before DEF Typed
  <2>1. Typed'
    <3>1. excused' \subseteq Placeholders
      BY <1>4, <2>0
    <3> QED
      BY <1>4, <2>0, <3>1, Zenon DEF Typed
  <2>2. Mapped'
    BY <1>4, <2>0, Zenon DEF Facts, Mapped
  <2>3. Noted'
    BY <1>4, <2>0 DEF Facts, Noted, Kept
  <2>4. Known'
    BY <1>4, <1>11, <2>0 DEF Facts, Known, Kept
  <2> QED
    BY <2>1, <2>2, <2>3, <2>4 DEF Facts
<1>13. /\ secret' = secret /\ records \subseteq records' /\ excused \subseteq excused'
       /\ excused \cup DOMAIN Loaded \subseteq excused' \cup DOMAIN Loaded'
  BY <1>4, <1>11
<1> QED
  BY <1>2, <1>3, <1>6, <1>8, <1>9, <1>10, <1>12, <1>13, StepKeeps

(* Store keeps the invariant of the redaction.                             *)
LEMMA StoreHolds == ASSUME PInv, NEW p \in Procs, Store(p) PROVE Facts' /\ Calls'
<1>1. /\ records' = records /\ secret' = secret /\ enabled' = enabled
      /\ strict' = strict /\ vault' = vault /\ faults' = faults /\ excused' = excused
      /\ shown' = shown /\ notes' = notes \cup {call[p].text} /\ pc[p] = "store"
  BY DEF Store, config
<1>2. Loaded' = Loaded
  BY <1>1 DEF Loaded
<1>3. call[p].text \in Tokens /\ Kept(call[p].text, excused)
  BY <1>1, Before DEF Formed, Backed
<1>4. Facts'
  <2>1. Typed'
    BY <1>1, <1>3, Before DEF Typed
  <2>2. Mapped'
    BY <1>1, Before, Zenon DEF Facts, Mapped
  <2>3. Noted' /\ Known'
    BY <1>1, <1>2, <1>3, Before DEF Facts, Noted, Known
  <2> QED
    BY <2>1, <2>2, <2>3 DEF Facts
<1>5. Goto(p, "idle", Idle) /\ "idle" \in Steps
  BY DEF Store, Done, Steps, Away
<1>6. /\ secret' = secret /\ records \subseteq records' /\ excused \subseteq excused'
      /\ DOMAIN Loaded \subseteq DOMAIN Loaded'
  BY <1>1, <1>2
<1> QED
  BY <1>4, <1>5, <1>6, IdleIsFine, StepKeeps

(* What a tool returns is something of what is stored then. *)
LEMMA ToolHolds == ASSUME PInv, NEW p \in Procs, Tool(p) PROVE Facts' /\ Calls'
<1>1. /\ secret' = secret /\ enabled' = enabled
      /\ strict' = strict /\ vault' = vault /\ faults' = faults /\ excused' = excused
      /\ shown' = shown /\ pc[p] = "tool"
      /\ \/ notes' = notes \cup {call[p].text} /\ records' = records
         \/ /\ call[p].text \in Recorded
            /\ records' = records \cup {call[p].text} /\ notes' = notes
  BY DEF Tool, config
<1>2. Loaded' = Loaded
  BY <1>1 DEF Loaded
<1>3. call[p].text \in Tokens /\ Kept(call[p].text, excused)
  BY <1>1, Before DEF Formed, Backed
<1>4. Facts'
  <2>1. Typed'
    <3>1. records' \subseteq Recorded /\ notes' \subseteq Tokens
      BY <1>1, <1>3, Before DEF Typed
    <3> QED
      BY <1>1, <3>1, Before, Zenon DEF Typed
  <2>2. Mapped'
    BY <1>1, Before, Zenon DEF Facts, Mapped
  <2>3. Noted' /\ Known'
    BY <1>1, <1>2, <1>3, Before DEF Facts, Noted, Known
  <2> QED
    BY <2>1, <2>2, <2>3 DEF Facts
<1>5. PICK t \in records' \cup notes' :
        Goto(p, IF call[p].gate THEN "collect" ELSE "leave",
             [call[p] EXCEPT !.text = t, !.held = t \in records'])
  BY DEF Tool
<1> DEFINE h == t \in records'
<1> DEFINE c1 == [call[p] EXCEPT !.text = t]
<1> DEFINE c == [c1 EXCEPT !.held = h]
<1> DEFINE step == IF call[p].gate THEN "collect" ELSE "leave"
<1>6. Goto(p, step, c) /\ (h => t \in records')
  BY <1>5
<1> HIDE DEF h
<1>7. /\ c.kind = call[p].kind /\ c.text = t /\ c.cached = call[p].cached
      /\ c.gate = call[p].gate /\ c.held = h /\ IsCall(c)
  <2>0. IsCall(call[p])
    BY Before
  <2>1. /\ c1.kind = call[p].kind /\ c1.text = t /\ c1.cached = call[p].cached
        /\ c1.gate = call[p].gate /\ IsCall(c1)
    BY <2>0 DEF IsCall
  <2> HIDE DEF c1
  <2>2. /\ c.kind = c1.kind /\ c.text = c1.text /\ c.cached = c1.cached
        /\ c.gate = c1.gate /\ c.held = h
    BY <2>1 DEF IsCall
  <2>3. IsCall(c)
    BY <2>1 DEF IsCall
  <2> QED
    BY <2>1, <2>2, <2>3
<1> HIDE DEF c
<1>8. \/ step = "collect"
      \/ step = "leave" /\ ~call[p].gate
  OBVIOUS
<1> HIDE DEF step
<1>9. step \in Steps
  BY <1>8 DEF Steps, Away
<1>10. t \in Tokens /\ Kept(t, excused)
  <2>1. CASE t \in notes'
    BY <1>1, <1>4, <2>1 DEF Facts, Typed, Noted
  <2>2. CASE t \in records'
    <3>1. t \in Values
      BY <1>4, <2>2 DEF Facts, Typed, Recorded, Values
    <3> QED
      BY <3>1, TokensApart DEF Kept, Reads
  <2> QED
    BY <2>1, <2>2
<1>11. call[p].cached = None /\ None \notin Values
  BY <1>1, Before DEF Formed
<1>12. Formed(step, c)
  BY <1>1, <1>7, <1>8, <1>10, <1>11, Before DEF Formed
<1>13. Hides(step, c, records')
  BY <1>6, <1>7, <1>11 DEF Hides, Shapes, Values
<1>14. Kept(None, excused \cup DOMAIN Loaded)
  BY TokensApart DEF Kept, Reads
<1>15. Backed(step, c, secret, excused', DOMAIN Loaded')
  BY <1>1, <1>2, <1>7, <1>8, <1>10, <1>11, <1>14 DEF Backed, OnItsWay
<1>16. /\ secret' = secret /\ records \subseteq records' /\ excused \subseteq excused'
       /\ DOMAIN Loaded \subseteq DOMAIN Loaded'
  BY <1>1, <1>2
<1> QED
  BY <1>4, <1>6, <1>7, <1>9, <1>12, <1>13, <1>15, <1>16, StepKeeps

(* Arrive keeps the invariant of the redaction.                            *)
LEMMA ArriveHolds == ASSUME PInv, NEW p \in Procs, Arrive(p) PROVE Facts' /\ Calls'
<1>1. PICK kind \in {"mcp", "import"}, t \in Inputs \cup (shown \cap Placeholders) :
        LET gate == kind = "import" \/ enabled
        IN  /\ Goto(p, IF gate /\ t \in Placeholders THEN "look"
                       ELSE IF kind = "mcp" THEN "tool" ELSE "store",
                    [Idle EXCEPT !.kind = kind, !.text = t, !.gate = gate])
            /\ excused' = IF gate THEN excused ELSE excused \cup ({t} \cap Placeholders)
  BY DEF Arrive
<1> DEFINE g == kind = "import" \/ enabled
<1> DEFINE c1 == [Idle EXCEPT !.kind = kind]
<1> DEFINE c2 == [c1 EXCEPT !.text = t]
<1> DEFINE c == [c2 EXCEPT !.gate = g]
<1> DEFINE step == IF g /\ t \in Placeholders THEN "look"
                   ELSE IF kind = "mcp" THEN "tool" ELSE "store"
<1>2. /\ Goto(p, step, c)
      /\ excused' = IF g THEN excused ELSE excused \cup ({t} \cap Placeholders)
  BY <1>1
<1>3. /\ records' = records /\ notes' = notes /\ secret' = secret /\ enabled' = enabled
      /\ strict' = strict /\ vault' = vault /\ faults' = faults /\ shown' = shown
  BY DEF Arrive, data, config
<1>4. Loaded' = Loaded
  BY <1>3 DEF Loaded
<1> HIDE DEF g
<1>5. /\ c.kind = kind /\ c.text = t /\ c.cached = None /\ IsCall(c)
  <2>1. c1.kind = kind /\ c1.cached = None /\ IsCall(c1)
    <3>1. IsCall(Idle) /\ Idle.cached = None
      BY IdleIsCall DEF Idle
    <3> QED
      BY <3>1 DEF IsCall
  <2> HIDE DEF c1
  <2>2. c2.kind = kind /\ c2.text = t /\ c2.cached = None /\ IsCall(c2)
    BY <2>1 DEF IsCall
  <2> HIDE DEF c2
  <2> QED
    BY <2>2 DEF IsCall
<1> HIDE DEF c
<1>6. excused \subseteq excused' /\ excused' \subseteq Placeholders
  <2>1. excused \subseteq Placeholders
    BY Before DEF Typed
  <2>2. CASE g
    BY <1>2, <2>1, <2>2
  <2>3. CASE ~g
    BY <1>2, <2>1, <2>3
  <2> QED
    BY <2>2, <2>3
<1>7. Facts'
  <2>1. Typed'
    BY <1>3, <1>6, Before DEF Typed
  <2>2. Mapped'
    BY <1>3, Before, Zenon DEF Facts, Mapped
  <2>3. Noted'
    BY <1>3, <1>6, Before DEF Facts, Noted, Kept
  <2>4. Known'
    BY <1>3, <1>4, <1>6, Before DEF Facts, Known, Kept
  <2> QED
    BY <2>1, <2>2, <2>3, <2>4 DEF Facts
<1>8. \/ step = "look" /\ t \in Placeholders
      \/ step \in {"tool", "store"} /\ (~g \/ t \notin Placeholders)
  BY DEF step
<1> HIDE DEF step
<1>9. step \in Steps
  BY <1>8 DEF Steps, Away
<1>10. t \in Tokens /\ (t \in Placeholders => t \in shown)
  BY TokensApart, Before DEF Typed
<1>11. Formed(step, c)
  BY <1>5, <1>8, <1>10 DEF Formed, Kinds
<1>12. Hides(step, c, records')
  BY <1>8 DEF Hides, OnItsWay
<1>13. Backed(step, c, secret, excused', DOMAIN Loaded')
  <2>1. CASE step = "look"
    <3>1. Kept(t, excused \cup DOMAIN Loaded)
      BY <1>10, Before DEF Facts, Known, Kept, Reads
    <3> QED
      BY <1>4, <1>5, <1>6, <2>1, <3>1 DEF Backed, OnItsWay, Kept
  <2>2. CASE step \in {"tool", "store"}
    <3>1. Kept(t, excused')
      <4>1. CASE ~g
        BY <1>2, <4>1 DEF Kept, Reads
      <4>2. CASE t \notin Placeholders
        BY <4>2 DEF Kept, Reads
      <4> QED
        BY <1>8, <2>2, <4>1, <4>2
    <3> QED
      BY <1>5, <2>2, <3>1 DEF Backed, OnItsWay
  <2> QED
    BY <1>8, <2>1, <2>2
<1>14. /\ secret' = secret /\ records \subseteq records'
       /\ DOMAIN Loaded \subseteq DOMAIN Loaded'
  BY <1>3, <1>4
<1> QED
  BY <1>2, <1>5, <1>6, <1>7, <1>9, <1>11, <1>12, <1>13, <1>14, StepKeeps

(* Compose keeps the invariant of the redaction.                           *)
LEMMA ComposeHolds == ASSUME PInv, NEW p \in Procs, Compose(p) PROVE Facts' /\ Calls'
<1>1. PICK kind \in {"chain", "export"}, t \in records \cup notes :
        Goto(p, "gate", [Idle EXCEPT !.kind = kind, !.text = t, !.held = t \in records])
  BY DEF Compose
<1> DEFINE h == t \in records
<1> DEFINE c1 == [Idle EXCEPT !.kind = kind]
<1> DEFINE c2 == [c1 EXCEPT !.text = t]
<1> DEFINE c == [c2 EXCEPT !.held = h]
<1>2. Goto(p, "gate", c) /\ (h => t \in records)
  BY <1>1
<1>3. Facts' /\ secret' = secret /\ records \subseteq records' /\ excused \subseteq excused'
      /\ DOMAIN Loaded \subseteq DOMAIN Loaded' /\ records' = records /\ excused' = excused
      /\ Loaded' = Loaded
  BY Before, StillFacts DEF Compose
<1> HIDE DEF h
<1>4. c.kind = kind /\ c.text = t /\ c.cached = None /\ c.held = h /\ IsCall(c)
  <2>1. c1.kind = kind /\ c1.cached = None /\ IsCall(c1)
    <3>1. IsCall(Idle) /\ Idle.cached = None
      BY IdleIsCall DEF Idle
    <3> QED
      BY <3>1 DEF IsCall
  <2> HIDE DEF c1
  <2>2. c2.kind = kind /\ c2.text = t /\ c2.cached = None /\ IsCall(c2)
    BY <2>1 DEF IsCall
  <2> HIDE DEF c2
  <2> QED
    BY <2>2 DEF IsCall
<1> HIDE DEF c
<1>5. t \in Tokens /\ Kept(t, excused)
  <2>1. CASE t \in notes
    BY <2>1, Before DEF Facts, Typed, Noted
  <2>2. CASE t \in records
    <3>1. t \in Values
      BY <2>2, Before DEF Typed, Recorded, Values
    <3> QED
      BY <3>1, TokensApart DEF Kept, Reads
  <2> QED
    BY <2>1, <2>2
<1>6. "gate" \in Steps
  BY DEF Steps, Away
<1>7. Formed("gate", c)
  BY <1>4, <1>5 DEF Formed, Kinds
<1>8. Hides("gate", c, records)
  BY <1>2, <1>4 DEF Hides, Shapes, Values
<1>9. Kept(None, excused \cup DOMAIN Loaded)
  BY TokensApart DEF Kept, Reads
<1>10. Backed("gate", c, secret, excused, DOMAIN Loaded)
  BY <1>4, <1>5, <1>9 DEF Backed, OnItsWay
<1> QED
  BY <1>2, <1>3, <1>4, <1>6, <1>7, <1>8, <1>10, StepKeeps

(* Crash keeps the invariant of the redaction.                             *)
LEMMA CrashHolds == ASSUME PInv, NEW p \in Procs, Crash(p) PROVE Facts' /\ Calls'
<1>1. /\ records' = records /\ notes' = notes /\ secret' = secret /\ enabled' = enabled
      /\ strict' = strict /\ vault' = vault /\ shown' = shown /\ excused' = excused
      /\ faults' = faults + 1 /\ faults < MaxFaults
  BY DEF Crash, data, config
<1>2. Loaded' = Loaded
  BY <1>1 DEF Loaded
<1>3. Facts'
  <2>1. faults' \in 0 .. MaxFaults /\ secret' \in 1 .. faults' + 1
    BY <1>1, Before DEF Typed
  <2>2. Typed'
    BY <1>1, <2>1, Before, Zenon DEF Typed
  <2>3. Mapped' /\ Noted' /\ Known'
    BY <1>1, <1>2, Before, Zenon DEF Facts, Mapped, Noted, Known
  <2> QED
    BY <2>2, <2>3 DEF Facts
<1>4. Goto(p, "idle", Idle) /\ "idle" \in Steps
  BY DEF Crash, Done, Steps, Away
<1>5. /\ secret' = secret /\ records \subseteq records' /\ excused \subseteq excused'
      /\ DOMAIN Loaded \subseteq DOMAIN Loaded'
  BY <1>1, <1>2
<1> QED
  BY <1>3, <1>4, <1>5, IdleIsFine, StepKeeps

-----------------------------------------------------------------------------
(* What happens meanwhile. *)
LEMMA EditHolds ==
    ASSUME PInv, AddRecord \/ SetPrivacy \/ UNCHANGED vars
    PROVE  Facts' /\ Calls'
<1>1. /\ notes' = notes /\ secret' = secret /\ vault' = vault /\ shown' = shown
      /\ faults' = faults /\ excused' = excused /\ pc' = pc /\ call' = call
      /\ records \subseteq records' /\ records' \subseteq records \cup Recorded
      /\ (enabled \in BOOLEAN => enabled' \in BOOLEAN)
      /\ (strict \in BOOLEAN => strict' \in BOOLEAN)
  <2>1. CASE AddRecord
    BY <2>1 DEF AddRecord, Edit
  <2>2. CASE SetPrivacy
    BY <2>2 DEF SetPrivacy, Edit
  <2>3. CASE UNCHANGED vars
    BY <2>3 DEF vars, data, config
  <2> QED
    BY <2>1, <2>2, <2>3
<1>2. Loaded' = Loaded
  BY <1>1 DEF Loaded
<1>3. PInv /\ Facts /\ Typed /\ Calls
  BY DEF PInv, Facts
<1>4. Typed'
  <2>1. records' \subseteq Recorded
    BY <1>1, <1>3 DEF Typed
  <2> QED
    BY <1>1, <1>3, <2>1, Zenon DEF Typed
<1>5. Mapped' /\ Noted' /\ Known'
  BY <1>1, <1>2, <1>3, Zenon DEF Facts, Mapped, Noted, Known
<1>6. Calls'
  <2> SUFFICES ASSUME NEW q \in Procs
               PROVE  /\ Formed(pc[q], call[q])
                      /\ Hides(pc[q], call[q], records')
                      /\ Backed(pc[q], call[q], secret, excused, DOMAIN Loaded)
    BY <1>1, <1>2 DEF Calls
  <2>1. /\ Formed(pc[q], call[q])
        /\ Hides(pc[q], call[q], records)
        /\ Backed(pc[q], call[q], secret, excused, DOMAIN Loaded)
    BY <1>3 DEF Calls
  <2> QED
    BY <1>1, <2>1, OthersKeep
<1> QED
  BY <1>4, <1>5, <1>6 DEF Facts

(* A text that named the deleted record names it no longer. *)
LEMMA DeleteHolds == ASSUME PInv, DeleteRecord PROVE Facts' /\ Calls'
<1>1. PICK v \in records :
        /\ records' = records \ {v}
        /\ call' = [p \in Procs |-> IF call[p].text = v THEN [call[p] EXCEPT !.held = FALSE]
                                    ELSE call[p]]
  BY DEF DeleteRecord
<1>2. /\ notes' = notes /\ secret' = secret /\ vault' = vault /\ shown' = shown
      /\ faults' = faults /\ excused' = excused /\ pc' = pc
      /\ enabled' = enabled /\ strict' = strict
  BY DEF DeleteRecord, Edit
<1>3. Loaded' = Loaded
  BY <1>2 DEF Loaded
<1>4. PInv /\ Facts /\ Typed /\ Calls
  BY DEF PInv, Facts
<1>5. Typed'
  <2>1. records' \subseteq Recorded
    BY <1>1, <1>4 DEF Typed
  <2> QED
    BY <1>2, <1>4, <2>1, Zenon DEF Typed
<1>6. Mapped' /\ Noted' /\ Known'
  BY <1>2, <1>3, <1>4, Zenon DEF Facts, Mapped, Noted, Known
<1>7. ASSUME NEW q \in Procs
      PROVE  /\ Formed(pc[q], call'[q])
             /\ Hides(pc[q], call'[q], records')
             /\ Backed(pc[q], call'[q], secret, excused, DOMAIN Loaded)
  <2>1. IsCall(call[q]) /\ Formed(pc[q], call[q]) /\ Hides(pc[q], call[q], records)
        /\ Backed(pc[q], call[q], secret, excused, DOMAIN Loaded)
    BY <1>4, Before
  <2>2. CASE call[q].text # v
    <3>1. call'[q] = call[q]
      BY <1>1, <2>2
    <3>2. Hides(pc[q], call[q], records')
      BY <1>1, <2>1, <2>2 DEF Hides
    <3> QED
      BY <2>1, <3>1, <3>2
  <2>3. CASE call[q].text = v
    <3> DEFINE c == [call[q] EXCEPT !.held = FALSE]
    <3>1. call'[q] = c
      BY <1>1, <2>3
    <3>2. c.kind = call[q].kind /\ c.text = call[q].text /\ c.cached = call[q].cached
      BY <2>1 DEF IsCall
    <3>3. /\ c.value = call[q].value /\ c.view = call[q].view /\ c.gate = call[q].gate
          /\ c.blind = call[q].blind
      BY <2>1 DEF IsCall
    <3>4. ~c.held
      BY <2>1 DEF IsCall
    <3> HIDE DEF c
    <3>5. Formed(pc[q], c)
      BY <2>1, <3>2, <3>3 DEF Formed
    <3>6. Hides(pc[q], c, records')
      BY <2>1, <3>2, <3>4 DEF Hides
    <3>7. Backed(pc[q], c, secret, excused, DOMAIN Loaded)
      BY <2>1, <3>2, <3>3 DEF Backed
    <3> QED
      BY <3>1, <3>5, <3>6, <3>7
  <2> QED
    BY <2>2, <2>3
<1>8. Calls'
  BY <1>2, <1>3, <1>7 DEF Calls
<1> QED
  BY <1>5, <1>6, <1>8 DEF Facts

(* A new secret: what was made under an earlier one is excused. *)
LEMMA RotateHolds == ASSUME PInv, Rotate PROVE Facts' /\ Calls'
<1>1. /\ records' = records /\ notes' = notes /\ enabled' = enabled /\ strict' = strict
      /\ vault' = vault /\ shown' = shown
      /\ faults < MaxFaults /\ faults' = faults + 1 /\ secret' = secret + 1
      /\ excused' = excused \cup {ph \in Placeholders : ph[1] <= secret}
      /\ pc' = [p \in Procs |-> "idle"] /\ call' = [p \in Procs |-> Idle]
  BY DEF Rotate, data
<1>2. PInv /\ Facts /\ Typed /\ Mapped /\ Noted /\ Known
  BY DEF PInv, Facts
<1>3. Typed'
  <2>1. faults' \in 0 .. MaxFaults /\ secret' \in 1 .. faults' + 1
    BY <1>1, <1>2 DEF Typed
  <2>2. excused' \subseteq Placeholders
    BY <1>1, <1>2 DEF Typed
  <2> QED
    BY <1>1, <1>2, <2>1, <2>2, Zenon DEF Typed
<1>4. Mapped'
  <2>1. vault.secret \in 1 .. secret'
    BY <1>1, <1>2 DEF Typed, Mapped
  <2> QED
    BY <1>1, <1>2, <2>1 DEF Mapped
<1>5. Noted'
  BY <1>1, <1>2 DEF Noted, Kept
<1>6. Known'
  <2> SUFFICES ASSUME NEW t \in shown, Reads(t) PROVE t \in excused'
    BY <1>1 DEF Known, Kept
  <2>1. t \in excused \/ t \in DOMAIN Loaded
    BY <1>2 DEF Known, Kept
  <2>2. ASSUME t \in DOMAIN Loaded PROVE t \in excused'
    <3>1. vault.secret = secret /\ t \in DOMAIN vault.map
      <4>1. CASE vault.secret = secret
        BY <2>2, <4>1 DEF Loaded
      <4>2. CASE vault.secret # secret
        <5>1. DOMAIN Loaded = {}
          BY <4>2 DEF Loaded
        <5> QED
          BY <2>2, <5>1
      <4> QED
        BY <4>1, <4>2
    <3>2. t = <<secret, Fold[vault.map[t]]>>
      BY <1>2, <3>1 DEF Mapped
    <3>3. t[1] = secret /\ secret \in Nat
      BY <1>2, <3>2 DEF Typed
    <3>4. t[1] <= secret
      BY <3>3
    <3> QED
      BY <1>1, <3>4 DEF Reads
  <2> QED
    BY <1>1, <2>1, <2>2
<1>7. Calls'
  BY <1>1, IdleIsFine DEF Calls
<1> QED
  BY <1>3, <1>4, <1>5, <1>6, <1>7 DEF Facts

(* The invariant of the redaction holds at the start.                      *)
LEMMA PInitially == Init => PInv
<1> SUFFICES ASSUME Init PROVE PInv
  OBVIOUS
<1>1. /\ records \in {{}} \cup {{v} : v \in Recorded}
      /\ notes \in {{v} : v \in Values}
      /\ enabled = TRUE /\ strict \in BOOLEAN /\ secret = 1
      /\ vault = [secret |-> 1, map |-> <<>>]
      /\ pc = [p \in Procs |-> "idle"] /\ call = [p \in Procs |-> Idle]
      /\ shown = {} /\ faults = 0 /\ excused = {}
  BY DEF Init
<1>2. Typed
  <2>1. records \subseteq Recorded
    BY <1>1
  <2>2. notes \subseteq Tokens
    BY <1>1 DEF Tokens
  <2> QED
    BY <1>1, <2>1, <2>2 DEF Typed
<1>3. Mapped
  <2>1. vault.secret = 1 /\ vault.map = <<>>
    BY <1>1
  <2>2. DOMAIN vault.map = {}
    BY <2>1
  <2> QED
    BY <1>1, <2>1, <2>2 DEF Mapped
<1>4. Noted /\ Known
  BY <1>1, TokensApart DEF Noted, Known, Kept, Reads
<1>5. Calls
  BY <1>1, IdleIsFine DEF Calls
<1> QED
  BY <1>2, <1>3, <1>4, <1>5, Initially DEF PInv, Facts

(* Every step keeps the invariant of the redaction.                        *)
LEMMA PInductive == PInv /\ [Next]_vars => PInv'
<1> SUFFICES ASSUME PInv, [Next]_vars PROVE PInv'
  OBVIOUS
<1>1. IInv'
  BY Inductive DEF PInv
<1>2. Facts' /\ Calls'
  <2>1. ASSUME NEW p \in Procs, Arrive(p) \/ Compose(p) \/ Step(p) \/ Crash(p)
        PROVE  Facts' /\ Calls'
    BY <2>1, ArriveHolds, ComposeHolds, CrashHolds, GateHolds, CollectHolds, LockHolds,
       ReadHolds, WriteHolds, FailHolds, LeaveHolds, NextHolds, AnswerHolds, LookHolds,
       MatchHolds, StoreHolds, ToolHolds
       DEF Step
  <2> QED
    BY <2>1, EditHolds, DeleteHolds, RotateHolds DEF Next
<1> QED
  BY <1>1, <1>2 DEF PInv

(* The invariant of the redaction always holds.                            *)
LEMMA PInvariant == Spec => []PInv
  BY PInitially, PInductive, PTL DEF Spec

(* Every placeholder an AI was shown can be turned back, and is when text  *)
(* comes in (privacy.py:767-795), but for those `excused` holds: those     *)
(* whose write failed, dropped by a write that could not read the vault,   *)
(* of an earlier secret, or met while redaction was off or the vault not   *)
(* readable.                                                               *)
THEOREM ValuesAreTurnedBack == Spec => []ValuesComeBack
<1>1. PInv => ValuesComeBack
  <2> SUFFICES ASSUME PInv PROVE ValuesComeBack
    OBVIOUS
  <2>1. Typed /\ Mapped /\ Noted /\ Known /\ IInv
    BY DEF PInv, Facts
  <2>2. TypeOK
    <3>1. secret \in 1 .. MaxFaults + 1
      BY <2>1 DEF Typed
    <3>2. DOMAIN vault.map \subseteq Placeholders
      <4> SUFFICES ASSUME NEW ph \in DOMAIN vault.map PROVE ph \in Placeholders
        OBVIOUS
      <4>1. vault.map[ph] \in Values /\ ph = <<vault.secret, Fold[vault.map[ph]]>>
        BY <2>1 DEF Mapped
      <4>2. vault.secret \in 1 .. MaxFaults + 1
        BY <2>1, <3>1 DEF Mapped
      <4> QED
        BY <4>1, <4>2, FoldsAreMade DEF Placeholders
    <3>3. Range(vault.map) \subseteq Tokens
      BY <2>1, TokensApart DEF Mapped, Range
    <3>4. lock \in Procs \cup {None}
      BY <2>1 DEF IInv, Holder
    <3>5. \A p \in Procs : call[p].kind \in Kinds \cup {None}
                           /\ call[p].text \in Tokens \cup {None}
      BY Before DEF Formed
    <3> QED
      BY <2>1, <3>1, <3>2, <3>3, <3>4, <3>5 DEF TypeOK, Typed, Mapped
  <2>3. ComesBack
    <3> SUFFICES ASSUME NEW ph \in (shown \cap Placeholders) \ excused, Reads(ph)
                 PROVE  Resolves(ph)
      BY DEF ComesBack
    <3>1. ph \in DOMAIN Loaded
      BY <2>1 DEF Known, Kept
    <3>2. CASE vault.secret = secret
      <4>1. ph = <<secret, Fold[Loaded[ph]]>>
        BY <2>1, <3>1, <3>2 DEF Loaded, Mapped
      <4>2. ph[2] = Fold[Loaded[ph]]
        BY <4>1
      <4> QED
        BY <3>1, <4>2 DEF Resolves
    <3>3. CASE vault.secret # secret
      <4>1. DOMAIN Loaded = {}
        BY <3>3 DEF Loaded
      <4> QED
        BY <3>1, <4>1
    <3> QED
      BY <3>2, <3>3
  <2>4. RealValuesStored
    BY <2>1 DEF RealValuesStored, Noted, Kept
  <2> QED
    BY <2>2, <2>3, <2>4 DEF ValuesComeBack
<1> QED
  BY <1>1, PInvariant, PTL

(* While redaction is on, no text leaves with a value of a recognised      *)
(* shape, a sensitive sentence, or a name some row held from the moment    *)
(* the text was built (privacy.py:683-757).                                *)
THEOREM NothingIsSentClear == Spec => []NothingLeaves
<1>1. PInv => NothingLeaves
  BY Before DEF NothingLeaves, Hides, OnItsWay, Shapes
<1> QED
  BY <1>1, PInvariant, PTL
=============================================================================
