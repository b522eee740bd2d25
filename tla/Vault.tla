--------------------------------- MODULE Vault ---------------------------------
(* What an AI is shown instead of a person's data, and how it comes back         *)
(* (privacy.py).  A text on its way out has its identifiers replaced by          *)
(* placeholders, which one encrypted file, the vault, maps back; a text on its   *)
(* way in has its placeholders replaced by the values.  Three parts of the       *)
(* application do it: every tool of the MCP server, in then out; a call of the   *)
(* provider chain, out then in; the export and import of the manual mode.        *)
(*                                                                               *)
(* A text is one token: a value, a placeholder, or the marker left for a         *)
(* sentence that was stripped.  A process takes its locks and reads its rows     *)
(* between the steps of the others.                                              *)
EXTENDS Naturals, FiniteSets, Functions, TLC

CONSTANTS
    Procs,              \* gunicorn workers, the worker, threads of the MCP server
    Names,              \* values that only a record of the database gives away
    Shaped,             \* values _PATTERN_PASS recognises
    Labelled,           \* values a pattern of the operator recognises, under a label
                        \* with a digit or an underscore
    Orgs,               \* employers and locations: replaced in strict mode
    Sensitive,          \* SPI: stripped, never replaced
    Fold,               \* (kind, casefolded text) of each value
    Inputs,             \* the values that come in
    MaxAttempts,        \* providers of the chain
    MaxCalls, MaxEdits, MaxFaults,      \* bounds of the model
    Marker, None

Values == Names \cup Shaped \cup Labelled \cup Orgs \cup Sensitive
Recorded == Names \cup Orgs
Kinds == {"mcp", "chain", "export", "import"}

(* make_placeholder: the secret it was made under, and the folded value. *)
Placeholders == (1 .. MaxFaults + 1) \X Range(Fold)
Tokens == Values \cup Placeholders \cup {Marker}

ASSUME VaultAssumption ==
    /\ Fold \in [Values -> Values]
    /\ \A v \in Values : Fold[Fold[v]] = Fold[v]
    /\ Inputs \subseteq Values
    /\ Marker \notin Values /\ None \notin Procs \cup Values \cup {Marker}
    /\ Placeholders \cap (Values \cup {Marker, None}) = {}
    /\ MaxAttempts \in Nat /\ MaxCalls \in Nat /\ MaxEdits \in Nat /\ MaxFaults \in Nat

VARIABLES
    records,    \* the names and organisations some row holds
    notes,      \* the free text the database stores
    enabled,    \* AIConfig.redaction_enabled
    strict,     \* AIConfig.redact_strict
    secret,     \* SECRET_KEY, numbered
    vault,      \* the secret privacy_vault.json is encrypted under, and its mappings
    lock,       \* the process that holds the flock on privacy_vault.json.lock
    pc, call,   \* where each process is, and its locals
    shown,      \* the tokens an AI has been shown
    calls, edits, faults,
    excused     \* ghost: placeholders nobody promised to turn back: their write failed or a
                \* write dropped them after a read that failed, they are of an earlier secret,
                \* or they came in while redaction was off or the vault could not be read

data == <<records, notes>>
config == <<enabled, strict, secret>>
vars == <<data, config, vault, lock, pc, call, shown, calls, edits, faults, excused>>

(***************************************************************************)
(* Placeholders                                                            *)
(***************************************************************************)
(* make_placeholder: the first half of an HMAC of the kind and the folded  *)
(* text under the secret.                                                  *)
Placeholder(v) == <<secret, Fold[v]>>

(* PLACEHOLDER_RE reads a kind of letters only. *)
Reads(t) == t \in Placeholders /\ t[2] \notin Labelled

(* The values that leave as placeholders: those with a recognised shape,   *)
(* those a row holds in some spelling, and, in strict mode, organisations. *)
Shapes == Shaped \cup Labelled

Spelt(rows) == {v \in Values : Fold[v] \in {Fold[r] : r \in rows}}

Certain(known) ==
    Shapes \cup Spelt(known \cap Names) \cup (IF strict THEN Spelt(known \cap Orgs) ELSE {})

(* _strip_spi: the sentence goes, and nothing brings it back. *)
Stripped(t) == t \in Sensitive

(* _redact_core.  Whether the heuristics see a name nobody recorded        *)
(* depends on the words around it.                                         *)
Redacted(t, known) ==
    IF Stripped(t) THEN {Marker}
    ELSE IF t \in Certain(known) THEN {Placeholder(t)}
    ELSE IF t \in Names THEN {t, Placeholder(t)}
    ELSE {t}

(* load_encrypted_json: a vault of another secret reads as an empty one. *)
Loaded == IF vault.secret = secret THEN vault.map ELSE <<>>

(* _rehydration_lookup: what is known now wins over the vault. *)
Rehydrated(t, view, known) ==
    LET now == {v \in known : Placeholder(v) = t}
    IN  IF ~Reads(t) THEN {t}
        ELSE IF now # {} THEN now
        ELSE IF t \in DOMAIN view THEN {view[t]}
        ELSE {t}

(***************************************************************************)
(* Calls                                                                   *)
(***************************************************************************)
Idle == [kind |-> None, text |-> None, gate |-> FALSE, known |-> {}, view |-> <<>>,
         blind |-> FALSE, cached |-> None, value |-> None, attempt |-> 0, held |-> FALSE]

Init ==
    /\ records \in {{}} \cup {{v} : v \in Recorded}
    /\ notes \in {{v} : v \in Values}
    /\ enabled = TRUE /\ strict \in BOOLEAN /\ secret = 1
    /\ vault = [secret |-> 1, map |-> <<>>]
    /\ lock = None
    /\ pc = [p \in Procs |-> "idle"] /\ call = [p \in Procs |-> Idle]
    /\ shown = {} /\ calls = 0 /\ edits = 0 /\ faults = 0 /\ excused = {}

Goto(p, step, locals) ==
    /\ pc' = [pc EXCEPT ![p] = step]
    /\ call' = [call EXCEPT ![p] = locals]

Done(p) == Goto(p, "idle", Idle)

(* A text comes in: the arguments of a tool, written by whoever saw the    *)
(* results of earlier ones, or the answer an admin pastes, which is        *)
(* rehydrated whatever the setting.                                        *)
Arrive(p) == \E kind \in {"mcp", "import"}, t \in Inputs \cup (shown \cap Placeholders) :
    /\ pc[p] = "idle" /\ calls < MaxCalls
    /\ calls' = calls + 1
    /\ LET gate == kind = "import" \/ enabled
       IN  /\ Goto(p, IF gate /\ t \in Placeholders THEN "look"
                      ELSE IF kind = "mcp" THEN "tool" ELSE "store",
                   [Idle EXCEPT !.kind = kind, !.text = t, !.gate = gate])
           /\ excused' = IF gate THEN excused ELSE excused \cup ({t} \cap Placeholders)
    /\ UNCHANGED <<data, config, vault, lock, shown, edits, faults>>

(* The application builds a text: a prompt, or the export of everything. *)
Compose(p) == \E kind \in {"chain", "export"}, t \in records \cup notes :
    /\ pc[p] = "idle" /\ calls < MaxCalls
    /\ calls' = calls + 1
    /\ Goto(p, "gate", [Idle EXCEPT !.kind = kind, !.text = t, !.held = t \in records])
    /\ UNCHANGED <<data, config, vault, lock, shown, edits, faults, excused>>

(* should_redact_for, once per provider: one on this machine gets the text *)
(* as it is.  A chain redacts its prompt once.                             *)
Guarded(p, remote) == enabled /\ remote

Gate(p) == \E remote \in BOOLEAN :
    /\ pc[p] = "gate"
    /\ call[p].kind = "export" => remote
    /\ LET c == [call[p] EXCEPT !.gate = Guarded(p, remote)]
       IN  Goto(p, IF c.gate /\ c.cached = None THEN "collect" ELSE "leave", c)
    /\ UNCHANGED <<data, config, vault, lock, shown, calls, edits, faults, excused>>

(* The names a text is searched for, read once it is there; what is found  *)
(* becomes placeholders.                                                   *)
(* Slip: the names rehydration has already read serve again.              *)
SearchedBefore(p) == IF call[p].known = {} THEN records ELSE call[p].known

Searched(p) == records

Collect(p) ==
    /\ pc[p] = "collect"
    /\ \E t \in Redacted(call[p].text, Searched(p)) :
         Goto(p, IF t \in Placeholders \ {call[p].text} THEN "lock" ELSE "leave",
              [call[p] EXCEPT !.cached = t, !.value = call[p].text, !.known = {}])
    /\ UNCHANGED <<data, config, vault, lock, shown, calls, edits, faults, excused>>

(***************************************************************************)
(* _persist_mappings                                                       *)
(***************************************************************************)
(* Slip: no lock. *)
NoLock == TRUE

Free == lock = None

Lock(p) ==
    /\ pc[p] = "lock" /\ Free
    /\ lock' = p
    /\ Goto(p, "read", call[p])
    /\ UNCHANGED <<data, config, vault, shown, calls, edits, faults, excused>>

ReadVault(p) ==
    /\ pc[p] = "read"
    /\ Goto(p, "write", [call[p] EXCEPT !.view = Loaded, !.blind = FALSE])
    /\ UNCHANGED <<data, config, vault, lock, shown, calls, edits, faults, excused>>

(* load_encrypted_json: a file that cannot be read, or parsed, reads as an *)
(* empty one.                                                              *)
ReadFails(p, step) ==
    /\ faults < MaxFaults /\ faults' = faults + 1
    /\ Goto(p, step, [call[p] EXCEPT !.view = <<>>, !.blind = TRUE])
    /\ UNCHANGED <<data, config, vault, lock, shown, calls, edits, excused>>

ReadVaultFails(p) == pc[p] = "read" /\ ReadFails(p, "write")

Unlocked(p) == IF lock = p THEN None ELSE lock

(* What the file holds once p wrote: what p read, and its mapping if it is *)
(* a new one.                                                              *)
(* Slip: the file holds the mappings of the last call only. *)
LastMapping(p) == (call[p].cached :> call[p].value)

Merged(p) == [ph \in DOMAIN call[p].view \cup {call[p].cached} |->
                 IF ph \in DOMAIN call[p].view THEN call[p].view[ph] ELSE call[p].value]

(* What a write drops: all but its own mapping, when its read had failed.  *)
Dropped(p) == IF call[p].blind THEN DOMAIN Loaded \ {call[p].cached} ELSE {}

WriteVault(p) ==
    /\ pc[p] = "write"
    /\ vault' = IF call[p].cached \in DOMAIN call[p].view THEN vault
                ELSE [secret |-> secret, map |-> Merged(p)]
    /\ lock' = Unlocked(p)
    /\ excused' = excused \cup Dropped(p)
    /\ Goto(p, "leave", [call[p] EXCEPT !.view = <<>>, !.value = None])
    /\ UNCHANGED <<data, config, shown, calls, edits, faults>>

(* The write raises: that is logged, and the text leaves all the same. *)
WriteFails(p) ==
    /\ pc[p] = "write" /\ faults < MaxFaults
    /\ call[p].cached \notin DOMAIN call[p].view
    /\ faults' = faults + 1
    /\ lock' = Unlocked(p)
    /\ excused' = excused \cup {call[p].cached}
    /\ Goto(p, "leave", call[p])
    /\ UNCHANGED <<data, config, vault, shown, calls, edits>>

(***************************************************************************)
(* Out                                                                     *)
(***************************************************************************)
(* A local provider is given the text, any other the redacted one. *)
Outgoing(p) == IF call[p].gate THEN call[p].cached ELSE call[p].text

Leave(p) ==
    /\ pc[p] = "leave"
    /\ shown' = shown \cup {Outgoing(p)}
    /\ IF call[p].kind = "chain" THEN Goto(p, "answer", call[p]) ELSE Done(p)
    /\ UNCHANGED <<data, config, vault, lock, calls, edits, faults, excused>>

(* The provider fails and the chain asks the next one, with the text it    *)
(* was given.                                                              *)
NextProvider(p) ==
    /\ pc[p] = "answer" /\ call[p].attempt + 1 < MaxAttempts
    /\ Goto(p, "gate", [call[p] EXCEPT !.attempt = @ + 1])
    /\ UNCHANGED <<data, config, vault, lock, shown, calls, edits, faults, excused>>

(* The answer repeats what was shown.  Its placeholders are turned back    *)
(* when they were put there, whatever the setting says by then.            *)
TurnsBack(p) == call[p].gate

Answer(p) ==
    /\ pc[p] = "answer"
    /\ LET t == Outgoing(p)
       IN  /\ Goto(p, IF TurnsBack(p) /\ t \in Placeholders THEN "look" ELSE "store",
                   [call[p] EXCEPT !.text = t])
           /\ excused' = IF call[p].gate THEN excused ELSE excused \cup ({t} \cap Placeholders)
    /\ UNCHANGED <<data, config, vault, lock, shown, calls, edits, faults>>

(***************************************************************************)
(* In                                                                      *)
(***************************************************************************)
(* rehydrate, rehydrate_obj: the vault, without the lock, then the rows. *)
Look(p) ==
    /\ pc[p] = "look"
    /\ Goto(p, "match", [call[p] EXCEPT !.view = Loaded, !.blind = FALSE])
    /\ UNCHANGED <<data, config, vault, lock, shown, calls, edits, faults, excused>>

LookFails(p) == pc[p] = "look" /\ ReadFails(p, "match")

Match(p) ==
    /\ pc[p] = "match"
    /\ \E t \in Rehydrated(call[p].text, call[p].view, records) :
         /\ Goto(p, IF call[p].kind = "mcp" THEN "tool" ELSE "store",
                 [call[p] EXCEPT !.text = t, !.view = <<>>,
                                 !.known = IF call[p].kind = "mcp" THEN records ELSE {}])
         /\ excused' = IF call[p].blind THEN excused \cup ({t} \cap Placeholders) ELSE excused
    /\ UNCHANGED <<data, config, vault, lock, shown, calls, edits, faults>>

Store(p) ==
    /\ pc[p] = "store"
    /\ notes' = notes \cup {call[p].text}
    /\ Done(p)
    /\ UNCHANGED <<records, config, vault, lock, shown, calls, edits, faults, excused>>

(* The tool a call names: it stores its argument as text or as the name of *)
(* a record, and returns something of what the database then holds.        *)
Tool(p) ==
    /\ pc[p] = "tool"
    /\ \/ notes' = notes \cup {call[p].text} /\ UNCHANGED records
       \/ call[p].text \in Recorded /\ records' = records \cup {call[p].text} /\ UNCHANGED notes
    /\ \E t \in records' \cup notes' :
         Goto(p, IF call[p].gate THEN "collect" ELSE "leave",
              [call[p] EXCEPT !.text = t, !.held = t \in records'])
    /\ UNCHANGED <<config, vault, lock, shown, calls, edits, faults, excused>>

(***************************************************************************)
(* What happens meanwhile                                                  *)
(***************************************************************************)
Edit ==
    /\ edits < MaxEdits /\ edits' = edits + 1
    /\ UNCHANGED <<secret, vault, lock, pc, shown, calls, faults, excused, notes>>

(* Rows come and go by other pages; a text on its way may name one. *)
AddRecord == \E v \in Recorded \ records :
    Edit /\ records' = records \cup {v} /\ UNCHANGED <<enabled, strict, call>>

DeleteRecord == \E v \in records :
    /\ Edit /\ records' = records \ {v}
    /\ call' = [p \in Procs |-> IF call[p].text = v THEN [call[p] EXCEPT !.held = FALSE]
                                ELSE call[p]]
    /\ UNCHANGED <<enabled, strict>>

(* settings_ai_privacy *)
SetPrivacy == \E on, hard \in BOOLEAN :
    /\ Edit /\ <<on, hard>> # <<enabled, strict>>
    /\ enabled' = on /\ strict' = hard
    /\ UNCHANGED <<records, call>>

(* The container starts again under another SECRET_KEY. *)
Rotate ==
    /\ faults < MaxFaults /\ faults' = faults + 1
    /\ secret' = secret + 1
    /\ lock' = None
    /\ pc' = [p \in Procs |-> "idle"] /\ call' = [p \in Procs |-> Idle]
    /\ excused' = excused \cup {ph \in Placeholders : ph[1] <= secret}
    /\ UNCHANGED <<data, enabled, strict, vault, shown, calls, edits>>

(* A process is killed: the kernel drops its flock, and the file is the    *)
(* old one or the new one.                                                 *)
Crash(p) ==
    /\ pc[p] # "idle" /\ faults < MaxFaults
    /\ faults' = faults + 1
    /\ lock' = IF lock = p THEN None ELSE lock
    /\ Done(p)
    /\ UNCHANGED <<data, config, vault, shown, calls, edits, excused>>

Step(p) ==
    \/ Gate(p) \/ Collect(p) \/ Lock(p)
    \/ ReadVault(p) \/ ReadVaultFails(p) \/ WriteVault(p) \/ WriteFails(p)
    \/ Leave(p) \/ NextProvider(p) \/ Answer(p)
    \/ Look(p) \/ LookFails(p) \/ Match(p) \/ Store(p) \/ Tool(p)

Next ==
    \/ \E p \in Procs : Arrive(p) \/ Compose(p) \/ Step(p) \/ Crash(p)
    \/ AddRecord \/ DeleteRecord \/ SetPrivacy \/ Rotate

Spec == Init /\ [][Next]_vars

(***************************************************************************)
(* Properties                                                              *)
(***************************************************************************)
TypeOK ==
    /\ records \subseteq Recorded /\ notes \subseteq Tokens
    /\ enabled \in BOOLEAN /\ strict \in BOOLEAN /\ secret \in 1 .. MaxFaults + 1
    /\ vault.secret \in 1 .. secret
    /\ DOMAIN vault.map \subseteq Placeholders /\ Range(vault.map) \subseteq Tokens
    /\ lock \in Procs \cup {None}
    /\ \A p \in Procs : call[p].kind \in Kinds \cup {None} /\ call[p].text \in Tokens \cup {None}
    /\ shown \subseteq Tokens /\ excused \subseteq Placeholders

(* Every placeholder an AI was shown can be turned back, whoever deleted   *)
(* the record it stands for and whichever processes wrote the vault        *)
(* meanwhile.                                                              *)
Resolves(ph) ==
    \/ ph \in DOMAIN Loaded /\ Fold[Loaded[ph]] = ph[2]
    \/ \E v \in records : Placeholder(v) = ph
ComesBack == \A ph \in (shown \cap Placeholders) \ excused : Reads(ph) => Resolves(ph)

(* A placeholder is stored where a value was meant only if it could not be *)
(* read, nobody promised it back, or redaction was off or the vault not    *)
(* readable when it came in (mcp_server.py:118-121 says never).            *)
RealValuesStored == \A ph \in (notes \cap Placeholders) \ excused : ~Reads(ph)

(* While redaction is on, no text leaves with a value of a recognised      *)
(* shape, a sensitive sentence, or a name some row held from the moment    *)
(* the text was built.                                                     *)
NothingLeaves == \A p \in Procs : pc[p] = "leave" /\ call[p].gate =>
    /\ call[p].cached \notin Shaped \cup Labelled \cup Sensitive
    /\ call[p].held => call[p].cached \notin Names

(* A write of the vault loses none of the mappings of its secret, and      *)
(* changes none, though two processes add theirs at once: only a write     *)
(* whose own read had failed does, and it drops all it did not read.       *)
WritesBlind == \E p \in Procs : pc[p] = "write" /\ call[p].blind /\ pc'[p] = "leave"
VaultGrows == [][(vault'.secret = vault.secret /\ ~WritesBlind) =>
                 /\ DOMAIN vault.map \subseteq DOMAIN vault'.map
                 /\ \A ph \in DOMAIN vault.map : vault'.map[ph] = vault.map[ph]]_vars

(* The vault is locked only by a process at work on it: one whose write    *)
(* failed, or that died, keeps nobody waiting.                             *)
LockIsUsed == lock # None => pc[lock] \in {"read", "write"}

(* Every placeholder shown outside can be turned back, and is when text    *)
(* comes in (privacy.py:767-795), but for those `excused` holds.           *)
ValuesComeBack == TypeOK /\ ComesBack /\ RealValuesStored

(* The vault file loses no mapping to another process, nor its lock to one *)
(* that failed or died (privacy.py:386-401).                               *)
VaultKept == []LockIsUsed /\ VaultGrows
================================================================================
