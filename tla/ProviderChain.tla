---------------------------- MODULE ProviderChain ----------------------------
(***************************************************************************)
(* call_with_fallback() of app/ai.py: one AI request, sent to the task's   *)
(* primary provider, its backup, the providers in rank order and the       *)
(* legacy Anthropic key, until one answers.  Each call takes up to         *)
(* minutes, during which an administrator may change the settings; the     *)
(* request sees them through a database session older than itself (a       *)
(* scheduled task holds the row of ai_config, worker.py:170), in which a   *)
(* row that something holds stays as it was loaded (extensions.py:36)      *)
(* until db.session.remove() discards it.                                  *)
(***************************************************************************)
EXTENDS Naturals, Sequences

CONSTANTS
    Providers,      \* rows of ai_provider_configs
    NoProvider,     \* NULL
    Legacy,         \* the Anthropic key kept in ai_config
    Local,          \* providers that serve from this machine
    Ranked,         \* the providers in rank order
    InitialRows,    \* what the rows may be when the session is opened
    InitialSettings,
    HardErrors,     \* errors other than HTTP 429, 503, 529 and time-outs occur
    NullAnswers,    \* an answer may have no content (choices[0] is null)
    MaxEdits        \* bound on edits of the settings during the session

(* What a row is to this request: without the capability flag or a model;  *)
(* with a context window too small for the prompt; without a base URL.     *)
Kinds == {"good", "unable", "large", "no_url"}
RowSet == [Providers -> [enabled : BOOLEAN, kind : Kinds]]
SettingSet == [primary : Providers \cup {NoProvider}, backup : Providers \cup {NoProvider},
               chain : BOOLEAN, legacy : BOOLEAN, redact : BOOLEAN, redactLocal : BOOLEAN]

ASSUME ProviderChainAssumption ==
    /\ NoProvider \notin Providers /\ Legacy \notin Providers \cup {NoProvider}
    /\ Local \subseteq Providers
    /\ Ranked \in Seq(Providers)
    /\ \A p \in Providers : \E k \in 1 .. Len(Ranked) : Ranked[k] = p
    /\ \A k, l \in 1 .. Len(Ranked) : Ranked[k] = Ranked[l] => k = l
    /\ InitialRows \subseteq RowSet /\ InitialSettings \subseteq SettingSet
    /\ MaxEdits \in Nat

VARIABLES
    rows, setting,  \* the database
    view,           \* what the session has loaded of it
    stage,          \* step of the look-up order the request is in
    queue,          \* providers this stage has yet to consider
    target,         \* provider being called
    sent,           \* the text it was sent: "raw" or "redacted"
    tried,          \* tried_ids
    large,          \* capacity_skips is not empty
    error,          \* last_exc is set
    answer,         \* what the caller gets
    attempts,       \* calls made, with their stage
    agreed,         \* redaction has been off since the session was opened
    nulls,          \* calls that a provider answered with null
    edits

vars == <<rows, setting, view, stage, queue, target, sent, tried, large, error, answer,
          attempts, agreed, nulls, edits>>

database == <<rows, setting, agreed, edits>>
outcome == <<large, error, answer>>

-----------------------------------------------------------------------------
Chosen(p) == IF p = NoProvider THEN <<>> ELSE <<p>>

(* Slip: only the rows of the table are looked at, not the legacy key. *)
RedactsRows(p) == view.setting.redact /\ p \in Providers
                  /\ (p \in Local => view.setting.redactLocal)

(* should_redact_for(); the legacy key is always a cloud call. *)
Redacts(p) == view.setting.redact /\ (p \in Local => view.setting.redactLocal)

Text(p) == IF Redacts(p) THEN "redacted" ELSE "raw"

(* Slip: the chain begins anew. *)
TriedForgotten(p) == FALSE

(* The ranked chain passes over what was called before; the backup is not  *)
(* compared with the primary.                                              *)
TriedBefore(p) == stage = "chain" /\ p \in tried

(* Only enabled rows are used.  The query of the ranked chain filters by   *)
(* the flag; here the row is dropped when its turn comes, which is the     *)
(* same, for what the session has loaded stays until the end of the chain. *)
PassedOver(p) == ~view.rows[p].enabled \/ TriedBefore(p)

Considering == target = NoProvider /\ queue # <<>>
StageOver(s) == stage = s /\ target = NoProvider /\ queue = <<>>

Send(p) ==
    /\ target' = p
    /\ sent' = Text(p)
    /\ attempts' = Append(attempts, [to |-> p, text |-> Text(p), stage |-> stage])

-----------------------------------------------------------------------------
Init ==
    /\ rows \in InitialRows
    /\ setting \in InitialSettings
    /\ view = [rows |-> rows, setting |-> setting]
    /\ stage = "opened"
    /\ queue = <<>>
    /\ target = NoProvider /\ sent = "raw"
    /\ tried = {} /\ attempts = <<>>
    /\ large = FALSE /\ error = FALSE /\ answer = "pending"
    /\ agreed = ~setting.redact
    /\ nulls = 0 /\ edits = 0

(* The rows the session does not hold are read, the others stay. *)
ReadRows(held) ==
    view' = [view EXCEPT !.rows = [p \in Providers |-> IF p \in held THEN view.rows[p]
                                                    ELSE rows[p]]]

(* The request begins, in a session opened before. *)
Begin ==
    /\ stage = "opened"
    /\ stage' = "primary"
    /\ \E held \in SUBSET Providers : ReadRows(held)
    /\ queue' = Chosen(view.setting.primary)
    /\ UNCHANGED <<database, target, sent, tried, outcome, attempts, nulls>>

(* privacy.redaction_enabled() finds no row of ai_config in the session    *)
(* that is still held, and reads it.                                       *)
Reread ==
    /\ stage # "over"
    /\ view' = [view EXCEPT !.setting.redact = setting.redact]
    /\ UNCHANGED <<database, stage, queue, target, sent, tried, outcome, attempts, nulls>>

(* _try_one() is not called, or returns None before it calls. *)
Skip ==
    /\ Considering
    /\ PassedOver(Head(queue)) \/ view.rows[Head(queue)].kind # "good"
    /\ large' = (large \/ (~PassedOver(Head(queue)) /\ view.rows[Head(queue)].kind = "large"))
    /\ queue' = Tail(queue)
    /\ UNCHANGED <<database, view, stage, target, sent, tried, error, answer, attempts, nulls>>

Call ==
    /\ Considering
    /\ ~PassedOver(Head(queue)) /\ view.rows[Head(queue)].kind = "good"
    /\ Send(Head(queue))
    /\ tried' = tried \cup {Head(queue)}
    /\ queue' = Tail(queue)
    /\ UNCHANGED <<database, view, stage, outcome, nulls>>

End(a) == answer' = a /\ stage' = "over" /\ target' = NoProvider /\ queue' = <<>>

(* Placeholders in the text are replaced before it is returned. *)
Succeed ==
    /\ target # NoProvider
    /\ End("text")
    /\ UNCHANGED <<database, view, sent, tried, large, error, attempts, nulls>>

(* A null content: rehydrate() makes it "", an answer; unredacted it stays *)
(* None, which the caller takes for a provider that was skipped.           *)
AnswerNull ==
    /\ NullAnswers /\ target \in Providers
    /\ nulls' = nulls + 1
    /\ \/ sent = "redacted" /\ End("empty")
       \/ sent = "raw" /\ target' = NoProvider /\ UNCHANGED <<stage, queue, answer>>
    /\ UNCHANGED <<database, view, sent, tried, large, error, attempts>>

(* HTTP 429, 503, 529, a time-out, and whatever fails with the legacy key. *)
FailOver ==
    /\ target # NoProvider
    /\ target' = NoProvider
    /\ error' = TRUE
    /\ UNCHANGED <<database, view, stage, queue, sent, tried, large, answer, attempts, nulls>>

(* Any other HTTP status, a refused connection: raised to the caller. *)
FailHard ==
    /\ HardErrors /\ target \in Providers
    /\ End("raised")
    /\ UNCHANGED <<database, view, sent, tried, large, error, attempts, nulls>>

(* The row of the backup may be read only now. *)
TryBackup ==
    /\ StageOver("primary")
    /\ stage' = "backup"
    /\ queue' = Chosen(view.setting.backup)
    /\ \E held \in SUBSET Providers :
          /\ \A p \in Providers : p # view.setting.backup \/ p = view.setting.primary => p \in held
          /\ ReadRows(held)
    /\ UNCHANGED <<database, target, sent, tried, outcome, attempts, nulls>>

(* Slip: a backup provider makes the ranked chain unnecessary. *)
TryChainWithoutBackup ==
    /\ StageOver("backup")
    /\ \/ /\ view.setting.chain /\ view.setting.backup = NoProvider
          /\ stage' = "chain"
          /\ view' = [rows |-> rows, setting |-> setting]
          /\ agreed' = ~setting.redact
          /\ queue' = Ranked
       \/ /\ ~(view.setting.chain /\ view.setting.backup = NoProvider)
          /\ stage' = "legacy"
          /\ UNCHANGED <<view, agreed, queue>>
    /\ UNCHANGED <<rows, setting, edits, target, sent, tried, outcome, attempts, nulls>>

(* db.session.remove(): a new session is opened, and the rows are read. *)
TryChain ==
    /\ StageOver("backup")
    /\ \/ /\ view.setting.chain
          /\ stage' = "chain"
          /\ view' = [rows |-> rows, setting |-> setting]
          /\ agreed' = ~setting.redact
          /\ queue' = Ranked
       \/ /\ ~view.setting.chain
          /\ stage' = "legacy"
          /\ UNCHANGED <<view, agreed, queue>>
    /\ UNCHANGED <<rows, setting, edits, target, sent, tried, outcome, attempts, nulls>>

LeaveChain ==
    /\ StageOver("chain")
    /\ stage' = "legacy"
    /\ UNCHANGED <<database, view, queue, target, sent, tried, outcome, attempts, nulls>>

CallLegacy ==
    /\ StageOver("legacy")
    /\ view.setting.legacy
    /\ Send(Legacy)
    /\ stage' = "last"
    /\ UNCHANGED <<database, view, queue, tried, outcome, nulls>>

(* The end of the function: last_exc, ContextCapacityError or RuntimeError. *)
GiveUp ==
    /\ StageOver("last") \/ (StageOver("legacy") /\ ~view.setting.legacy)
    /\ End(IF error THEN "error" ELSE IF large THEN "capacity" ELSE "none")
    /\ UNCHANGED <<database, view, sent, tried, large, error, attempts, nulls>>

(* The settings page: redaction, or the Enabled toggle of a row. *)
Edit ==
    /\ stage # "over" /\ edits < MaxEdits
    /\ edits' = edits + 1
    /\ \/ /\ setting' = [setting EXCEPT !.redact = ~@]
          /\ agreed' = (agreed \/ ~setting'.redact)
          /\ UNCHANGED rows
       \/ \E p \in Providers : /\ rows' = [rows EXCEPT ![p].enabled = ~@]
                               /\ UNCHANGED <<setting, agreed>>
    /\ UNCHANGED <<view, stage, queue, target, sent, tried, outcome, attempts, nulls>>

Next ==
    \/ Begin \/ Reread
    \/ Skip \/ Call \/ Succeed \/ AnswerNull \/ FailOver \/ FailHard
    \/ TryBackup \/ TryChain \/ LeaveChain \/ CallLegacy \/ GiveUp
    \/ Edit

Spec == Init /\ [][Next]_vars

-----------------------------------------------------------------------------
(* Type invariant. *)
TypeOK ==
    /\ rows \in RowSet /\ setting \in SettingSet
    /\ view \in [rows : RowSet, setting : SettingSet]
    /\ stage \in {"opened", "primary", "backup", "chain", "legacy", "last", "over"}
    /\ queue \in Seq(Providers)
    /\ target \in Providers \cup {NoProvider, Legacy}
    /\ sent \in {"raw", "redacted"}
    /\ tried \subseteq Providers
    /\ large \in BOOLEAN /\ error \in BOOLEAN /\ agreed \in BOOLEAN
    /\ answer \in {"pending", "text", "empty", "raised", "error", "capacity", "none"}
    /\ attempts \in Seq([to : Providers \cup {Legacy}, text : {"raw", "redacted"},
                         stage : {"primary", "backup", "chain", "legacy"}])
    /\ edits \in 0 .. MaxEdits /\ nulls \in Nat

(* A provider the request could have used: enabled, good, and in its path. *)
Candidate(p) ==
    /\ view.rows[p].enabled /\ view.rows[p].kind = "good"
    /\ view.setting.chain \/ p \in {view.setting.primary, view.setting.backup}

Exhausted ==
    /\ \A p \in Providers : Candidate(p) => p \in tried
    /\ view.setting.legacy => \E i \in 1 .. Len(attempts) : attempts[i].to = Legacy

(* The request reports that no provider is left only when every one it     *)
(* could have used, and then the legacy key, has been called, whatever     *)
(* failed before and whatever was edited meanwhile.                        *)
GivesUpExhausted == answer \in {"error", "capacity", "none"} => Exhausted

(* No provider is called twice in a request, unless the task names one     *)
(* provider as primary and as backup, which the settings page allows.      *)
NotCalledTwice ==
    \A i, j \in 1 .. Len(attempts) :
        (i < j /\ attempts[i].to = attempts[j].to) => attempts[j].stage = "backup"

(* "tried in rank order" (models.py:509): when the chain calls a provider, *)
(* whatever is usable and ranked before it has been called.                *)
RankRespected ==
    \A i \in 1 .. Len(attempts), k, l \in 1 .. Len(Ranked) :
        (attempts[i].stage = "chain" /\ attempts[i].to = Ranked[k] /\ l < k
            /\ view.rows[Ranked[l]].enabled /\ view.rows[Ranked[l]].kind = "good")
        => Ranked[l] \in tried

(* The text leaves this machine unredacted only if redaction was off at    *)
(* some time since the session of the call was opened, whichever path the  *)
(* call takes and whenever the setting is changed.  The session may be     *)
(* older than the request, so redaction that was switched on in between    *)
(* may be missed; no longer once the ranked chain has opened a new one.    *)
RawOnlyIfAgreed ==
    [][\A p \in (Providers \cup {Legacy}) \ Local :
        (attempts' # attempts /\ target' = p /\ sent' = "raw") => agreed]_vars

(* ContextCapacityError: "every eligible provider was skipped specifically *)
(* because the prompt doesn't fit" (ai.py:153), so nothing was called, or  *)
(* what was called answered null, which is taken for a skip.               *)
CapacityMeansSkipped == answer = "capacity" => Len(attempts) = nulls

(* call_with_fallback() gives up only when nothing is left to call, and    *)
(* reports that the prompt fits nowhere only when nothing was called       *)
(* (ai.py:501-540).                                                        *)
FailsRightly == GivesUpExhausted /\ CapacityMeansSkipped

(* Each provider is called at most once, over primary, backup and chain,   *)
(* and the chain calls them in the order of their rank (ai.py:443-485).    *)
CalledInOrder == TypeOK /\ RankRespected /\ NotCalledTwice
=============================================================================
