------------------------------- MODULE Triage -------------------------------
(***************************************************************************)
(* The triage of app/ai.py, which scores saved jobs by asking an AI:       *)
(*   - run_auto_triage(), started by two triggers of the worker, which     *)
(*     share a lock (app/worker.py), and by the tasks "triage" and         *)
(*     "rescore" of the web process, which do not take it;                 *)
(*   - run_triage_batch(), one page of the backlog, from the web process;  *)
(*   - run_score_fit_single() and run_draft_followup_single(), one job.    *)
(* A request to the AI may end in db.session.remove(), which detaches the  *)
(* rows the caller has loaded: what is written to them afterwards is lost. *)
(***************************************************************************)
EXTENDS Integers, Sequences, FiniteSets, SequencesExt

CONSTANTS
    N,              \* jobs that exist or may arrive: 1 .. N
    First,          \* of these, the jobs that exist at the start
    Triggers,       \* triggers of the worker
    Manual,         \* threads of the task "triage"
    Rescores,       \* threads of the task "rescore"
    Pages,          \* users of the backlog page
    Singles,        \* threads that score one job
    NoOne,          \* nobody holds the lock
    AutoLimit,      \* most jobs of one run_auto_triage() (50)
    BatchSize,      \* _TRIAGE_BATCH_SIZE (10)
    PageSize,       \* jobs on a page of the backlog (20)
    RetryChunk,     \* _RETRY_CHUNK (5)
    MaxProfile,     \* bound on the versions of the candidate profile
    MaxStarts,      \* bound on the triages started
    MaxFaults,      \* bound on commits that raise or are lost
    MaxChanges      \* bound on jobs that arrive, leave or are deleted

Jobs == 1 .. N
Autos == Triggers \cup Manual \cup Rescores
Actors == Autos \cup Pages \cup Singles

(* What the constants are: a thread is of one kind, and sizes are positive. *)
Parameters ==
    /\ N \in Nat /\ First \subseteq Jobs
    /\ {AutoLimit, BatchSize, PageSize, RetryChunk} \subseteq Nat \ {0}
    /\ MaxProfile \in Nat \ {0}
    /\ {MaxStarts, MaxFaults, MaxChanges} \subseteq Nat
    /\ NoOne \notin Actors
    /\ Triggers \cap (Manual \cup Rescores) = {} /\ Manual \cap Rescores = {}
    /\ Autos \cap (Pages \cup Singles) = {} /\ Pages \cap Singles = {}

ASSUME TriageAssumption == Parameters

VARIABLES
    status,     \* status[j]: "absent", "Saved", "other", or "deleted"
    score,      \* score[j]: profile its ai_fit_score was computed with, or 0
    profile,    \* version of candidate_profile.md
    lock,       \* holder of the worker's _triage_lock
    pc,
    list,       \* jobs a triage has read and not yet sent
    batch,      \* jobs of the current batch or page
    using,      \* using[a]: version of the profile a has loaded
    chunks,     \* requests still to be made for the batch or page
    pass,       \* 1: the page, 2: sub-batches, 3: one by one
    got,        \* jobs the AI has returned a score for
    writes,     \* rows changed in a's session, to be committed
    tries,      \* tries[a][j]: requests for the batch or page that held j
    offset,     \* offset[u]: where the next page of u begins
    remaining,  \* remaining[u]: total_remaining of the last page
    mixed,      \* two of them have been in progress at the same time
    starts, faults, changes

triageVars == <<status, score, profile, lock, pc, list, batch, using, chunks, pass, got,
                writes, tries, offset, remaining, mixed, starts, faults, changes>>

table == <<status, score>>
request == <<batch, chunks, pass, got, writes, tries>>
work == <<list, using, request>>
page == <<offset, remaining>>
begun == <<mixed, starts>>
bounds == <<faults, changes>>

-----------------------------------------------------------------------------
Goto(a, label) == pc' = [pc EXCEPT ![a] = label]

Exists(j) == status[j] \in {"Saved", "other"}

(* The jobs in S by their age: the i-th is the one with i - 1 newer ones. *)
NewestFirst(S) ==
    [i \in 1 .. Cardinality(S) |-> CHOOSE j \in S : Cardinality({k \in S : k > j}) = i - 1]

(* The query of unscored saved jobs, newest first. *)
Backlog == NewestFirst({j \in Jobs : status[j] = "Saved" /\ score[j] = 0})

FirstOf(s, n) == SubSeq(s, 1, IF Len(s) < n THEN Len(s) ELSE n)
After(s, n) == SubSeq(s, n + 1, Len(s))

(* Slip: the last, smaller piece is not made. *)
WholePieces(s, n) == [i \in 1 .. (Len(s) \div n) |-> FirstOf(After(s, n * (i - 1)), n)]

(* A sequence cut into pieces of n, the last of which may be smaller. *)
Pieces(s, n) == [i \in 1 .. ((Len(s) + n - 1) \div n) |-> FirstOf(After(s, n * (i - 1)), n)]

(* _call_batched_with_capacity_shrink() splits a batch in half. *)
Halves(s) == LET mid == Len(s) \div 2 IN <<FirstOf(s, mid), After(s, mid)>>

(* Slip: < instead of <=. *)
NeverSmallest(s) == Len(s) < 1

Smallest(s) == Len(s) <= 1

(* Jobs the AI may return scores for: any of those it was asked about, and *)
(* perhaps one that it was not.                                            *)
Replies(chunk) == {ids \in SUBSET Jobs : Cardinality(ids \ ToSet(chunk)) <= 1}

(* A page takes scores for its own jobs only. *)
Accepted(u, ids) == ids \cap ToSet(batch[u])

(* The jobs of a page without a score, in the order of the page. *)
Missing(u) == NewestFirst(ToSet(batch[u]) \ got[u])

(* Slip: the rows are those loaded with the page, which the requests of    *)
(* the retries have detached.                                              *)
LoadedBefore(a) ==
    {j \in got[a] : Exists(j) /\ \A i \in Jobs : a \in Pages => tries[a][i] <= 1}

(* The rows to be written are fetched again when the last request is over. *)
Fetched(a) == {j \in got[a] : Exists(j)}

InProgress(a) == pc[a] # "idle"

(* The batch or page of a is dealt with, and its local variables are gone. *)
Forget(a) ==
    /\ batch' = [batch EXCEPT ![a] = <<>>]
    /\ chunks' = [chunks EXCEPT ![a] = <<>>]
    /\ pass' = [pass EXCEPT ![a] = 1]
    /\ got' = [got EXCEPT ![a] = {}]
    /\ writes' = [writes EXCEPT ![a] = {}]
    /\ tries' = [tries EXCEPT ![a] = [j \in Jobs |-> 0]]

(* a begins, perhaps beside another. *)
Starts(a, label) ==
    /\ ~InProgress(a)
    /\ starts < MaxStarts
    /\ starts' = starts + 1
    /\ Goto(a, label)
    /\ mixed' = (mixed \/ \E b \in Actors : InProgress(b))

(* a has nothing more to do; the worker's triggers release their lock. *)
Ends(a) ==
    /\ Goto(a, "idle")
    /\ lock' = IF a \in Triggers THEN NoOne ELSE lock
    /\ list' = [list EXCEPT ![a] = <<>>]
    /\ using' = [using EXCEPT ![a] = 1]
    /\ Forget(a)

-----------------------------------------------------------------------------
TriageInit ==
    /\ status = [j \in Jobs |-> IF j \in First THEN "Saved" ELSE "absent"]
    /\ score = [j \in Jobs |-> 0]
    /\ profile = 1
    /\ lock = NoOne
    /\ pc = [a \in Actors |-> "idle"]
    /\ list = [a \in Actors |-> <<>>]
    /\ batch = [a \in Actors |-> <<>>]
    /\ using = [a \in Actors |-> 1]
    /\ chunks = [a \in Actors |-> <<>>]
    /\ pass = [a \in Actors |-> 1]
    /\ got = [a \in Actors |-> {}]
    /\ writes = [a \in Actors |-> {}]
    /\ tries = [a \in Actors |-> [j \in Jobs |-> 0]]
    /\ offset = [u \in Pages |-> 0]
    /\ remaining = [u \in Pages |-> 0]
    /\ mixed = FALSE
    /\ starts = 0 /\ faults = 0 /\ changes = 0

(* A batch or a page is about to be sent, in one request. *)
Ask(a, s) ==
    /\ batch' = [batch EXCEPT ![a] = s]
    /\ chunks' = [chunks EXCEPT ![a] = <<s>>]
    /\ UNCHANGED <<pass, got, writes, tries>>

(* The first request of a is over, and its answer, if any, taken in. *)
Answered(a, ids) ==
    /\ got' = [got EXCEPT ![a] = @ \cup ids]
    /\ chunks' = [chunks EXCEPT ![a] = Tail(@)]
    /\ tries' = [tries EXCEPT ![a] =
                    [j \in Jobs |-> IF j \in ToSet(Head(chunks[a])) THEN @[j] + 1 ELSE @[j]]]

-----------------------------------------------------------------------------
(* run_auto_triage()                                                       *)

(* A trigger that finds the lock taken skips its turn. *)
StartTrigger(a) ==
    /\ lock = NoOne
    /\ Starts(a, "read")
    /\ lock' = a
    /\ UNCHANGED <<table, profile, work, page, bounds>>

StartTask(a) ==
    /\ Starts(a, IF a \in Rescores THEN "clear" ELSE "read")
    /\ UNCHANGED <<table, profile, lock, work, page, bounds>>

(* "rescore" clears the scores of all saved jobs and commits. *)
ClearScores(a) ==
    /\ pc[a] = "clear"
    /\ score' = [j \in Jobs |-> IF status[j] = "Saved" THEN 0 ELSE score[j]]
    /\ Goto(a, "read")
    /\ UNCHANGED <<status, profile, lock, work, page, begun, bounds>>

(* A transient error: the retried commit has nothing to write. *)
ClearLost(a) ==
    /\ pc[a] = "clear" /\ faults < MaxFaults
    /\ faults' = faults + 1
    /\ Goto(a, "read")
    /\ UNCHANGED <<table, profile, lock, work, page, begun, changes>>

(* The profile, then the newest unscored jobs, up to a limit. *)
ReadJobs(a) ==
    /\ pc[a] = "read"
    /\ using' = [using EXCEPT ![a] = profile]
    /\ list' = [list EXCEPT ![a] = FirstOf(Backlog, AutoLimit)]
    /\ Goto(a, "next")
    /\ UNCHANGED <<table, profile, lock, request, page, begun, bounds>>

NextBatch(a) ==
    /\ pc[a] = "next" /\ list[a] # <<>>
    /\ Ask(a, FirstOf(list[a], BatchSize))
    /\ list' = [list EXCEPT ![a] = After(@, BatchSize)]
    /\ Goto(a, "call")
    /\ UNCHANGED <<table, profile, lock, using, page, begun, bounds>>

(* No job left, or automatic triage is switched off. *)
EndTriage(a) ==
    /\ pc[a] = "next" /\ list[a] = <<>>
    /\ Ends(a)
    /\ UNCHANGED <<table, profile, page, begun, bounds>>

(* What comes back is believed, whatever job it names. *)
AutoReply(a, ids) ==
    /\ pc[a] = "call" /\ chunks[a] # <<>>
    /\ ids \in Replies(Head(chunks[a]))
    /\ Answered(a, ids)
    /\ UNCHANGED <<table, profile, lock, pc, list, using, batch, pass, writes,
                   page, begun, bounds>>

(* ContextCapacityError: the piece is halved, or given up. *)
TooLarge(a) ==
    /\ pc[a] = "call" /\ chunks[a] # <<>>
    /\ \/ /\ ~Smallest(Head(chunks[a]))
          /\ chunks' = [chunks EXCEPT ![a] = Halves(Head(@)) \o Tail(@)]
          /\ UNCHANGED <<got, tries>>
       \/ Smallest(Head(chunks[a])) /\ Answered(a, {})
    /\ UNCHANGED <<table, profile, lock, pc, list, using, batch, pass, writes,
                   page, begun, bounds>>

(* Any other error: the batch has failed, answers to its pieces included. *)
BatchFails(a) ==
    /\ pc[a] = "call" /\ chunks[a] # <<>>
    /\ Forget(a)
    /\ Goto(a, "next")
    /\ UNCHANGED <<table, profile, lock, list, using, page, begun, bounds>>

-----------------------------------------------------------------------------
(* run_triage_batch()                                                      *)

(* A page begins at 0, or where the page before said.  An empty page asks  *)
(* nobody.                                                                 *)
StartPage(u, from) ==
    LET jobs == FirstOf(After(Backlog, from), PageSize)
    IN  /\ from \in {0, offset[u]}
        /\ jobs # <<>>
        /\ Starts(u, "call")
        /\ Ask(u, jobs)
        /\ using' = [using EXCEPT ![u] = profile]
        /\ offset' = [offset EXCEPT ![u] = from + Len(jobs)]
        /\ UNCHANGED <<table, profile, lock, list, remaining, bounds>>

(* No job on the page, or the provider chosen for it cannot be used. *)
PageRefused(u, from) ==
    LET jobs == FirstOf(After(Backlog, from), PageSize)
    IN  /\ ~InProgress(u)
        /\ from \in {0, offset[u]}
        /\ offset' = [offset EXCEPT ![u] = from + Len(jobs)]
        /\ remaining' = [remaining EXCEPT ![u] = Len(Backlog)]
        /\ UNCHANGED <<table, profile, lock, pc, work, begun, bounds>>

(* An error is an answer without scores; {} stands for both. *)
PageReply(u, ids) ==
    /\ pc[u] = "call" /\ chunks[u] # <<>>
    /\ ids \in Replies(Head(chunks[u]))
    /\ Answered(u, Accepted(u, ids))
    /\ UNCHANGED <<table, profile, lock, pc, list, using, batch, pass, writes,
                   page, begun, bounds>>

(* Jobs without a score are sent again in smaller pieces, then alone. *)
Retry(u) ==
    /\ pc[u] = "call" /\ chunks[u] = <<>>
    /\ pass[u] < 3 /\ Missing(u) # <<>>
    /\ pass' = [pass EXCEPT ![u] = @ + 1]
    /\ chunks' = [chunks EXCEPT ![u] = Pieces(Missing(u), IF pass[u] = 1 THEN RetryChunk ELSE 1)]
    /\ UNCHANGED <<table, profile, lock, pc, list, using, batch, got, writes, tries,
                   page, begun, bounds>>

-----------------------------------------------------------------------------
(* run_score_fit_single(), run_draft_followup_single()                     *)

StartSingle(s, j) ==
    /\ Exists(j)
    /\ Starts(s, "call")
    /\ Ask(s, <<j>>)
    /\ using' = [using EXCEPT ![s] = profile]
    /\ UNCHANGED <<table, profile, lock, list, page, bounds>>

(* The answer is set on the row loaded before the request.  The tasks of a *)
(* single job have no configuration of their own, so the request went      *)
(* through the ranked chain: the row belongs to no session any more, and   *)
(* the session has nothing to write.                                       *)
SingleReply(s) ==
    /\ pc[s] = "call"
    /\ Answered(s, ToSet(batch[s]))
    /\ Goto(s, "commit")
    /\ UNCHANGED <<table, profile, lock, list, using, batch, pass, writes, page, begun, bounds>>

-----------------------------------------------------------------------------
(* After the last request each row is fetched, then changed.  A row of the *)
(* batch that the session still holds is found there, deleted or not.      *)
Apply(a) ==
    /\ a \in Autos \cup Pages
    /\ pc[a] = "call" /\ chunks[a] = <<>>
    /\ a \in Pages => (pass[a] = 3 \/ Missing(a) = <<>>)
    /\ \E held \in {{}, ToSet(batch[a])} :
           writes' = [writes EXCEPT ![a] = Fetched(a) \cup (got[a] \cap held)]
    /\ Goto(a, "commit")
    /\ UNCHANGED <<table, profile, lock, list, using, batch, chunks, pass, got, tries,
                   page, begun, bounds>>

(* A batch is followed by the next, a page by its count. *)
AfterCommit(a) ==
    IF a \in Singles THEN Ends(a)
    ELSE /\ Forget(a)
         /\ Goto(a, IF a \in Pages THEN "count" ELSE "next")
         /\ UNCHANGED <<lock, list, using>>

(* The rows changed are written. *)
Commit(a) ==
    /\ pc[a] = "commit"
    /\ \A j \in writes[a] : Exists(j)
    /\ score' = [j \in Jobs |-> IF j \in writes[a] THEN using[a] ELSE score[j]]
    /\ AfterCommit(a)
    /\ UNCHANGED <<status, profile, page, begun, bounds>>

(* A row to be updated is gone: nothing of the batch or page is written,   *)
(* a warning is logged, and what was counted as scored stays counted.      *)
CommitRaises(a) ==
    /\ pc[a] = "commit"
    /\ \E j \in writes[a] : ~Exists(j)
    /\ AfterCommit(a)
    /\ UNCHANGED <<table, profile, page, begun, bounds>>

(* A transient error: with_db_retry() commits an empty session. *)
CommitLost(a) ==
    /\ pc[a] = "commit" /\ writes[a] # {}
    /\ faults < MaxFaults
    /\ faults' = faults + 1
    /\ AfterCommit(a)
    /\ UNCHANGED <<table, profile, page, begun, changes>>

CountRemaining(u) ==
    /\ pc[u] = "count"
    /\ remaining' = [remaining EXCEPT ![u] = Len(Backlog)]
    /\ Ends(u)
    /\ UNCHANGED <<table, profile, offset, begun, bounds>>

(* An exception that no handler inside takes: an answer whose items are no *)
(* objects, an error of a single request, a failing query.                 *)
Abort(a) ==
    /\ InProgress(a)
    /\ faults < MaxFaults
    /\ faults' = faults + 1
    /\ Ends(a)
    /\ UNCHANGED <<table, profile, page, begun, changes>>

-----------------------------------------------------------------------------
(* The rest of the program, and its users. *)
EditProfile ==
    /\ profile < MaxProfile
    /\ profile' = profile + 1
    /\ UNCHANGED <<table, lock, pc, work, page, begun, bounds>>

(* A job is inserted, changes its status, or is deleted. *)
Change(j) ==
    /\ changes < MaxChanges
    /\ changes' = changes + 1
    /\ \/ status[j] = "absent" /\ status' = [status EXCEPT ![j] = "Saved"]
       \/ status[j] = "Saved" /\ status' = [status EXCEPT ![j] = "other"]
       \/ Exists(j) /\ status' = [status EXCEPT ![j] = "deleted"]
    /\ UNCHANGED <<score, profile, lock, pc, work, page, begun, faults>>

Start ==
    \/ \E a \in Triggers : StartTrigger(a)
    \/ \E a \in Manual \cup Rescores : StartTask(a)
    \/ \E u \in Pages, from \in 0 .. N : StartPage(u, from) \/ PageRefused(u, from)
    \/ \E s \in Singles, j \in Jobs : StartSingle(s, j)

Step(a) ==
    \/ a \in Autos /\ \/ ClearScores(a) \/ ReadJobs(a) \/ NextBatch(a) \/ EndTriage(a)
                      \/ (\E ids \in SUBSET Jobs : AutoReply(a, ids))
                      \/ TooLarge(a) \/ BatchFails(a)
    \/ a \in Pages /\ \/ (\E ids \in SUBSET Jobs : PageReply(a, ids))
                      \/ Retry(a) \/ CountRemaining(a)
    \/ a \in Singles /\ SingleReply(a)
    \/ Apply(a) \/ Commit(a) \/ CommitRaises(a)

TriageNext ==
    \/ Start
    \/ \E a \in Actors : Step(a) \/ CommitLost(a) \/ Abort(a)
    \/ \E a \in Rescores : ClearLost(a)
    \/ EditProfile
    \/ \E j \in Jobs : Change(j)

TriageSpec == TriageInit /\ [][TriageNext]_triageVars

(* What was started goes on: every request ends, by its time-out if need be. *)
FairSpec == TriageSpec /\ \A a \in Actors : WF_triageVars(Step(a))

-----------------------------------------------------------------------------
(* Type invariant. *)
TriageTypeOK ==
    /\ status \in [Jobs -> {"absent", "Saved", "other", "deleted"}]
    /\ score \in [Jobs -> 0 .. profile] /\ profile \in 1 .. MaxProfile
    /\ lock \in Triggers \cup {NoOne}
    /\ pc \in [Actors -> {"idle", "clear", "read", "next", "call", "commit", "count"}]
    /\ list \in [Actors -> Seq(Jobs)]
    /\ batch \in [Actors -> Seq(Jobs)]
    /\ using \in [Actors -> 1 .. MaxProfile]
    /\ chunks \in [Actors -> Seq(Seq(Jobs))]
    /\ pass \in [Actors -> 1 .. 3]
    /\ got \in [Actors -> SUBSET Jobs] /\ writes \in [Actors -> SUBSET Jobs]
    /\ tries \in [Actors -> [Jobs -> 0 .. 3]]
    /\ offset \in [Pages -> 0 .. N] /\ remaining \in [Pages -> 0 .. N]
    /\ mixed \in BOOLEAN
    /\ starts \in 0 .. MaxStarts /\ faults \in 0 .. MaxFaults /\ changes \in 0 .. MaxChanges

(* A triage that writes its scores has asked for each of its jobs: "every  *)
(* job still gets scored/drafted individually once the batch is small      *)
(* enough" (ai.py:826); "Only jobs that survive all retry passes are       *)
(* marked failed" (ai.py:1171).                                            *)
NobodyForgotten ==
    \A a \in Autos \cup Pages : pc[a] = "commit" => \A j \in ToSet(batch[a]) :
        IF a \in Autos THEN tries[a][j] = 1 ELSE j \in got[a] \/ tries[a][j] = 3

(* What a batch or a page reports as scored is in the table when it is     *)
(* committed, unless the job is gone: its rows were fetched after the last *)
(* request, "the only safe ordering" (ai.py:1189).                         *)
ReportedIsStored ==
    [][\A a \in Autos \cup Pages : Commit(a) =>
        \A j \in got[a] \cap ToSet(batch[a]) : Exists(j) => score'[j] = using[a]]_triageVars

(* A request for a single job that ends without an error has stored its    *)
(* score: "Updates job.ai_fit_score and job.ai_fit_reason in the DB"       *)
(* (ai.py:1991).  This does not hold: it never does, the row was detached. *)
SingleIsStored ==
    [][\A s \in Singles : Commit(s) =>
        \A j \in ToSet(batch[s]) : Exists(j) => score'[j] = using[s]]_triageVars

(* "A model that hallucinates or renumbers ids must never score an         *)
(* unrelated row" (ai.py:1203): a page changes the scores of its own jobs. *)
OnlyItsOwn ==
    [][\A u \in Pages : Commit(u) =>
        \A j \in Jobs \ ToSet(batch[u]) : score'[j] = score[j]]_triageVars

(* When a rescore ends that nothing overlapped and no fault met, the scores *)
(* of the saved jobs were computed with one profile: it is there because   *)
(* "fit scores go stale after the candidate profile is edited"             *)
(* (ai_tasks.py:173).                                                      *)
OneScale ==
    [][\A a \in Rescores : (EndTriage(a) /\ ~mixed /\ faults = 0) =>
        \A i, j \in Jobs : (status[i] = "Saved" /\ status[j] = "Saved" /\ score[i] # 0)
                            => score[j] \in {0, score[i]}]_triageVars

(* The two triggers of the worker never send one job to the AI together:   *)
(* the lock keeps them from "double-scoring the same batch of jobs"        *)
(* (worker.py:143).                                                        *)
NotScoredTwice ==
    \A a, b \in Triggers : a # b => ToSet(batch[a]) \cap ToSet(batch[b]) = {}

(* Whatever is in progress ends: when nothing more is started (there are   *)
(* MaxStarts in all), a time comes when nothing is in progress.            *)
TriageEnds == (\E a \in Actors : InProgress(a)) ~> (\A a \in Actors : ~InProgress(a))

(* Every job of a batch is asked for, after halving and retry passes too,  *)
(* and the two triggers of the worker never ask for one together.          *)
EachJobOnce == TriageTypeOK /\ NobodyForgotten /\ NotScoredTwice

(* The commit of a batch or page writes the scores it reports, a page's to *)
(* its own jobs only, and a rescore that nothing overlapped leaves one     *)
(* scale.                                                                  *)
ScoresRight == ReportedIsStored /\ OnlyItsOwn /\ OneScale
=============================================================================
