------------------------------ MODULE SearchRun ------------------------------
(***************************************************************************)
(* run_search() of app/search.py, run by the worker's scheduler and by     *)
(* threads of the web process, and settings_provider_pull() of             *)
(* app/settings.py, which searches one provider without the run lock.      *)
(* They share the search_runs table, the lock file, and two JSON files:    *)
(* the provider cooldowns and the provider run counts of the day.          *)
(*                                                                         *)
(* A JSON file is written by truncating it and writing it again; a reader  *)
(* that meets it in between gets a parse error, which the loaders turn     *)
(* into an empty dictionary.                                               *)
(***************************************************************************)
EXTENDS Naturals, Sequences, FiniteSets, Functions

CONSTANTS
    Runners,        \* threads that call run_search()
    Pulls,          \* threads of settings_provider_pull()
    PullOf,         \* PullOf[u]: the provider pull u searches
    Enabled,        \* the enabled providers, in the order they are searched
    Excluded,       \* of these, unknown or remote-only while remote is off
    MaxRunsPerDay,  \* MaxRunsPerDay[p]: daily limit of p, 0 for none
    CooldownTime,   \* PROVIDER_COOLDOWN_HOURS
    DayLength,      \* ticks of the clock in a UTC day
    NoOne,          \* nobody holds the lock
    MaxTime,        \* bound on the clock
    MaxRows,        \* bound on the rows of search_runs
    Raises,         \* exceptions are raised inside the runs
    MaxUncaught,    \* bound on exceptions outside a try block: in a handler, or in a
                    \* pull before its own
    MaxTransient,   \* bound on transient SQLite errors in commit()
    MaxCrashes      \* bound on threads killed with their process

Providers == Range(Enabled) \cup {PullOf[u] : u \in Pulls}
Actors == Runners \cup Pulls

ASSUME SearchRunAssumption ==
    /\ NoOne \notin Actors
    /\ Enabled \in Seq(Providers)
    /\ Runners \cap Pulls = {}
    /\ PullOf \in [Pulls -> Providers]
    /\ MaxRunsPerDay \in [Providers -> Nat]
    /\ CooldownTime \in Nat \ {0} /\ DayLength \in Nat \ {0}
    /\ Raises \in BOOLEAN
    /\ {MaxTime, MaxUncaught, MaxTransient, MaxCrashes} \subseteq Nat

VARIABLES
    now,        \* the clock
    lock,       \* holder of the flock on .search_run.lock
    rows,       \* status of each row of search_runs
    coolFile,   \* provider_cooldowns.json
    runsFile,   \* provider_daily_runs.json
    pc,         \* where each thread is
    row,        \* row[a]: index of a's row, 0 when it has none
    idx,        \* idx[r]: index of the provider run r is at
    cool,       \* cool[a]: cooldowns as a loaded and changed them
    runs,       \* runs[r]: daily counts as r loaded and changed them
    dirty,      \* dirty[r]: which of the two dictionaries r must save
    outage,     \* outage[p]: end of the cooldown p should be in, 0 for none
    used,       \* used[p]: calls of p that runs have made, by day
    faults      \* transient errors, crashes and uncaught exceptions so far

vars == <<now, lock, rows, coolFile, runsFile, pc, row, idx, cool, runs, dirty,
          outage, used, faults>>

files == <<coolFile, runsFile>>
memory == <<idx, cool, runs, dirty>>
ghosts == <<outage, used>>

-----------------------------------------------------------------------------
Today == now \div DayLength

NoCooldowns == [p \in Providers |-> 0]
NoRuns == [p \in Providers |-> [date |-> 0, count |-> 0]]

(* _load_cooldowns() and _load_daily_runs(): what cannot be read is empty. *)
LoadCooldowns == IF coolFile.whole THEN coolFile.map ELSE NoCooldowns
LoadDailyRuns == IF runsFile.whole THEN runsFile.map ELSE NoRuns

InCooldown(c, p) == now < c[p]

RunsToday(counts, p) == IF counts[p].date = Today THEN counts[p].count ELSE 0

IncrementRuns(counts, p) ==
    [counts EXCEPT ![p] = [date |-> Today, count |-> RunsToday(counts, p) + 1]]

(* Slip: the comparison lets one run too many through. *)
OneTooMany(r, p) == /\ MaxRunsPerDay[p] > 0
                    /\ RunsToday(runs[r], p) > MaxRunsPerDay[p]

LimitReached(r, p) == /\ MaxRunsPerDay[p] > 0
                      /\ RunsToday(runs[r], p) >= MaxRunsPerDay[p]

Skips(r, p) == p \in Excluded \/ InCooldown(cool[r], p) \/ LimitReached(r, p)

(* What search_provider() returns, as far as the run tells results apart;  *)
(* it catches every exception and returns it as an error.                  *)
Outcomes == {"results", "error", "503"}

Goto(a, label) == pc' = [pc EXCEPT ![a] = label]

(* The row of a gets a final status, if the row was ever inserted. *)
Finalise(a, status) == rows' = IF row[a] = 0 THEN rows ELSE [rows EXCEPT ![row[a]] = status]

-----------------------------------------------------------------------------
Init ==
    /\ now = 0
    /\ lock = NoOne
    /\ rows = <<>>
    /\ coolFile = [whole |-> TRUE, map |-> NoCooldowns]
    /\ runsFile = [whole |-> TRUE, map |-> NoRuns]
    /\ pc = [a \in Actors |-> "idle"]
    /\ row = [a \in Actors |-> 0]
    /\ idx = [r \in Runners |-> 1]
    /\ cool = [a \in Actors |-> NoCooldowns]
    /\ runs = [r \in Runners |-> NoRuns]
    /\ dirty = [r \in Runners |-> [cool |-> FALSE, runs |-> FALSE]]
    /\ outage = NoCooldowns
    /\ used = [p \in Providers |-> [d \in 0 .. (MaxTime \div DayLength) |-> 0]]
    /\ faults = [transient |-> 0, crash |-> 0, uncaught |-> 0]

(* Slip: LOCK_NB is tried, and its failure ignored. *)
TakeAnyway(r) ==
    /\ pc[r] = "idle" /\ Len(rows) < MaxRows
    /\ lock' = r
    /\ Goto(r, "locked")
    /\ UNCHANGED <<now, rows, files, row, memory, ghosts, faults>>

(* LOCK_EX | LOCK_NB; a run that finds it taken returns None at once.      *)
TakeLock(r) ==
    /\ pc[r] = "idle" /\ Len(rows) < MaxRows
    /\ lock = NoOne
    /\ lock' = r
    /\ Goto(r, "locked")
    /\ UNCHANGED <<now, rows, files, row, memory, ghosts, faults>>

(* No configuration, no titles, or a scheduled run that is switched off. *)
NothingToDo(r) ==
    /\ pc[r] = "locked"
    /\ Goto(r, "release")
    /\ UNCHANGED <<now, lock, rows, files, row, memory, ghosts, faults>>

(* The row is inserted as "running" and committed. *)
StartRun(r) ==
    /\ pc[r] = "locked" /\ Len(rows) < MaxRows
    /\ rows' = Append(rows, "running")
    /\ row' = [row EXCEPT ![r] = Len(rows) + 1]
    /\ Goto(r, "load")
    /\ UNCHANGED <<now, lock, files, memory, ghosts, faults>>

LoadFiles(r) ==
    /\ pc[r] = "load"
    /\ cool' = [cool EXCEPT ![r] = LoadCooldowns]
    /\ runs' = [runs EXCEPT ![r] = LoadDailyRuns]
    /\ dirty' = [dirty EXCEPT ![r] = [cool |-> FALSE, runs |-> FALSE]]
    /\ idx' = [idx EXCEPT ![r] = 1]
    /\ Goto(r, "provider")
    /\ UNCHANGED <<now, lock, rows, files, row, ghosts, faults>>

SkipProvider(r) ==
    /\ pc[r] = "provider" /\ idx[r] <= Len(Enabled)
    /\ Skips(r, Enabled[idx[r]])
    /\ idx' = [idx EXCEPT ![r] = @ + 1]
    /\ UNCHANGED <<now, lock, rows, files, pc, row, cool, runs, dirty, ghosts, faults>>

(* search_provider() begins: from here API credits are consumed. *)
CallProvider(r) ==
    /\ pc[r] = "provider" /\ idx[r] <= Len(Enabled)
    /\ ~Skips(r, Enabled[idx[r]])
    /\ used' = [used EXCEPT ![Enabled[idx[r]]][Today] = @ + 1]
    /\ Goto(r, "searching")
    /\ UNCHANGED <<now, lock, rows, files, row, memory, outage, faults>>

(* It returns, with results or an error; a 503 starts a cooldown.  Both    *)
(* dictionaries change in memory only.                                     *)
ProviderAnswers(r, outcome) ==
    LET p == Enabled[idx[r]]
        until == now + CooldownTime
    IN  /\ pc[r] = "searching"
        /\ runs' = IF MaxRunsPerDay[p] > 0
                   THEN [runs EXCEPT ![r] = IncrementRuns(@, p)] ELSE runs
        /\ cool' = IF outcome = "503" THEN [cool EXCEPT ![r][p] = until] ELSE cool
        /\ outage' = IF outcome = "503" THEN [outage EXCEPT ![p] = until] ELSE outage
        /\ dirty' = [dirty EXCEPT ![r] = [cool |-> @.cool \/ outcome = "503",
                                          runs |-> @.runs \/ MaxRunsPerDay[p] > 0]]
        /\ idx' = [idx EXCEPT ![r] = @ + 1]
        /\ Goto(r, "provider")
        /\ UNCHANGED <<now, lock, rows, files, row, used, faults>>

(* Slip: the cooldowns are saved only together with the counts. *)
LoopEndsUnsaved(r) ==
    /\ pc[r] = "provider" /\ idx[r] > Len(Enabled)
    /\ Goto(r, IF dirty[r].runs THEN "runs1" ELSE "ingest")
    /\ UNCHANGED <<now, lock, rows, files, row, memory, ghosts, faults>>

(* After the last provider. *)
LoopEnds(r) ==
    /\ pc[r] = "provider" /\ idx[r] > Len(Enabled)
    /\ Goto(r, IF dirty[r].cool THEN "cool1" ELSE IF dirty[r].runs THEN "runs1" ELSE "ingest")
    /\ UNCHANGED <<now, lock, rows, files, row, memory, ghosts, faults>>

(* _save_cooldowns(): truncate, then write. *)
SaveCooldowns(r) ==
    /\ \/ /\ pc[r] = "cool1"
          /\ coolFile' = [coolFile EXCEPT !.whole = FALSE]
          /\ Goto(r, "cool2")
       \/ /\ pc[r] = "cool2"
          /\ coolFile' = [whole |-> TRUE, map |-> cool[r]]
          /\ Goto(r, IF dirty[r].runs THEN "runs1" ELSE "ingest")
    /\ UNCHANGED <<now, lock, rows, runsFile, row, memory, ghosts, faults>>

SaveDailyRuns(r) ==
    /\ \/ /\ pc[r] = "runs1"
          /\ runsFile' = [runsFile EXCEPT !.whole = FALSE]
          /\ Goto(r, "runs2")
       \/ /\ pc[r] = "runs2"
          /\ runsFile' = [whole |-> TRUE, map |-> runs[r]]
          /\ Goto(r, "ingest")
    /\ UNCHANGED <<now, lock, rows, coolFile, row, memory, ghosts, faults>>

(* Slip: the final status is committed before the e-mails are sent. *)
IngestEarly(r) ==
    /\ pc[r] = "ingest"
    /\ Finalise(r, "ok")
    /\ Goto(r, "finish")
    /\ UNCHANGED <<now, lock, files, row, memory, ghosts, faults>>

(* ingest_jobs() and the two e-mails, whose own failures are caught. *)
IngestResults(r) ==
    /\ pc[r] = "ingest"
    /\ Goto(r, "finish")
    /\ UNCHANGED <<now, lock, rows, files, row, memory, ghosts, faults>>

(* "error" when there are notes and no items. *)
FinishRun(r) ==
    /\ pc[r] = "finish"
    /\ \E status \in {"ok", "error"} : Finalise(r, status)
    /\ Goto(r, "release")
    /\ UNCHANGED <<now, lock, files, row, memory, ghosts, faults>>

(* Slip: the exception is logged and the row forgotten. *)
HandleSilently(r) ==
    /\ pc[r] = "handler"
    /\ Goto(r, "release")
    /\ UNCHANGED <<now, lock, rows, files, row, memory, ghosts, faults>>

(* The except clause around the whole run. *)
HandleError(r) ==
    /\ pc[r] = "handler"
    /\ Finalise(r, "error")
    /\ Goto(r, "release")
    /\ UNCHANGED <<now, lock, files, row, memory, ghosts, faults>>

(* Slip: a return that is not under the finally clause. *)
ReturnWithLock(r) ==
    /\ pc[r] = "release"
    /\ lock' = IF row[r] = 0 THEN lock ELSE NoOne
    /\ row' = [row EXCEPT ![r] = 0]
    /\ Goto(r, "idle")
    /\ UNCHANGED <<now, rows, files, memory, ghosts, faults>>

(* The finally clause of run_search(). *)
ReleaseLock(r) ==
    /\ pc[r] = "release"
    /\ lock' = NoOne
    /\ row' = [row EXCEPT ![r] = 0]
    /\ Goto(r, "idle")
    /\ UNCHANGED <<now, rows, files, memory, ghosts, faults>>

-----------------------------------------------------------------------------
(* settings_provider_pull(): the row is committed in the request, the rest *)
(* runs in a thread, without the run lock and without counting the call.   *)
StartPull(u) ==
    /\ pc[u] = "idle" /\ Len(rows) < MaxRows
    /\ rows' = Append(rows, "running")
    /\ row' = [row EXCEPT ![u] = Len(rows) + 1]
    /\ Goto(u, "pullThread")
    /\ UNCHANGED <<now, lock, files, memory, ghosts, faults>>

(* The thread is started, and reads its row. *)
PullEnters(u) ==
    /\ pc[u] = "pullThread"
    /\ Goto(u, "pull")
    /\ UNCHANGED <<now, lock, rows, files, row, memory, ghosts, faults>>

PullAnswers(u) ==
    /\ pc[u] = "pull"
    /\ Goto(u, "pullLoad") \/ Goto(u, "pullError")
    /\ UNCHANGED <<now, lock, rows, files, row, memory, ghosts, faults>>

PullLoads(u) ==
    /\ pc[u] = "pullLoad"
    /\ cool' = [cool EXCEPT ![u] = [LoadCooldowns EXCEPT ![PullOf[u]] = 0]]
    /\ Goto(u, IF LoadCooldowns[PullOf[u]] # 0 THEN "pullSave1" ELSE "pullIngest")
    /\ UNCHANGED <<now, lock, rows, files, row, idx, runs, dirty, ghosts, faults>>

(* _save_cooldowns() without the provider: its cooldown is cleared. *)
PullSaves(u) ==
    /\ \/ /\ pc[u] = "pullSave1"
          /\ coolFile' = [coolFile EXCEPT !.whole = FALSE]
          /\ outage' = outage
          /\ Goto(u, "pullSave2")
       \/ /\ pc[u] = "pullSave2"
          /\ coolFile' = [whole |-> TRUE, map |-> cool[u]]
          /\ outage' = [outage EXCEPT ![PullOf[u]] = 0]
          /\ Goto(u, "pullIngest")
    /\ UNCHANGED <<now, lock, rows, runsFile, row, memory, used, faults>>

PullIngests(u) ==
    /\ pc[u] = "pullIngest"
    /\ Goto(u, "pullFinish")
    /\ UNCHANGED <<now, lock, rows, files, row, memory, ghosts, faults>>

EndPull(u) == row' = [row EXCEPT ![u] = 0] /\ Goto(u, "idle")

FinishPull(u) ==
    /\ pc[u] \in {"pullFinish", "pullError", "pullHandler"}
    /\ Finalise(u, IF pc[u] = "pullFinish" THEN "ok" ELSE "error")
    /\ EndPull(u)
    /\ UNCHANGED <<now, lock, files, memory, ghosts, faults>>

-----------------------------------------------------------------------------
(* An exception inside the try block goes to its handler; before it, only  *)
(* the finally clause runs.  search_provider() lets none escape, and the   *)
(* file helpers swallow theirs.                                            *)
RunRaises(r) ==
    /\ Raises
    /\ \/ pc[r] \in {"load", "provider", "ingest", "finish"} /\ Goto(r, "handler")
       \/ pc[r] = "locked" /\ Goto(r, "release")
    /\ UNCHANGED <<now, lock, rows, files, row, memory, ghosts, faults>>

PullRaises(u) ==
    /\ Raises
    /\ pc[u] \in {"pull", "pullLoad", "pullIngest", "pullFinish", "pullError"}
    /\ Goto(u, "pullHandler")
    /\ UNCHANGED <<now, lock, rows, files, row, memory, ghosts, faults>>

(* The thread cannot be started, or cannot read its row: both come after   *)
(* the commit of the row and before the try block of the pull.             *)
PullNeverStarts(u) ==
    /\ pc[u] = "pullThread"
    /\ faults.uncaught < MaxUncaught
    /\ faults' = [faults EXCEPT !.uncaught = @ + 1]
    /\ EndPull(u)
    /\ UNCHANGED <<now, lock, rows, files, memory, ghosts>>

(* A file cannot be written: a warning is logged and the run goes on. *)
SaveFails(r) ==
    /\ Raises
    /\ \/ pc[r] \in {"cool1", "cool2"} /\ Goto(r, IF dirty[r].runs THEN "runs1" ELSE "ingest")
       \/ pc[r] \in {"runs1", "runs2"} /\ Goto(r, "ingest")
    /\ UNCHANGED <<now, lock, rows, files, row, memory, ghosts, faults>>

(* The handler cannot record the error either: logged by run_search(),     *)
(* uncaught in the thread of a pull.                                       *)
HandlerRaises(a) ==
    /\ faults.uncaught < MaxUncaught
    /\ faults' = [faults EXCEPT !.uncaught = @ + 1]
    /\ \/ pc[a] = "handler" /\ Goto(a, "release") /\ row' = row
       \/ pc[a] = "pullHandler" /\ EndPull(a)
    /\ UNCHANGED <<now, lock, rows, files, memory, ghosts>>

(* A transient error in commit(): the retry commits an empty session, so   *)
(* the thread goes on as after a commit and the row is as it was.          *)
CommitLost(a) ==
    /\ faults.transient < MaxTransient
    /\ faults' = [faults EXCEPT !.transient = @ + 1]
    /\ \/ pc[a] = "locked" /\ Goto(a, "load") /\ row' = row
       \/ pc[a] \in {"finish", "handler"} /\ Goto(a, "release") /\ row' = row
       \/ a \in Pulls /\ pc[a] = "idle" /\ Goto(a, "pullThread") /\ row' = row
       \/ pc[a] \in {"pullFinish", "pullError", "pullHandler"} /\ EndPull(a)
    /\ UNCHANGED <<now, lock, rows, files, memory, ghosts>>

(* The process is killed: the kernel drops the flock, nothing else moves.  *)
Crash(a) ==
    /\ pc[a] # "idle"
    /\ faults.crash < MaxCrashes
    /\ faults' = [faults EXCEPT !.crash = @ + 1]
    /\ lock' = IF lock = a THEN NoOne ELSE lock
    /\ row' = [row EXCEPT ![a] = 0]
    /\ Goto(a, "idle")
    /\ UNCHANGED <<now, rows, files, memory, ghosts>>

Tick ==
    /\ now < MaxTime
    /\ now' = now + 1
    /\ UNCHANGED <<lock, rows, files, pc, row, memory, ghosts, faults>>

RunStep(r) ==
    \/ NothingToDo(r) \/ StartRun(r) \/ LoadFiles(r) \/ SkipProvider(r) \/ CallProvider(r)
    \/ \E outcome \in Outcomes : ProviderAnswers(r, outcome)
    \/ LoopEnds(r) \/ SaveCooldowns(r) \/ SaveDailyRuns(r) \/ IngestResults(r)
    \/ FinishRun(r) \/ HandleError(r) \/ ReleaseLock(r)

PullStep(u) ==
    PullEnters(u) \/ PullAnswers(u) \/ PullLoads(u) \/ PullSaves(u) \/ PullIngests(u) \/ FinishPull(u)

Fault ==
    \/ \E r \in Runners : RunRaises(r) \/ SaveFails(r)
    \/ \E u \in Pulls : PullRaises(u) \/ PullNeverStarts(u)
    \/ \E a \in Actors : HandlerRaises(a) \/ CommitLost(a) \/ Crash(a)

Next ==
    \/ \E r \in Runners : TakeLock(r) \/ RunStep(r)
    \/ \E u \in Pulls : StartPull(u) \/ PullStep(u)
    \/ Fault
    \/ Tick

Spec == Init /\ [][Next]_vars

(* A thread that was started goes on; nobody has to start one. *)
FairSpec == Spec /\ (\A r \in Runners : WF_vars(RunStep(r)))
                 /\ (\A u \in Pulls : WF_vars(PullStep(u)))

-----------------------------------------------------------------------------
RunLabels == {"idle", "locked", "load", "provider", "searching", "cool1", "cool2",
              "runs1", "runs2", "ingest", "finish", "handler", "release"}
PullLabels == {"idle", "pullThread", "pull", "pullLoad", "pullSave1", "pullSave2", "pullIngest",
               "pullFinish", "pullError", "pullHandler"}
Counts == [Providers -> [date : Nat, count : Nat]]
Deadlines == [Providers -> Nat]

(* Type invariant. *)
TypeOK ==
    /\ now \in Nat
    /\ lock \in Runners \cup {NoOne}
    /\ rows \in Seq({"running", "ok", "error"})
    /\ coolFile \in [whole : BOOLEAN, map : Deadlines]
    /\ runsFile \in [whole : BOOLEAN, map : Counts]
    /\ pc \in [Actors -> RunLabels \cup PullLabels]
    /\ row \in [Actors -> Nat]
    /\ idx \in [Runners -> Nat \ {0}]
    /\ cool \in [Actors -> Deadlines]
    /\ runs \in [Runners -> Counts]
    /\ dirty \in [Runners -> [cool : BOOLEAN, runs : BOOLEAN]]
    /\ faults \in [transient : 0 .. MaxTransient, crash : 0 .. MaxCrashes,
                   uncaught : 0 .. MaxUncaught]

(* Runs and pulls go through different steps, and a run that is searching  *)
(* has a provider to search.                                               *)
Labels ==
    /\ \A r \in Runners : /\ pc[r] \in RunLabels
                          /\ pc[r] = "searching" => idx[r] <= Len(Enabled)
    /\ \A u \in Pulls : pc[u] \in PullLabels

(* A thread that has a row of the table has it alone, and until it lets    *)
(* the row go the row is "running"; a run at "release" may have set its    *)
(* final status.                                                           *)
OwnRow ==
    \A a \in Actors : row[a] # 0 =>
        /\ row[a] \in 1 .. Len(rows)
        /\ pc[a] # "release" => rows[row[a]] = "running"
        /\ \A b \in Actors \ {a} : row[b] # row[a]

(* Two runs are never in progress at once, however they were triggered:    *)
(* "don't execute in parallel and hammer provider APIs" (search.py:223).   *)
OneRun == \A r \in Runners : pc[r] # "idle" => lock = r

(* A run never calls a provider more often in a UTC day than its limit.    *)
(* "Count this as a run regardless of outcome (API credits were consumed)" *)
(* (search.py:363).                                                        *)
DailyLimit ==
    \A p \in Providers : MaxRunsPerDay[p] > 0 =>
        \A d \in DOMAIN used[p] : used[p][d] <= MaxRunsPerDay[p]

(* "after a 503 outage, skip that provider for this many hours" (search.py *)
(* :33): no run calls a provider before the end of its cooldown, unless a  *)
(* pull has cleared it.                                                    *)
CooldownRespected ==
    [][\A r \in Runners : CallProvider(r) => now >= outage[Enabled[idx[r]]]]_vars

(* "Wrap the whole body so any failure still gets a final status instead   *)
(* of stranding the row" (search.py:306): no exception in the try block of *)
(* a run or a pull leaves a row at "running".  Only a commit that is lost, *)
(* an exception outside these blocks (in a handler, or in a pull whose     *)
(* thread does not get as far, settings.py:1044-1056) and a thread that is *)
(* killed do, each at most one.                                            *)
Stranded == {i \in 1 .. Len(rows) : rows[i] = "running" /\ \A a \in Actors : row[a] # i}

NoRunStranded ==
    Cardinality(Stranded) <= faults.transient + faults.uncaught + faults.crash

(* A row that has its final status keeps it. *)
FinalIsFinal ==
    [][\A i \in 1 .. Len(rows) : rows[i] # "running" => rows'[i] = rows[i]]_vars

(* The run lock is always let go, so a later run can take it. *)
LockReleased == lock # NoOne ~> lock = NoOne
=============================================================================
