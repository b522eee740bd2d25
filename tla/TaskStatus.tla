----------------------------- MODULE TaskStatus -----------------------------
(***************************************************************************)
(* The background tasks of the web process (app/ai_tasks.py, app/jobs.py)  *)
(* and the status files through which a browser follows them               *)
(* (app/task_status.py).  A task runs in a thread; it hangs a handler on   *)
(* the one logger "app.ai", so what any thread logs there is written into  *)
(* the status of every task whose handler is attached.  A write reads the  *)
(* status object, serialises it into a temporary file and renames that     *)
(* over the status file; only the writes of one handler exclude each other *)
(* (the lock of logging.Handler).  A write that fails is swallowed, as is  *)
(* a failure to read the file or to delete it.                             *)
(***************************************************************************)
EXTENDS Naturals, FiniteSets

CONSTANTS
    Tasks,          \* background tasks of one web process
    NoTask,         \* nobody
    Tabs,           \* tabs of the browser
    TaskOf,         \* TaskOf[v]: the task tab v follows
    MaxLogs,        \* bound on the log calls of a task
    MaxFaults       \* bound on deaths, lost answers and failures of the file

ASSUME TaskStatusAssumption ==
    NoTask \notin Tasks /\ TaskOf \in [Tabs -> Tasks] /\ {MaxLogs, MaxFaults} \subseteq Nat

VARIABLES
    at,         \* where the thread of each task is
    status,     \* status[t]: _data["status"] of the status object
    file,       \* file[t]: the status in task_<id>.json, or "none"
    handlers,   \* tasks whose handler is attached to the logger
    level,      \* the logger's own level: "unset" (WARNING applies) or "info"
    prior,      \* prior[t]: the level t found
    emitting,   \* emitting[t]: thread inside the handler of t
    todo,       \* todo[t]: handlers the record t is logging has yet to reach
    out,        \* out[t]: what t has serialised, and for whose file
    logs,       \* logs[t]: log calls made by t
    page,       \* page[v]: what tab v shows
    reply,      \* reply[v]: what the server is about to answer v, if that ends the page
    crashes,
    lost,       \* tasks of which an answer was lost or a read failed, one for each
    failed,     \* <<t, what>>: the first or the final write of t, or an unlink, that failed
    overlapped  \* two tasks have been running at the same time

taskVars == <<at, status, file, handlers, level, prior, emitting, todo, out, logs, page, reply,
             crashes, lost, failed, overlapped>>
thread == <<status, prior, logs>>
logger == <<handlers, level>>
records == <<emitting, todo>>
browser == <<page, reply, lost>>
history == <<crashes, failed, overlapped>>

Final == {"done", "error"}
Ended == {"off", "over", "dead"}
Fallible == crashes + Cardinality(lost) + Cardinality(failed) < MaxFaults
Fails(t, what) == Fallible /\ failed' = failed \cup {<<t, what>>}
Nothing == [to |-> NoTask, what |-> "none"]
Continue(t, label) == at' = [at EXCEPT ![t] = label]

-----------------------------------------------------------------------------
TaskInit ==
    /\ at = [t \in Tasks |-> "off"]
    /\ status = [t \in Tasks |-> "running"]
    /\ file = [t \in Tasks |-> "none"]
    /\ handlers = {}
    /\ level = "unset"
    /\ prior = [t \in Tasks |-> "unset"]
    /\ emitting = [t \in Tasks |-> NoTask]
    /\ todo = [t \in Tasks |-> {}]
    /\ out = [t \in Tasks |-> Nothing]
    /\ logs = [t \in Tasks |-> 0]
    /\ page = [v \in Tabs |-> "none"]
    /\ reply = [v \in Tabs |-> "none"]
    /\ crashes = 0 /\ lost = {} /\ failed = {} /\ overlapped = FALSE

(* _TaskStatus.__init__() writes the file, or fails to without saying so. *)
FirstWrite(t) ==
    \/ file' = [file EXCEPT ![t] = "running"] /\ UNCHANGED failed
    \/ Fails(t, "first") /\ UNCHANGED file

(* The request: the file is written, the thread starts, and the browser is *)
(* redirected to the page that polls (OpenTab).                            *)
Launch(t) ==
    /\ at[t] = "off"
    /\ overlapped' = (overlapped \/ \E u \in Tasks : at[u] \notin Ended)
    /\ FirstWrite(t)
    /\ Continue(t, "prior")
    /\ UNCHANGED <<thread, logger, records, out, browser, crashes>>

(* prior = ai_log.level; addHandler(); setLevel(INFO). *)
ReadLevel(t) ==
    /\ at[t] = "prior"
    /\ prior' = [prior EXCEPT ![t] = level]
    /\ Continue(t, "add")
    /\ UNCHANGED <<status, file, logger, records, out, logs, browser, history>>

AddHandler(t) ==
    /\ at[t] = "add"
    /\ handlers' = handlers \cup {t}
    /\ Continue(t, "set")
    /\ UNCHANGED <<thread, file, level, records, out, browser, history>>

ForceLevel(t) ==
    /\ at[t] = "set"
    /\ level' = "info"
    /\ Continue(t, "work")
    /\ UNCHANGED <<thread, file, handlers, records, out, browser, history>>

Serialise(t, u) == out' = [out EXCEPT ![t] = [to |-> u, what |-> status[u]]]

(* status.log() called by the task itself, outside its handler's lock. *)
LogDirectly(t) ==
    /\ at[t] = "work" /\ logs[t] < MaxLogs
    /\ logs' = [logs EXCEPT ![t] = @ + 1]
    /\ Serialise(t, t)
    /\ Continue(t, "write")
    /\ UNCHANGED <<status, prior, file, logger, records, browser, history>>

(* A record of app.ai at INFO: it goes to every handler, if INFO is enabled. *)
LogRecord(t) ==
    /\ at[t] = "work" /\ logs[t] < MaxLogs
    /\ logs' = [logs EXCEPT ![t] = @ + 1]
    /\ level = "info"
    /\ todo' = [todo EXCEPT ![t] = handlers]
    /\ Continue(t, "emit")
    /\ UNCHANGED <<status, prior, file, logger, emitting, out, browser, history>>

(* Handler.handle() takes the lock of the handler; emit() appends and      *)
(* serialises.                                                             *)
Emit(t, u) ==
    /\ at[t] = "emit" /\ u \in todo[t] /\ emitting[u] = NoTask
    /\ emitting' = [emitting EXCEPT ![u] = t]
    /\ todo' = [todo EXCEPT ![t] = @ \ {u}]
    /\ Serialise(t, u)
    /\ Continue(t, "emitWrite")
    /\ UNCHANGED <<thread, file, logger, browser, history>>

Emitted(t) ==
    /\ at[t] = "emit" /\ todo[t] = {}
    /\ Continue(t, "work")
    /\ UNCHANGED <<thread, file, logger, records, out, browser, history>>

(* Slip: the object changes and nothing is written. *)
FinishUnflushed(t, outcome) ==
    /\ at[t] = "work"
    /\ status' = [status EXCEPT ![t] = outcome]
    /\ Continue(t, "remove")
    /\ UNCHANGED <<file, prior, logger, records, out, logs, browser, history>>

(* status.done() or status.fail(): the object changes, *)
Finish(t, outcome) ==
    /\ at[t] = "work"
    /\ status' = [status EXCEPT ![t] = outcome]
    /\ Continue(t, "final")
    /\ UNCHANGED <<file, prior, logger, records, out, logs, browser, history>>

(* Slip: fail() writes the file through done(). *)
FlushAsDone(t) ==
    /\ at[t] = "final"
    /\ out' = [out EXCEPT ![t] = [to |-> t, what |-> "done"]]
    /\ Continue(t, "finalWrite")
    /\ UNCHANGED <<thread, file, logger, records, browser, history>>

(* and is then serialised. *)
FlushFinal(t) ==
    /\ at[t] = "final"
    /\ Serialise(t, t)
    /\ Continue(t, "finalWrite")
    /\ UNCHANGED <<thread, file, logger, records, browser, history>>

AfterWrite(t) == CASE at[t] = "write" -> "work"
                   [] at[t] = "emitWrite" -> "emit"
                   [] at[t] = "finalWrite" -> "remove"

(* _flush() is over, and with it the handler it was called from. *)
Leave(t) ==
    /\ emitting' = [u \in Tasks |-> IF emitting[u] = t THEN NoTask ELSE emitting[u]]
    /\ Continue(t, AfterWrite(t))
    /\ out' = [out EXCEPT ![t] = Nothing]
    /\ UNCHANGED <<thread, logger, todo, browser, crashes, overlapped>>

Writing == {"write", "emitWrite", "finalWrite"}

(* os.replace() puts the serialised state in place, whatever is there. *)
Replace(t) ==
    /\ at[t] \in Writing
    /\ file' = [file EXCEPT ![out[t].to] = out[t].what]
    /\ Leave(t)
    /\ UNCHANGED failed

(* Anything that goes wrong on the way there is swallowed: the file stays  *)
(* as it was.  A failure that the next write makes up for costs no fault.  *)
WriteFails(t) ==
    /\ at[t] \in Writing
    /\ IF at[t] = "finalWrite" THEN Fails(t, "final") ELSE UNCHANGED failed
    /\ Leave(t)
    /\ UNCHANGED file

Flush(t) == Replace(t) \/ WriteFails(t)

RemoveHandler(t) ==
    /\ at[t] = "remove"
    /\ handlers' = handlers \ {t}
    /\ Continue(t, "restore")
    /\ UNCHANGED <<thread, file, level, records, out, browser, history>>

(* Slip: the level found at the start is not put back. *)
KeepLevel(t) ==
    /\ at[t] = "restore"
    /\ Continue(t, "over")
    /\ UNCHANGED <<thread, file, logger, records, out, browser, history>>

RestoreLevel(t) ==
    /\ at[t] = "restore"
    /\ level' = prior[t]
    /\ Continue(t, "over")
    /\ UNCHANGED <<thread, file, handlers, records, out, browser, history>>

-----------------------------------------------------------------------------

(* The page of a task is opened: by the redirect, or later in another tab. *)
OpenTab(v) ==
    /\ at[TaskOf[v]] # "off" /\ page[v] = "none"
    /\ page' = [page EXCEPT ![v] = "polling"]
    /\ UNCHANGED <<at, thread, file, logger, records, out, reply, lost, history>>

(* ai_task_poll() reads the file; a missing one is a 404.  While it says   *)
(* "running" the answer changes nothing, whenever it arrives.              *)
Poll(v) ==
    /\ page[v] = "polling" /\ reply[v] = "none" /\ file[TaskOf[v]] # "running"
    /\ reply' = [reply EXCEPT ![v] = IF file[TaskOf[v]] = "none" THEN "not_found"
                                     ELSE file[TaskOf[v]]]
    /\ UNCHANGED <<at, thread, file, logger, records, out, page, lost, history>>

(* The file is there and cannot be read or parsed: the same 404. *)
ReadFails(v) ==
    /\ page[v] = "polling" /\ reply[v] = "none" /\ file[TaskOf[v]] # "none"
    /\ TaskOf[v] \notin lost /\ Fallible
    /\ reply' = [reply EXCEPT ![v] = "not_found"]
    /\ lost' = lost \cup {TaskOf[v]}
    /\ UNCHANGED <<at, thread, file, logger, records, out, page, history>>

(* A file with a final status is deleted, if it is still there; a failure  *)
(* to is swallowed.                                                        *)
Unlinked(v) ==
    IF reply[v] \in Final THEN [file EXCEPT ![TaskOf[v]] = "none"] ELSE file

Unlink(v) ==
    \/ file' = Unlinked(v) /\ UNCHANGED failed
    \/ reply[v] \in Final /\ Fails(TaskOf[v], "unlink") /\ UNCHANGED file

(* The page shows the outcome, or gives up on a 404. *)
Respond(v) ==
    /\ reply[v] # "none"
    /\ Unlink(v)
    /\ page' = [page EXCEPT ![v] = reply[v]]
    /\ reply' = [reply EXCEPT ![v] = "none"]
    /\ UNCHANGED <<at, thread, logger, records, out, lost, crashes, overlapped>>

(* An answer is lost on its way.  The task pages poll again (app.js:881),  *)
(* the interview's gives up (app.js:955).                                  *)
LoseAnswer(v) ==
    /\ page[v] = "polling" /\ TaskOf[v] \notin lost /\ Fallible
    /\ Unlink(v)
    /\ \E shown \in {"polling", "not_found"} : page' = [page EXCEPT ![v] = shown]
    /\ reply' = [reply EXCEPT ![v] = "none"]
    /\ lost' = lost \cup {TaskOf[v]}
    /\ UNCHANGED <<at, thread, logger, records, out, crashes, overlapped>>

(* The web process dies: its threads and its logger go, the files stay. *)
ProcessDies ==
    /\ Fallible
    /\ crashes' = crashes + 1
    /\ at' = [t \in Tasks |-> IF at[t] \in Ended THEN at[t] ELSE "dead"]
    /\ handlers' = {} /\ level' = "unset"
    /\ emitting' = [t \in Tasks |-> NoTask]
    /\ todo' = [t \in Tasks |-> {}]
    /\ reply' = [v \in Tabs |-> "none"]
    /\ UNCHANGED <<thread, file, out, page, lost, failed, overlapped>>

Step(t) ==
    \/ ReadLevel(t) \/ AddHandler(t) \/ ForceLevel(t) \/ Emitted(t)
    \/ (\E u \in Tasks : Emit(t, u))
    \/ (\E outcome \in Final : Finish(t, outcome))
    \/ FlushFinal(t) \/ Flush(t) \/ RemoveHandler(t) \/ RestoreLevel(t)

TaskNext ==
    \/ \E t \in Tasks : Launch(t) \/ LogDirectly(t) \/ LogRecord(t) \/ Step(t)
    \/ \E v \in Tabs : OpenTab(v) \/ Poll(v) \/ ReadFails(v) \/ Respond(v) \/ LoseAnswer(v)
    \/ ProcessDies

TaskSpec == TaskInit /\ [][TaskNext]_taskVars

(* A thread that was started goes on, an open page polls every 2 s, and    *)
(* every poll is answered.                                                 *)
FairTaskSpec ==
    /\ TaskSpec
    /\ \A t \in Tasks : WF_taskVars(Step(t))
    /\ \A v \in Tabs : WF_taskVars(Poll(v)) /\ WF_taskVars(Respond(v))

-----------------------------------------------------------------------------
(* Type invariant. *)
TaskTypeOK ==
    /\ at \in [Tasks -> Ended \cup {"prior", "add", "set", "work", "write", "emit",
                                    "emitWrite", "final", "finalWrite", "remove", "restore"}]
    /\ status \in [Tasks -> {"running"} \cup Final]
    /\ file \in [Tasks -> {"none", "running"} \cup Final]
    /\ handlers \subseteq Tasks
    /\ level \in {"unset", "info"}
    /\ prior \in [Tasks -> {"unset", "info"}]
    /\ emitting \in [Tasks -> Tasks \cup {NoTask}]
    /\ todo \in [Tasks -> SUBSET Tasks]
    /\ page \in [Tabs -> {"none", "polling", "not_found"} \cup Final]
    /\ reply \in [Tabs -> {"none", "not_found"} \cup Final]
    /\ failed \subseteq Tasks \X {"first", "final", "unlink"}

(* Some tab shows the outcome of t. *)
Seen(t) == \E v \in Tabs : TaskOf[v] = t /\ page[v] \in Final

(* The outcome a page shows is the outcome of its task, however the writes *)
(* of several threads into its file are interleaved.                       *)
ShownIsTrue ==
    \A v \in Tabs : page[v] \in Final => page[v] = status[TaskOf[v]]

(* A page that shows "task may have already completed" (app.js:859) is     *)
(* right: the task has an outcome and a tab has got it.  The exceptions    *)
(* are a lost answer or a failed read, and a first write that was          *)
(* swallowed (task_status.py:80): then the task may still be running.      *)
NotFoundIsTrue ==
    \A v \in Tabs : page[v] = "not_found" =>
        LET t == TaskOf[v]
        IN t \in lost \/ <<t, "first">> \in failed \/ (status[t] \in Final /\ Seen(t))

(* Threads that log into each other's status never block each other for    *)
(* good, and a crash leaves no lock behind.                                *)
ThreadsEnd == \A t \in Tasks : (at[t] \notin Ended) ~> (at[t] \in Ended)

(* What follows holds as long as tasks run one after the other, and not    *)
(* when they overlap, which nothing in the code prevents.                  *)

(* Every page of a task comes to an end, and one of them with its outcome: *)
(* a poll delivers "the final state" (task_status.py:133) once.  A page    *)
(* that ends without it has lost an answer, failed to read the file or     *)
(* polled after a first write that was swallowed; and when the final write *)
(* is (task_status.py:80) the page polls for ever.                         *)
OutcomeDelivered ==
    \A v \in Tabs : LET t == TaskOf[v] IN
        (page[v] = "polling") ~>
            \/ page[v] # "polling" /\ (Seen(t) \/ t \in lost \/ <<t, "first">> \in failed)
            \/ <<t, "final">> \in failed \/ overlapped \/ crashes > 0

(* "Clean up completed task files after delivering the final state"        *)
(* (task_status.py:133): no file is left when thread and page are done,    *)
(* unless the unlink itself failed.                                        *)
FileCleanedUp ==
    \A t \in Tasks : (at[t] = "over" /\ Seen(t) /\ ~overlapped)
                         => file[t] = "none" \/ <<t, "unlink">> \in failed

(* "force INFO on the ai logger so call_with_fallback provider-selection   *)
(* messages reach the handler" (ai_tasks.py:205), while the task works.    *)
InfoWhileWorking == \A t \in Tasks : (at[t] = "work" /\ ~overlapped) => level = "info"

(* When no task is running the logger is as the first one found it. *)
LevelPutBack ==
    ((\A t \in Tasks : at[t] \in Ended) /\ ~overlapped) => level = "unset" /\ handlers = {}

(* What a poll shows is the outcome of its task, and no status file        *)
(* outlives it, whatever other threads log into it meanwhile.              *)
StatusTrue == TaskTypeOK /\ ShownIsTrue /\ NotFoundIsTrue /\ FileCleanedUp

(* The shared ai logger is at INFO while a task works and is given back as *)
(* it was found (ai_tasks.py:204-241), if no two tasks have overlapped.    *)
LoggerKept == InfoWhileWorking /\ LevelPutBack

(* Every task that is started ends, and its page ends with the outcome.    *)
TaskEnds == ThreadsEnd /\ OutcomeDelivered
=============================================================================
