# Verification of Job Squire

TLA+ models of Job Squire (`src/`), the TLC runs that check them, and theorems
about them checked by TLAPS. Everything here is derived from the code under
`src/`; where a comment, docstring or test states an intention, it is quoted
next to the property that states it formally.

To repeat the work, from this directory:

    tlc -workers 2 -config MCIngest.cfg MCIngest.tla     # any run of PROJECT.json
    for m in Ingest Background AI Vault Access Documents Lifecycle Exposure
    do tlapm ${m}Proofs.tla; done                        # the theorems, some minutes each

`PROJECT.json` lists the components, the runs with their properties, the source
lines each definition models (`map`), the hazards and the theorems. For every
property it also lists a *mutant*: a plausible slip in the
code ("Slip:" in the modules) under which the property fails. The slips are
definitions nothing uses; they show that a property is able to fail. Where a
document, a message or a docstring says more than the code does, the modules state
that claim too, under a name no run checks; section 4 lists these claims, and TLC
refutes each when it is given as an INVARIANT or PROPERTY.

## 1. The system

Job Squire is a self-hosted job-search assistant: Flask pages, an AI layer, a
scheduler and an MCP server, all on one SQLite file, and a command-line program
that installs and operates instances of it in containers. In one container s6
runs three services:

- **web**: gunicorn, two worker processes with threads, started by `wsgi.py`;
  long jobs run in daemon threads of these processes;
- **worker**: one process, an APScheduler with the search, triage, alert and
  backup jobs (`app/worker.py`);
- **mcp**: one process, the MCP server with its own OAuth (`app/mcp_server.py`).

They share `/data`: the database (WAL mode, 30 s busy time-out, one session per
request or thread), JSON files, lock files and the encrypted PII vault.

### Inventory

| Component | State it keeps | Operations | Interacts with | What is hard | What makes it correct |
|---|---|---|---|---|---|
| Ingestion (`search.py` `ingest_jobs`, `db_utils.py`) | `jobs` table, session | dedupe, insert, commit, retry | called from search runs, pulls, `POST /api/ingest`, the MCP tool `add_jobs` | concurrent calls in several processes, UNIQUE conflicts, retry after rollback | ids unique; what is reported created is stored; what is skipped is there; a conflict costs no other row |
| Search runs (`search.py` `run_search`, `settings.py` pull, `worker.py`) | `search_runs`, lock file, two JSON files | run, skip, call, save, pull | providers, ingestion, e-mail | triggers in two processes, an hour between load and save, exceptions, kills | one run at a time, lock released, a final status once, limits and cooldowns kept |
| Background tasks (`ai_tasks.py`, `jobs.py`, `task_status.py`) | status files, logger level and handlers | start, log, poll, finish | the shared logger `app.ai`, the polling page | threads writing each other's files, save and restore of a shared level | the page gets the true outcome, no file is left, messages are seen |
| AI provider chain (`ai.py` `call_with_fallback`) | provider rows, task settings, session | look-up, call, fail over | every AI task, redaction, settings | look-up order, which errors go on, settings that change meanwhile | fails only when exhausted, ranks kept, nobody called twice, redaction by consent |
| Triage and other AI jobs (`ai.py`, `worker.py`) | scores, drafts, kits, stamps | batch, shrink, retry, score | provider chain, jobs, worker lock | writes after `db.session.remove()`, paging over a shrinking query | every job scored, what is reported is stored |
| Redaction and vault (`privacy.py`, `crypto.py`) | encrypted mapping file | redact, rehydrate, lock, merge | provider chain, MCP tools, manual export and import | two processes, one file; records edited between the text and its answer | every placeholder shown can be turned back, is turned back before it is stored, and no value leaves |
| Kits, attachments, resumes (`kits.py`, `kit_export.py`, `docgen.py`, `resume_convert.py`) | rows and files | generate, replace, delete, export | AI, file system | files and rows change separately; a kit is written for minutes; ids are given again | rows and files agree, a job shows one kit and its own, one base resume |
| Schema (`__init__.py` `_init_db`, `models.py`) | tables, columns, indices, seeds | create, migrate, seed | all three processes at start | three processes at once | idempotent, run once at a time |
| MCP server and OAuth (`mcp_server.py`, `mcp_auth.py`, `mcp_token_cli.py`) | clients, codes, tokens, the static key, rate buckets | register, authorize, exchange, revoke, configure, tools | the database, the CLI | an in-memory copy beside a file others write, limits checked before an `await`, single use, expiry | revoked means refused, granted means served, a code is good for one token, the printed key works |
| Accounts (`auth.py`, `forms.py`) | users, session stamps | log in, log out, change the password | all pages | a login and a change overlap | whoever knows only an earlier password is signed out |
| Pages (`jobs.py`, `contacts.py`, `main.py`, `onboarding.py`) | single rows | forms, bulk actions | ingestion, tasks | double submits | status history agrees with status |
| Settings (`settings.py`, `deploy.py`, `websearch.py`, `ollama_provider_cli.py`) | configuration rows | edit, toggle, pull | chain, search | edits during work | see chain, search |
| Scheduler (`worker.py`, `timezones.py`) | APScheduler jobs | run, reschedule | search, triage, alerts | overlap of jobs | one triage at a time |
| E-mail, prompts, rendering (`notify.py`, `prompts.py`, `docgen.py`) | none | build text | – | – | text |
| Backup inside the container (`backup.py`, `backup_cli.py`, `secrets_copy_cli.py`) | archives | snapshot, prune | the database in use | a consistent copy | archive restorable |
| CLI life cycle (`ops/lifecycle.py`, `registry.py`, `runtime.py`, `compose.py`, `ports.py`, `dotenv.py`, `uninstall.py`) | registry, directories, volumes, containers, images | create, start, update, roll back, remove, uninstall | container runtime, backups | failure between steps, two terminals, names that contain each other | an instance opens its own data, kept data stays, a good image stays named |
| CLI backup and secrets (`ops/backup.py`, `backup_crypto.py`, `secrets_copy.py`, `crypto_mirror.py`) | archives | back up, restore, copy | life cycle | a database copied under an older log | a restore gives back all the archive holds |
| CLI network (`ops/proxy.py`, `tailscale.py`, `dns.py`) | Serve ports, `tailscale.json`, proxy and DNS configurations | enable, disable, proxy, dns, tear down | Tailscale, the container runtime, other instances | six steps that may each fail; ports, client and proxy shared by instances | the recorded stage is true, provisioned means reachable, shared things stay |
| CLI self-update, Ollama assistant, commands, queries | little | check, install, print | network | – | – |
| Start-up scripts, browser code | none | – | – | order of services | – |

The hazards of this code, each at its line, are the `hazards` of `PROJECT.json`.
Six of them name no property, with the reason.

## 2. The modules

| Module | Models | Built on |
|---|---|---|
| `JobPostings` | postings, and the three notions of "the same job" | – |
| `JobStore` | abstract: what one call of `ingest_jobs()` promises | `JobPostings` |
| `Ingest` | `ingest_jobs()` by concurrent callers, `with_db_retry()` | `JobPostings`; refines `JobStore` |
| `IngestProofs` | the theorems about `Ingest` | `Ingest`, TLAPS |
| `SearchRun` | `run_search()`, the provider pull, their files | – |
| `TaskStatus` | task threads, shared logger, status files, polling pages | – |
| `BackgroundProofs` | the theorems about `SearchRun` and about `TaskStatus` | `SearchRun`, `TaskStatus`, TLAPS |
| `ProviderChain` | one AI request through the provider chain | – |
| `Triage` | automatic triage, rescore, pages of the backlog, single scores | – |
| `AIProofs` | the theorems about `Triage` and about `ProviderChain` | `ProviderChain`, `Triage`, TLAPS |
| `Vault` | redaction and rehydration in the MCP tools, the chain, the manual mode | – |
| `VaultProofs` | the theorems about `Vault` | `Vault`, TLAPS |
| `Access` | OAuth of the MCP server, its token file, the static key, logins | – |
| `AccessProofs` | the theorems about `Access` | `Access`, TLAPS |
| `Documents` | rows that name files: attachments, kits, resumes | – |
| `DocumentsProofs` | the theorems about `Documents` | `Documents`, TLAPS |
| `Lifecycle` | the commands that create, update, remove, back up and restore instances | – |
| `LifecycleProofs` | the theorems about `Lifecycle` | `Lifecycle`, TLAPS |
| `Exposure` | the commands that make instances reachable: Tailscale, proxy, DNS | – |
| `ExposureProofs` | the theorems about `Exposure` | `Exposure`, TLAPS |
| `MC…` | small instances of these | the module named |

The modules share no variables: each part touches the next through a call that the
other's module treats as one step (`ingest_jobs()` in `SearchRun`, a request to the
chain in `Triage`), or through rows it only reads. The composition that the code's
correctness rests on is inside a module each time: several callers, processes,
threads, tabs or terminals on one store.

### Ingest

Each call `c` of `ingest_jobs()` has its own `pc`, position in its batch, lists
of created and skipped items, and the rows `flushed` in its open transaction;
`table` holds what is committed. One action per database operation: the two
look-ups are separate SELECTs (`LookupByExt`, `LookupByTitle`), then the flush
(`FlushRow`, `FlushConflict`), and the `Commit`. SQLite is modelled from how it
is used: a SELECT reads committed rows and the call's own; the first INSERT
takes the single write lock until commit or rollback. `begin_nested()` flushes
before its savepoint exists, so the INSERT is part of the outer transaction, and
the handler of `IntegrityError` rolls back that whole transaction.
`FlushTransient` and `CommitTransient` are `with_db_retry()`: the rollback
expunges what was pending, and the retried function succeeds on an empty
session. `Abort` is any exception that escapes, or the death of the process.

`Norm` and `DbLower` are parameters: Python's `lower()` and SQLite's, which
folds ASCII letters only. The only assumption is that a name SQLite leaves equal
to a folded name folds to it.

### SearchRun

Runners are the threads that call `run_search()` (the scheduler's, and those of
the settings and set-up pages); pulls are the threads of
`settings_provider_pull()`. A run takes the `flock`, commits its row as
`running`, loads both JSON files, goes through the providers, saves each
dictionary it changed (truncate, then write: a reader in between finds an empty
dictionary), ingests, sets the final status, and releases the lock. A pull
does its work without the lock. Faults: exceptions at every place they can
arise, files that cannot be written, a handler that raises, a pull that raises
after it committed its row and before its `try` (`PullNeverStarts`: its thread
cannot start or cannot read the row), a commit lost to
`with_db_retry()`, a killed process (the kernel releases the lock).
`ingest_jobs()` is one step here: it does not touch this module's state. E-mail
failures are caught and leave nothing behind, so e-mails are left out. The two
ghost variables record what really happened: `outage` (until when a provider
should be left alone) and `used` (calls of a provider per day).

### TaskStatus

Each task is a thread that sets its status object up, attaches a handler to the logger
`app.ai`, forces its level to INFO, works, and tidies up. A record it logs is delivered
to every attached handler in turn; each delivery is serialise, then rename, under the
lock of that handler; the final flush is the same without that lock. A write that fails,
at whatever point, is swallowed and leaves the file as it was (`WriteFails`,
`FirstWrite`), as are a read that fails (`ReadFails`, a 404) and an `unlink` that does
(`Unlink`); `failed` remembers the writes that nothing makes up for, the first and the
final one. Several tabs may follow one task (`TaskOf`): each polls until it gets a final
status or a 404. A poll is two steps, `Poll` reads the file and `Respond` unlinks a
finished one and answers; `LoseAnswer` is an answer that never arrives. A page is
assumed to wait for one answer before its next poll, although a slow answer may be
overtaken by the next tick of its timer. Nothing in the code prevents two tasks at the
same time; the ghost variable `overlapped` remembers that it happened, and the
properties that then fail (section 4) are stated for tasks that did not overlap.

### ProviderChain

One request: primary, backup, ranked chain, legacy key. `view` is what the
session has loaded (it is renewed only by `db.session.remove()` before the
chain), `rows` and `setting` the database, which `Edit` changes meanwhile. The
session is opened before the request begins (stage `opened`): a scheduled task holds
the row of `ai_config` for a whole batch, so that a request may start with settings
that changed since. What nothing holds may have been dropped and read again
(`Reread`). The actions are the outcomes of `_try_one()`: `Skip` (tried before, not enabled for
this kind of work, prompt too large, no URL), `Call`, and then `Succeed`,
`AnswerNull`, `FailOver` (429, 503, 529, time-out) or `FailHard` (anything
else). The filter of the chain's query is applied when the turn of a row comes; it reads
the same, for what the session has loaded stays until the end.

### Triage

One program counter for each thread: the two triggers of the worker, which try
the lock `_triage_lock` and skip their turn when it is taken; the rescore and
triage tasks of the web process, which cannot see that lock; users of the
backlog page; and threads that score one job. Each reads the profile and its
jobs, makes requests, and writes at the end. A request is one action, `AutoReply`
(any set of the batch's jobs, and perhaps one other: the answer comes from a
language model), `TooLarge` (the batch is halved), `BatchFails`, `PageReply`,
`Retry`, `SingleReply`. `writes` is what the session would send: `Apply` fetches
the rows again after the last request, `SingleReply` sets them on a row that is
detached: the task of a single score has no settings of its own, so its request
always comes to the ranked chain and its `db.session.remove()`. Jobs arrive,
change status and are deleted, and the profile is edited, at any time.
`tries` counts the requests that held a job, a ghost variable; `mixed` remembers
that two triages were in progress together.

### Vault

A text is one token: a value, a placeholder, or the marker left for a stripped
sentence. Values come in the classes the code tells apart: names and organisations,
found because some row holds them; shapes a built-in pattern recognises; shapes of an
operator's pattern, whose label the placeholder pattern may not read back; and sensitive
sentences. `Fold` maps the spellings of one value together, as the digest of
`make_placeholder()` does. A placeholder is the pair of the secret and the folded value.

A process goes through the steps of its kind: an MCP tool brings text in (`Match`,
`Look`, `Store`), runs (`Tool`), and sends text out; a call of the provider chain sends
it out, once per provider, and takes an answer in (`Answer`); export sends out, import
takes in. On the way out `Gate` reads whether redaction is on, `Collect` reads the names
of the database, `Lock`, `ReadVault`, `WriteVault` or `WriteFails` merge the new mapping
under the `flock`, and `Leave` sends. A vault that cannot be read or parsed reads as an
empty one (`ReadVaultFails`, `LookFails`): a process is then `blind`, and its write
replaces what it did not see. Meanwhile records are added and deleted, redaction is
switched, `SECRET_KEY` rotates, and processes die.

### Access

Three parts that share no state, so a behaviour is about one of them (`part`):

- *OAuth.* The server is one event loop: a handler is `Open`, up to the `await` of the
  body, and one action after it (`Register`, `Authorize`, `Token`, `Revoke`, or
  `Refuse`). `tokens` is its copy in memory, `fresh` the two seconds it is believed,
  `file` what is on disk; `Save` may fail, which the code only logs. `Call` is a request
  of a tool, which loads the file when the two seconds are over; a file that cannot be
  read or parsed reads as an empty one (`blind`). The web processes read the file
  (`EditRead`) and write it back (`EditWrite`). `Restart` empties the memory.
- *The static key.* The web page reads the row (`WebRead`) and commits the columns it
  changed (`WebCommit`); the program in the container that each terminal's `configure`
  runs (`CliRead` … `CliClear`), the instance's entry of `mcp.json` (`CliQuery`,
  `SetToken`), and the throttled stamp of the key's last use (`UseKey`, `StampKey`).
- *Accounts.* Login and change of the password, each a read and a commit (`LoginRead`,
  `LoginDone`, `ChangeRead`, `ChangeDone`), by two web processes.

Ids, codes, tokens and keys are numbered in the order drawn: they are assumed never to
repeat. Time is an ageing action for each clock (`CacheAges`, `TokenAges`, `WindowAges`,
`KeyAges`).

### Documents

The requests of two processes and their background threads, each in the code's order:
file then commit (`Upload`, `UploadDone`; `Render`, `AttachDone`; `WriteDraft`,
`VariantDone`, `SourceDone`), or file removed, then commit (`Remove`, `ForgetDone`;
`Unlink`, `UnassetDone`, `SucceedDone`). Building a kit is `Compose` (the long request),
`KitText`, `ReadEarlier`, `Render`, `AttachDone`. Any request may stop between two
steps (`Abort`), or its commit may be lost to `with_db_retry()` (`CommitsNothing`). Ids
are what SQLite gives: one more than the highest in the table, so that of a deleted last row
is given again. The ghosts `recycled`, `mixed`, `torn` and `murky` remember where that,
an overlap or a fault happened.

### Lifecycle

Of an instance four things can disagree: its entry in `instances.json`, its directory
with the compose file and the two `.env` files, its container, and its named volume. A
`secret` stands for what is made afresh for an instance and must agree between
`data/.env` and the database. A command is the chain of its steps (`pc` of its terminal),
and each call of the container runtime may fail as the code allows; the registry's
read, change and write through one temporary file are two steps (`AddLoad`, `AddPut`).
`volume ls --filter name=` matches parts of names: `Match`. A database that is copied
under a container's log is `wal = "foreign"`. A removal with `--remove-image` reads the
registry (`Rmi`), then one compose file after another (`LookForUse`), and then calls `rmi`
(`RemoveImage`), which the runtime refuses while a container has the image; `late` is the
names that came to name the image in between. `Interrupt` is Ctrl-C or a crash at any step.

### Exposure

One terminal, one command after the other, each a chain of steps that may fail
(`Fault`) or be interrupted. `tailscale enable` is six steps: `Checks`, the two ports
(`EnableWeb`, `EnableMcp`, undone by `Undo`), `Record`, `EnableEnv`, `EnableUp`,
`EnableUrl`; `disable` takes the same apart from any stage. `proxy` is `DetectProxy`,
`InstallSwag`, `Attach`, `InstallConfs`, `Reload`; `dns` writes SWAG's settings; `remove` and
`uninstall` offer what nobody else seems to need. Tailscale, the container runtime and
the operator's own proxy are external. `conf` is what is in the proxy's directory and
`live` what nginx has loaded; a conf claims the leftmost label of its instance's
hostname (`Label`), as the code writes it. A call of `tailscale serve` may time out and
have done its work (`ServeStep`, `OffStep`), and an error that passes for success may
leave a port on (`TurnOff`): `loose` holds such ports. A `tailscale.json` that cannot be
read counts as off where another instance's command looks (`OfferClient`), and a `ps`
that fails shows no proxy.

## 3. The runs

Every bound is a constant of the configuration named. Groups: a module's run checks a
few properties that are conjunctions of the named parts below, each with a comment of
its own in the module; the type invariant is the first part of one of them.

| Run | What it shows | Bounds, and why they are enough |
|---|---|---|
| `ingest` | `CreatedDurable`, `SkippedRepresented`, `NameGuard`, and the refinement of `JobStore` (`StoreSpec`) | two calls, every batch of up to two of three postings that share an id, a name or neither, and three longer ones; two calls suffice for a race, and the batches for every pair of look-ups to disagree with an insert |
| `ingest_faults` | `UniqueExternal`, `ConflictCostsNothing`; every call ends (`EveryCallEnds`) | three calls (a waiter behind a waiter), two transient errors |
| `search` | `DailyLimit`, `CooldownRespected` without failures | two runners, two providers, one with a limit; two days of two ticks, cooldown of two ticks, three rows: midnight, expiry and overlap all occur |
| `search_faults` | `OneRun`, `LockReleased`, `FinalIsFinal`; each fault strands at most one row (`NoRunStranded`) | two runners and a pull; one lost commit, one exception outside the `try` blocks (in a handler, or in a pull before it enters), one kill, and any exceptions inside |
| `task` | `StatusTrue`: no page shows a wrong outcome or a wrong 404, no file is left; `LoggerKept`: INFO while a task works, put back after; `TaskEnds`: threads end, the outcome is delivered | two tasks, at once or one after the other, one log call each, two tabs on the first, one crash, lost answer, failed read, or failed first write, final write or unlink; other writes may fail at will, a later one makes up for them: a record of one task reaches the handler of the other at every point of its life, and the tabs compete for one file |
| `chain` | `FailsRightly`: gives up only when exhausted, and says so; `CalledInOrder`: ranks kept, nobody called twice; `RawOnlyIfAgreed` | all assignments of three providers, two cloud and one local, each good, unable, too small or without URL, any primary, backup, chain and legacy setting, every kind of answer; one edit, before the request begins (its session is older) or during it |
| `triage` | `EachJobOnce`: every job of a batch is asked for, the two triggers never share one; `ScoresRight`: nothing reported is lost, a page scores its own jobs, a rescore leaves one scale; `TriageEnds` | two jobs, of which one arrives later, is moved or deleted; any two of two triggers, a rescore, a page and a single score, so every pair meets; batches of two, which can be halved; one edit of the profile, one lost commit or exception |
| `vault` | `ValuesComeBack`: every placeholder shown resolves, and none is stored for a value; `NothingLeaves`; `VaultKept`: no write loses or changes a mapping, no lock is left | two processes, two spellings of one name, one value of each other class, two providers in a chain, two calls, one edit, one failed read or write, rotation or crash: two merges of one file overlap, and a record changes between a text and its answer |
| `access` | `RevokedRefused`, `TokensRight`: granted means served, one token per client, one login per token; `RegistrationBounded`; `SessionKnowsPassword`; `KeyRight`: the printed key works, "last used" is about it, `generate` does not replace it | two open requests, two web processes, two browsers, two clients, two registrations and one failed login per window, eight operations, one failed read, write or step: enough to register, sign in, exchange, sign in again, edit, revoke and restart; for the static key two terminals and two web processes, four operations: two `generate` cross, and the page commits over either while a call is stamped |
| `documents` | `RowsAndFiles`, `KitRight`, `OneBase` | two processes; three requests about jobs or four about resumes, three postings, one fault: two builds, a build and a deletion, a deletion and a new posting under its id overlap; a base is deleted while another is saved |
| `lifecycle` | `RegistryTrue`, `DataKept`, `GoodImageKept`, `NothingNeededLost` | two names, one a part of the other, two images of which one does not come up, two terminals, three commands, one failure or interruption: a create, an update or restore, and a removal, alone or overlapping; a removal looks at one compose file after another |
| `exposure` | `StageIsTrue`, `ProvisionedRouted`, `SharedKept` | two local instances (four commands), two network instances (five), or one of each (three); two pairs of Serve ports that share one port, two container networks, three hostnames two of which share their leftmost label; two failures, a time-out that took effect among them: one to leave a partial state, one more in the command that takes it up |

Requests, processes, browsers, terminals and interchangeable instances are symmetry
sets where the run checks no liveness.

Deadlock is checked except where the system may stop: no scheduler has to start another
run, tasks end, a request ends, nobody has to type a command. In `Ingest` the explicit
stutter `AllOver` marks the only state in which it may.

**Fairness.** `Ingest`: a call that can take a step does so (its thread runs; a
writer that waits for the lock is let in when it is free, which the busy
time-out of 30 s stands for). `SearchRun` and `TaskStatus`: a thread that was
started goes on; an open page polls every two seconds, and a poll gets an answer unless
it is lost. `Triage`: the same; a
request ends, by its time-out if nothing else. Nobody is obliged to
start a run or a task, and no fault is ever obliged to happen. All of it is weak
fairness; strong fairness is not needed. `Vault`, `Access`, `Documents`, `Lifecycle`
and `Exposure` state no fairness: what they promise is safety, and a command or
request that stops half-way is a behaviour their properties must survive.

## 4. What holds only under a condition

The properties say what the code does. Where the code does less than a
comment, a document or a plain reading promises, the property carries the restriction,
and the module shows the rest when TLC is given the property without it. These are the
restrictions, and what happens outside them.

Some claims of the documents, messages and docstrings have no restriction under which
they would still say something. The modules state them as they are made; no run checks
them, and TLC refutes each on the small instance of its module's run (`RemovalSparesOthers`
needs a fourth command: `MaxCommands = 4`, one terminal, `MaxFaults = 0`, no symmetry):

| Claim | Made at | What the code does |
|---|---|---|
| `SingleIsStored` (`Triage`) | `run_score_fit_single()` "Updates job.ai_fit_score and job.ai_fit_reason in the DB" (`ai.py:1991`) | never: the task `score_fit` has no `AITaskConfig` row (`settings.py:329-333`), so each request comes to the ranked chain (`ai.py:461-467`), whose `db.session.remove()` detaches the job; the commit (`ai.py:2017-2019`) has nothing to write, and the score is returned as stored. `run_draft_followup_single()` is the same (`ai.py:2079`) |
| `RolledBack` (`Exposure`) | "no Tailscale Serve ports were left on for … (rolled back)" (`tailscale.py:908`) | the undo turns off the web port only (`tailscale.py:905`); a call for the MCP port that takes more than 30 seconds counts as failed and may have taken effect (`tailscale.py:789-792`), and that port stays on with stage NONE recorded |
| `ServingClientKept` (`Exposure`) | "True if any currently-registered instance has Tailscale Serve on" (`commands.py:730`) | an instance whose `tailscale.json` cannot be read is passed over (`commands.py:738-739`), and the client is offered for removal while it serves that instance |
| `RoutedByHostname` (`Exposure`) | "The reverse proxy routes each instance by its own hostname" (`docs/multi-instance.md:28`) | `server_name` is the leftmost label with any domain (`proxy.py:157, 199, 257-261`), nothing compares the labels of two instances, and nginx takes the first of two that claim one |
| `ImageNeverPulledOut` (`Lifecycle`) | "a shared `:latest` tag used by a sibling instance is never pulled out from under it" (`compose.py:572-577`) | the compose files are looked at one by one (`lifecycle.py:679`) and `rmi` runs afterwards (`:682`); a create in another terminal that registers its instance meanwhile loses its image |
| `RestoredInFull` (`Lifecycle`) | "the data is fully restored either way" (`docs/backup-restore.md:88`) | a restore over an existing instance leaves its volume (`backup.py:570` has no `-v`), and `docker cp` adds to it (`:510`): the log of a container that was killed stays beside the restored database. `scripts/restore.sh` removes the volume first (`docs/backup-restore.md:123`) |
| `RemovalSparesOthers` (`Lifecycle`) | "removing an instance must never silently destroy someone's job-search history" (`docs/job-squire-cli.md:461-462`) | the sweep removes every volume that `volume ls --filter name=` shows for the key (`lifecycle.py:665-670`), and the key of `work` is a part of the key of `work-data`, whose kept volume goes with it |
| `RemovedIsDown` (`Lifecycle`) | "Tear the container down, update the registry" (`lifecycle.py:589`) | the result of `compose down` is not looked at (`lifecycle.py:658`): after a failure the instance is unregistered and its container runs on |

**Ingestion, search, tasks, chain, triage**

- `CreatedDurable`, `SkippedRepresented`: no transient errors. `with_db_retry()` rolls
  back and calls again; the session is then empty, so the retry succeeds and a job is
  reported as created that is in no table.
- `NameGuard`: one call, and names SQLite folds as Python
  does. Two concurrent calls store a job without an external id twice, and one
  call does so for a name with a capital letter outside ASCII (`École`).
- `DailyLimit`: no failures. The count is kept in memory until the last provider is
  searched; an exception in between loses it.
- `CooldownRespected`: no failures, and no pulls. A pull that loads, edits and saves
  the cooldown file beside a run loses the cooldown the run saved, or the run
  writes one back that the pull had cleared.
- `NoRunStranded` counts the faults: each lost commit, failing handler, kill, and each
  pull that raises after it committed its row and before its `try`
  (`settings.py:1044-1056, 1093`) leaves one row at `running`, and nothing repairs it at
  the next start.
- `OutcomeDelivered`, `NotFoundIsTrue`, `FileCleanedUp`: every failure to write, read or
  delete a status file is swallowed (`task_status.py:79-81, 131-132, 137-138`). A first
  write that fails, or a read, is a 404 for a task that runs; after a final write that
  fails the page polls a `running` for ever; an `unlink` that fails leaves the file. The
  properties excuse these and no others: a later write makes up for any write between.
- `OutcomeDelivered`, `FileCleanedUp` and `LoggerKept`: tasks that did not overlap.
  Otherwise a record another task logs may write a serialised `running` over the final
  state, so that the page polls for ever, or re-create a file nobody deletes; and a task
  that ends puts the logger's level back while another still works. A second tab, or a
  tab whose answer was lost, is told that the task "may have already completed", and
  never how.
- `GivesUpExhausted`: failures of the kind that fail over. A refused connection or HTTP
  401 or 500 ends the request, although backup, chain or legacy key remain.
- `CapacityMeansSkipped` leaves null answers out of the count: a provider that
  answers with null content is taken for one that was skipped, and the request
  may report that every provider was skipped for its context window.
- `RawOnlyIfAgreed`: redaction was off at some time since the session was opened, which
  is before the request: the worker's session holds the row of `ai_config` for a whole
  batch (`worker.py:170`, `expire_on_commit=False`), so that redaction switched on in
  between is missed by primary and backup. The ranked chain opens a new session, and
  from there on the setting is the one it finds.
- `ReportedIsStored` is about batches and pages: a single score is never stored
  (`SingleIsStored` above). The stamp of the rejection alert meets the same.
- Pages of the backlog: the offset counts jobs that leave
  the query once they are scored, so a next page steps over as many jobs as the page
  before scored.
- `OnlyItsOwn` is about pages. Automatic triage believes every id it gets, and
  may score a job it did not send.
- `OneScale`: a rescore that nothing overlapped. A triage that has
  loaded the old profile may store its scores after the rescore cleared them.
- `NotScoredTwice` is about the two triggers: the tasks of the web process run
  beside them and may send the same jobs.

**Redaction** (`excused`, `Reads`, `held` in `Vault`)

- `PLACEHOLDER_RE` reads kinds made of letters only (`privacy.py:58-61`), while an
  operator's label may have digits and underscores (`privacy.py:160`), as the settings
  page's own example `UK_PHONE` has (`templates/settings.html:312`). Such a placeholder
  is never turned back; `docs/configuration.md:227-229` says it is.
- A placeholder that comes in over MCP while redaction is off, or that resolves to
  nothing, is stored as it is; the docstring at `mcp_server.py:114-121` says never.
- After `SECRET_KEY` changes the vault reads as empty, and the next write replaces it.
- A failed write of the vault is logged, and the text leaves with a placeholder that
  only its record can resolve.
- A vault that cannot be read, or does not parse, reads as an empty one
  (`crypto.py:98-99, 115-116`), and `_persist_mappings()` then replaces the whole file by
  the mappings of one text (`privacy.py:395-399`). `VaultGrows` exempts exactly such a
  write; `ValuesComeBack` excuses the placeholders it dropped, and text that came in
  through such a read.
- `NothingLeaves` is about names some row held throughout: a contact that is deleted
  between a tool's read and the collection of known values leaves by name. Keys of
  dictionaries are not redacted.

**Access** (`murky`, `recent`, `blind`, `crossed`, `overtaken`)

- `/oauth/token` and `/oauth/revoke` write the server's copy of the tokens over a file a
  web process has changed since: a token revoked on the settings page comes back, which
  the comment at `mcp_server.py:204-213` means to exclude. Only calls of tools reload
  the copy. Two web processes, or one and the server, lose an update in the same way.
- A token file that cannot be written is only logged: the client is told of a token that
  dies, or of a revocation that is undone, at the next reload.
- A token file that cannot be read or does not parse reads as one without tokens
  (`crypto.py:98-99`, `mcp_server.py:223-224`). For two seconds every client is refused,
  and `/oauth/revoke` answers 200 for a token it does not see; a save in that time
  replaces the file, and a web process that revokes over a file it could not read empties
  it. `GrantedServed` excuses those two seconds and the tokens such a save wrote over.
- The cap on clients and the rate limit are looked at before the body is awaited;
  `RegistrationBounded` allows for it. Clients never expire, so at the cap only a
  restart helps.
- A stamp of the last use may be committed over a key set meanwhile; and one that is
  committed between the page's read of the row and its commit stays for the new key,
  since the UPDATE leaves out what has not changed (`settings.py:201-233`; both
  `overtaken`).
- Two terminals' `generate` can both find that no key works: the second then replaces the
  key the first has printed. `GenerateKeepsKey` is about keys drawn before a terminal
  looked. A terminal that is overtaken between the database and `mcp.json` leaves its
  dead key there (`crossed`). Other instances' entries of `mcp.json`, which two terminals
  read, change and write, are not modelled.
- `configure revoke` does not catch `McpTokenError`; the switch for network use stays on
  when a later step fails; a call that timed out may have set a key nobody saw; `remove`
  leaves an instance's `mcp.json` entry.
- Resetting passwords at start does not renew session stamps, and OAuth tokens survive
  every change of the password.

**Documents** (`murky`, `mixed`, `recycled`, `torn`)

- Editing a document's kind leaves its `is_base` as it was: two bases, or resumes
  without one, against `models.py:302-303`. Two deletions that overlap, or a deletion and
  a promotion, do the same.
- A commit lost to `with_db_retry()` is reported as done: "deleted", while rows without
  files stay, or "uploaded", with a file no row names.
- SQLite gives the id of a deleted last job again: a kit that was being written lands on
  the new posting, and an upload in progress on a job that is gone is inherited by it.
- Two builds of one kit at the same time leave two documents; `save_kit` over MCP leaves the
  earlier document of an older kit beside the new text.
- Files are removed before the commit; a removal that fails is only logged.

**Instances** (`murky`, `Match`, `swaps` in `Lifecycle`)

- The volume filter matches parts of names. `KeptDataStays` is about names no other
  name's key is part of. A removal takes the others' volumes unasked
  (`RemovalSparesOthers`); a create asks about each volume it found.
- `ImageInUseKept` excuses the names that came to use the image while a removal was
  looking for its users (`late`): a create that has registered its instance and not yet
  started its container, an update, a rollback or a restore. The runtime refuses `rmi`
  only for an image a container has. A `rmi` that timed out may have removed the image.
- A restore chooses new ports for the compose file; `data/.env` keeps the archive's,
  although the comment at `compose.py:273` says they agree. A network instance's ports
  are not looked at.
- Rolling back from `:latest` to `:latest` does nothing. After two updates that did not
  come up the good image is named nowhere (`swaps`).
- `compose down` may fail unseen (`RemovedIsDown`): the name is murky then, and
  `NoOrphans` says nothing of it.
- `GoodImageKept` is about updates that failed, not about interrupted ones: an
  interruption makes the name murky.
- The runtime the CLI installed is recorded as found once a later command detects it.
- A restore over an existing volume that stops midway leaves a mixture; one over the
  volume of a container that was killed may leave its log (`RestoredInFull`).
  `RestoreGivesBack` is about containers that were stopped cleanly.
- Concurrent commands share one temporary file of the registry.
- `import` copies the static key without its expiry; a restore over kept data does not ask.

**Exposure** (`murky`, `off`, `loose`)

- A call of `tailscale serve` that timed out may have taken effect, and `disable` takes
  an error for success when its text has "not" in it (`tailscale.py:809`). The ports
  concerned are `loose`: `ServedIsRecorded` and `ClientGoesUnused` say nothing of them
  until a call sets or clears them again, and after `disable` one may still be on
  (`RolledBack`).
- `ClientGoesUnused` excuses one instance whose `tailscale.json` could not be read at
  that moment (`ServingClientKept`).
- `ProvisionedRouted` says that an instance's own conf claims the label of its hostname,
  is loaded and leads to it; with two instances of one label, or the kept conf of a
  removed one, the traffic goes to the first (`RoutedByHostname`). One label stands for
  the two hostnames of an instance, for the web and for MCP. Two faults at once in
  `Attach`, an `inspect` that fails and a recreate that does, are not modelled.

- `enable` again on an enabled instance, failing at its checks or ports, records NONE
  while ports stay on, and `disable` then refuses. With other ports it forgets the first
  ones.
- Two instances on one Serve port: the second takes it, and either's `disable` turns it
  off; the other still reads "done".
- `uninstall` erases the configuration directory before it reads whether the Tailscale
  client is the CLI's (`commands.py:1006-1008`), so it never offers to remove it; a
  client removed by hand stays recorded.
- `proxy` writes the compose file afresh and drops `PREVIOUS_IMAGE` and the user ids
  from its `.env`.
- When `ps` fails, or SWAG is stopped, `proxy` installs SWAG over its DNS settings
  (`SettingsKept`). `dns` with another `--network` leaves the instances behind; they are
  no longer `routed` in the model.
- A name created again over a kept directory inherits a `tailscale.json` that says "done".

## 5. The proofs

Each theorem holds for every value of the constants that satisfies the assumption named in
its module: any sets of callers, processes, tasks, names or values, any number of faults.
Its run checks the same property on the small instance. The assumptions say that markers
such as `None` differ from the values they stand beside, that bounds are numbers, that an
actor is of one kind, and what the code guarantees of its tables and functions: a rank order
is a list of all providers, each once; folding a value twice folds it once; a volume filter
matches its own name; the two Serve ports of a pair differ.
Three say more: `VaultAssumption` that no placeholder is a value, `AccessAssumption` that
finitely many requests are open at once, and `LifecycleAssumption` that there are finitely
many names, so that a free port exists.

### Ingest

| Theorem | States |
|---|---|
| `TypeCorrect` | `Spec => []TypeOK` |
| `OneWriter` | `Spec => []SingleWriter` |
| `ExternalIdsUnique` | `Spec => []UniqueExternal`, with any number of faults |
| `ConflictIsHarmless` | `Spec => ConflictCostsNothing`, with any number of faults |
| `CreatedIsDurable` | `Spec => []CreatedDurable` when `MaxTransient = 0` |
| `SkippedIsRepresented` | `Spec => []SkippedRepresented` when `MaxTransient = 0` |
| `OneCallOneName` | `Spec => []NameGuard` |
| `ImplementsJobStore` | `Spec => StoreSpec` when `MaxTransient = 0` |

None of the properties is inductive by itself. The argument adds five
invariants, in this order, each proved with the ones before it:

- `Progress`: what lies behind the position of a call was counted exactly as
  created or skipped, flushed rows are created ones, and rows in the table are
  created ones of some call.
- `UniqueVisible`: uniqueness not of the table but of what each call sees, its own
  uncommitted rows included. A commit keeps it because only one call has
  uncommitted rows (`OneWriter`).
- `LookupHolds`: a call that holds the write lock and has passed its look-up meets
  no conflict: nobody else can commit. From this follows `ConflictIsHarmless`: a
  conflict can only come before the call's first insert, so the rollback of the
  whole transaction undoes nothing. This is why the comment in the code
  ("only rolls back this row") is true although the handler does more.
- `NothingLost`: without transient errors, a live call still sees each row it
  created and a row for each posting it skipped. A skip refers to committed rows
  or to the call's own, never to another's uncommitted ones.
- `NamesKept`: a call past its look-up by name has no row of that name among its
  own, committed or not (`NameClear`), and no two rows of one name (`NamesApart`).

The refinement maps `answer[c]` to `pending` until the call's commit; then the
commit is `JobStore`'s `Answer`, a failure its `Fail`, every other step a
stutter.

### SearchRun

| Theorem | States |
|---|---|
| `TypeCorrect` | `Spec => [](TypeOK /\ Labels)` |
| `RunsExclude` | `Spec => []OneRun` |
| `RowsAreOwn` | `Spec => []OwnRow` |
| `FinalStatusStays` | `Spec => FinalIsFinal` |
| `RowsAreFinished` | `Spec => []NoRunStranded` |
| `LimitsAreKept` | `Spec => []DailyLimit` when runs meet no exception and nothing is killed |
| `CooldownsAreRespected` | `Spec => CooldownRespected` when, besides, there are no pulls |

`Labels` says that runs and pulls have different labels and that a run that
searches has a provider to search; without it the counts would have no type.
`OneRun` is inductive with it: only a thread that is not idle releases the lock,
and then it is its own. `FinalIsFinal` is not inductive: it needs `OwnRow`, that the
row a thread is about to finish is its own and still `running`. Every step does
one of four things to the table (leaves it, lets a row go, appends one, finishes
one), each a lemma, and `RowStep` says which action does which.

`NoRunStranded` counts: `Abandoned` is the set of rows nobody will finish, and each
step adds to it no row, or one together with a fault (`Accounted`). `DailyLimit` needs
`Counted`: the calls made today are in the counts the run holds, but for the one it is
making, and in the file when no run holds them unsaved; this is where a run relies on
being alone (`RunsExclude`), and where midnight is a case of its own. `CoolInv` says
the same of cooldowns: the run in progress knows each, and so does the file, when the
run has nothing to save. The hypotheses of both theorems are the conditions of section 4;
pulls do not matter to the limits, and transient errors to neither.

### TaskStatus

| Theorem | States |
|---|---|
| `StatusFilesAreRight` | `TaskSpec => []StatusTrue` |
| `LevelIsPutBack` | `TaskSpec => []LoggerKept` |

`Truth`: a status changes once, so whatever was serialised, whenever and by whomever it
is written, says `running` or the outcome; this part holds for tasks that overlap too.
`Delivery`: a file is missing only when its outcome reached a tab, an answer was lost, a
read failed or the first write did, so a page that is told there is none is otherwise told
the truth. `Attach` and `Alone`: while no two
tasks have overlapped, a thread writes nothing but its own file, and nothing after its
outcome. `Level`: the only task there is finds the level as it was and puts that back.

### ProviderChain

| Theorem | States |
|---|---|
| `ClearByConsent` | `Spec => RawOnlyIfAgreed` |
| `CapacityIsTrue` | `Spec => []CapacityMeansSkipped` |
| `CallsAreInOrder` | `Spec => []CalledInOrder` |
| `FailuresAreRight` | `Spec => []FailsRightly` |

`Consented`: if redaction has been on since the session was opened, it is on in the
database and in what the session has loaded, so the refresh before the ranked chain
cannot undo it; that refresh opens a new session, from which the history counts.
`InRank`: the chain has considered a prefix of the rank order and has called whatever in
it could be called; with `Calls`, which says from which stage on an attempt can exist,
this gives the order and that nobody is called twice. `Left` says at each stage who has
been disposed of, which makes a request that gives up exhausted.

### Triage

| Theorem | States |
|---|---|
| `EveryJobAsked` | `TriageSpec => []EachJobOnce` |
| `OwnScoresAndOneScale` | `TriageSpec => OnlyItsOwn /\ OneScale` |
| `ScoresAreRight` | `TriageSpec => ScoresRight` |

`EachJobOnce` speaks of a batch about to be committed, by which time nothing tells how it
was cut. `AskInv` follows the cutting: no job is in a batch twice, what is still to be
sent is a part of the batch with no job twice (`Cut`), and each job has been asked for
once, or once in each pass of a page, exactly if it is not still to be sent (`Once`,
`Again`). A piece that is too large is halved, and a page that comes back incomplete is
cut into smaller ones; both are lemmas about sequences of pieces (`Apart`, `Held`), with
which every action keeps `AskInv`. The lock gives the part about the two triggers (`Locked`).

`ScoreInv` adds what a thread is about to write: everything it has a score for and whose row
exists (`Stored`), and for a rescore that nothing has overlapped, that every score it finds
is of its own profile or absent (`Scale`); this needs `Current`, that nobody
uses a profile not yet written, and `Single`, that one thread runs at most unless two
have overlapped. None of it is about single scores, which are reported and never stored
(section 4).

### Vault

| Theorem | States |
|---|---|
| `VaultIsKept` | `Spec => VaultKept`: `[]LockIsUsed` and `VaultGrows` |
| `ValuesAreTurnedBack` | `Spec => []ValuesComeBack` |
| `NothingIsSentClear` | `Spec => []NothingLeaves` |

`VaultKept` is not inductive. `Holder` says that a process is between its lock and its
write exactly when it holds the lock, and `ViewIsCurrent` that what it is about to add
to is what the file holds, unless its read has failed and it is `blind`: nobody else
writes meanwhile, and a new secret ends every process. Most steps are `Quiet`: they
neither start nor end in the locked part, and `QuietKeeps` treats them at once.
`ReleaseKeeps` is the argument for every way the lock is given up: a write, a write that
fails, a process that is killed.

The other two rest on `PInv`: these facts, what the file and the stores hold (`Facts`),
and what is true of the locals of each process at its step (`Calls`). A placeholder that
was shown, can be read and is not excused is in the vault itself (`Known`), not only in
some process's view of it; one that can be read is stored only if it is excused
(`Noted`). `Hides` follows a text on its way out: past `Collect` no shape or sentence is
left in it, and no name that some row held throughout. A rotation of the key
excuses every placeholder there is, and ends every process.

### Access

| Theorem | States |
|---|---|
| `TypeCorrect` | `Spec => []TypeOK` |
| `RegistrationsAreBounded` | `Spec => []RegistrationBounded` |
| `GrantsAreKept` | `Spec => []TokensRight` |
| `RevocationsHold` | `Spec => []RevokedRefused` |
| `KeyStaysRight` | `Spec => KeyRight` |
| `SessionsKnowThePassword` | `Spec => []SessionKnowsPassword` |

`Limits` counts the registrations whose body is awaited together with the clients and
attempts there are: each passed both limits when it began, so the excess is at most the
other requests open at once. `TokensInv`: what was granted and neither taken back,
expired nor murky is in memory and in the file (`Held`); a client has one token in
each, and in what a web process has read (`Single`); a code that earned a token is not
live (`Spent`); what was revoked has left the file, and memory once it is loaded again
(`Gone`). `KeyInv` knows of a stamp in the making that its key was used, and of a
`generate` under way that a key there is now was drawn after it had looked. `FormsKnow`: a
form that has read the current stamp has read the current password.

### Documents

| Theorem | States |
|---|---|
| `RowsAndFilesAgree` | `Spec => []RowsAndFiles` |
| `KitsAreRight` | `Spec => []KitRight` |
| `OneBaseResume` | `Spec => []OneBase` |

`IInv` has a part for each side. For jobs: which file a request has written that no row
names yet, and which it has removed whose row it has still to delete (`JobFiles`); and
that a job nothing overlapped has one writer, one document of each kind, and shows the kit
recorded for it or one that is being written (`KitsKept`). For resumes: the same of files
(`AssetFiles`); that ids stay behind the file names drawn (`Roomy`), without which the id
of a new document could be that of one about to be saved; that outside the murky cases a
deletion is alone with what it saw (`Calm`); and who is the base, or is about to inherit
(`Based`). For each part one relation says what any step of a request may do (`JobMove`,
`KitsMove`, `AssetMove`, `CalmMove`); that it keeps the part is proved once, and each
action is shown to be such a step.

### Lifecycle

| Theorem | States |
|---|---|
| `RegistryIsTrue` | `Spec => []RegistryTrue` |
| `DataIsKept` | `Spec => []DataKept` |
| `GoodImageIsKept` | `Spec => []GoodImageKept` |
| `NothingNeededIsLost` | `Spec => NothingNeededLost` |

The properties are about names that are `Sound`, those no fault, interruption or other
command touched. `IInv` is: the types (`Typed`); that unless everything is murky no two
commands in progress disturb each other (`Alone`); what a command that writes the
registry knows of it (`Written`): its temporary file is the registry as it was read with
the command's own change, nobody wrote since, and the port it chose is free; and for
each sound name what the command at work on it, if any, has done to it (`NamesRight`):
which of its four places hold what at which step, the secrets that must agree, and which
image is named where. A command's step leaves other names alone but for volumes without
a container that its filter shows (`Elsewhere`), and a failure makes the name murky, so
nothing is claimed of it. Each action has two lemmas, for the types and for the rest.
`NothingNeededIsLost` needs one more, `LooksRight`: the names a removal's look has
passed do not name the image, or are `late`. The theorem itself is about steps: which of
them take an image or the runtime away, and what a restore has put back when it ends
(`StepKeeps`, `StepGivesBack`).

### Exposure

| Theorem | States |
|---|---|
| `StageTold` | `Spec => []StageIsTrue` |
| `TrafficArrives` | `Spec => []ProvisionedRouted` |
| `SharedIsKept` | `Spec => SharedKept` |

The properties are about instances no command is at work on, so none is inductive: a
command that ends makes one settled, and has to have left it right. `ExposureInv` has three
parts. `Typed`: the types, and what a command carries at each of its steps (`CliOK`).
`StageInv`: `Looks` says the same as the property of every claimed instance, the one at work
included, but for the ports `enable` has turned on and not recorded yet (`Fresh`); `Enabled`
and `Disabled` say how far the command has come, so that "done" is recorded only with both
ports, the `.env`, the container and the URL in place, and a stage is cleared only when all
are gone. Other instances are `Alike`: a step may take a port from one, which is then `off`,
and changes nothing else of it. `RouteInv`: what was provisioned is routed by the proxy that
runs, in the file and in what nginx has loaded, so that a reload for another instance
changes nothing (`Routes`), and `proxy` still has the form and the proxy it found
(`Provisioning`). Both parts of `SharedKept` are about steps and follow from these: the
client goes when no instance whose state could be read is at a stage `disable` accepts,
and then, by `Looks`, none of these is served, but on a `loose` port.

### What is only model-checked

The type invariants of the other modules are among the parts of the properties proved.
`OneWriter` is proved and no property of a run. Every safety property of the runs is proved;
`StoreSpec` is, too, and the conditions of `CreatedDurable` and the like are those the
run has.

Liveness is out of the prover's reach: `EveryCallEnds`, `LockReleased`, `TaskEnds` and
`TriageEnds` are checked on the small instances only.

## 6. The plan

No module that will be proved about declares a RECURSIVE operator; parameters are
constants with a named assumption.

Done: the modules of section 2 with their runs, and the proofs of section 5. Left:

1. Batches of follow-up drafts and the weekly review (`run_followup_drafts()`,
   `run_weekly_review()`), with their stamps.
2. The start of three processes on one database (`_init_db()`).
3. Polls of one page that overlap (`setInterval` does not wait for an answer, and
   `tsFinish`, `app.js:860`, is not guarded).

## 7. Not modelled

- *Start-up and migrations.* Three processes create, migrate and seed one database behind
  a file lock, each step written to be repeatable; SQL of the migrations is data.
- *Self-update and the Ollama assistant of the CLI.* A sequence of checks and one call of
  an installer; an interactive set-up of an external program.
- *Pages, settings.* Single-row forms, last writer wins. What takes several steps or
  meets other actors is in the modules: pulls in `SearchRun`, edits during a request in
  `ProviderChain` and `Vault`, deletions in `Documents` and `Triage`.
- *Follow-up batches, weekly review, alerts.* They have the shape of the single requests
  and the batches of `Triage`; the plan has them.
- *Text*: prompts, e-mails, documents, generated configurations; the patterns of
  redaction are classes of values, encryption is whether a file opens.
- HTTP, presentation in the browser, argument parsing, and libraries (APScheduler,
  SQLAlchemy, gunicorn, s6), except as far as the code's use of them shows in the models.

`PROJECT.json` gives the reason for each component.
