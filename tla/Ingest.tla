------------------------------- MODULE Ingest -------------------------------
(***************************************************************************)
(* ingest_jobs() of app/search.py: the one function through which postings *)
(* from a search run, a provider pull, POST /api/ingest and the MCP tool   *)
(* add_jobs reach the jobs table.  Several calls run at once, in different *)
(* threads and processes, each with a database session of its own on one   *)
(* SQLite file.                                                            *)
(*                                                                         *)
(* The database (external) is modelled from how the code uses it: a SELECT *)
(* outside a transaction reads the committed rows; the first INSERT opens  *)
(* the transaction and takes the only write lock, held until commit or     *)
(* rollback; begin_nested() flushes before its savepoint exists, so the    *)
(* INSERT belongs to the outer transaction.                                *)
(***************************************************************************)
EXTENDS JobPostings

CONSTANT MaxTransient   \* bound on transient SQLite errors in one behaviour

ASSUME TransientAssumption == MaxTransient \in Nat

VARIABLES
    batch,      \* batch[c]: the items of call c
    pc,         \* where call c is
    pos,        \* pos[c]: index of the item call c is at
    created,    \* created[c]: indices appended to `created`
    skipped,    \* skipped[c]: indices counted in `skipped`
    flushed,    \* flushed[c]: rows inserted in c's open transaction
    table,      \* committed rows of the jobs table
    faults      \* transient errors so far

vars == <<batch, pc, pos, created, skipped, flushed, table, faults>>

-----------------------------------------------------------------------------
Posting(r) == batch[r[1]][r[2]]
Indices(c) == 1 .. Len(batch[c])
Item(c) == batch[c][pos[c]]

Live == {"next", "title", "flush", "commit"}
Over == {"done", "failed"}

(* What a SELECT of call c sees: the committed rows and its own. *)
Visible(c) == table \cup flushed[c]

(* The key of item i is in seen_keys: an earlier item of this call that is *)
(* not blank had it.                                                       *)
Seen(c, i) == \E j \in 1 .. (i - 1) : /\ ~batch[c][j].blank
                                      /\ BatchKey(batch[c][j]) = BatchKey(batch[c][i])

(* Slip: the look-up is made, and matches NULL, for a posting without an id. *)
FoundByNullExt(c) == \E r \in Visible(c) : /\ Posting(r).ext = Item(c).ext
                                          /\ Posting(r).source = Item(c).source
(* Slip: no look-up by external id. *)
NoLookup(c) == FALSE

(* Slip: the look-up by name reads what was committed only. *)
FoundCommitted(c) == \E r \in table : DbLower[Posting(r).name] = Norm[Item(c).name]

(* The two SELECTs of the DB dedupe. *)
FoundByExt(c)   == \E r \in Visible(c) : SameExt(Posting(r), Item(c))
FoundByTitle(c) == \E r \in Visible(c) : DbLower[Posting(r).name] = Norm[Item(c).name]

(* Slip: the UNIQUE index could not be created. *)
NoIndex(c) == FALSE

(* uq_jobs_source_external_id, checked against every row the insert can meet. *)
Conflicts(c) == \E r \in Visible(c) : SameExt(Posting(r), Item(c))

LockFree(c) == \A d \in Callers \ {c} : flushed[d] = {}

(* Leaving the loop body of the current item. *)
Advance(c) ==
    /\ pos' = [pos EXCEPT ![c] = @ + 1]
    /\ pc' = [pc EXCEPT ![c] = IF pos[c] = Len(batch[c]) THEN "commit" ELSE "next"]

CountSkipped(c) == skipped' = [skipped EXCEPT ![c] = @ \cup {pos[c]}]
CountCreated(c) == created' = [created EXCEPT ![c] = @ \cup {pos[c]}]
Rollback(c) == flushed' = [flushed EXCEPT ![c] = {}]

-----------------------------------------------------------------------------
Init ==
    /\ batch \in [Callers -> Batches]
    /\ pc = [c \in Callers |-> IF batch[c] = <<>> THEN "commit" ELSE "next"]
    /\ pos = [c \in Callers |-> 1]
    /\ created = [c \in Callers |-> {}]
    /\ skipped = [c \in Callers |-> {}]
    /\ flushed = [c \in Callers |-> {}]
    /\ table = {}
    /\ faults = 0

(* No title or company, or a key already in this batch. *)
SkipItem(c) ==
    /\ pc[c] = "next"
    /\ Item(c).blank \/ Seen(c, pos[c])
    /\ CountSkipped(c)
    /\ Advance(c)
    /\ UNCHANGED <<batch, created, flushed, table, faults>>

(* The lookup by (source, external_id), made only for a posting that has one. *)
LookupByExt(c) ==
    /\ pc[c] = "next"
    /\ ~Item(c).blank /\ ~Seen(c, pos[c])
    /\ \/ FoundByExt(c) /\ CountSkipped(c) /\ Advance(c)
       \/ ~FoundByExt(c) /\ pc' = [pc EXCEPT ![c] = "title"] /\ UNCHANGED <<pos, skipped>>
    /\ UNCHANGED <<batch, created, flushed, table, faults>>

(* The lookup by company and title, a second SELECT. *)
LookupByTitle(c) ==
    /\ pc[c] = "title"
    /\ \/ FoundByTitle(c) /\ CountSkipped(c) /\ Advance(c)
       \/ ~FoundByTitle(c) /\ pc' = [pc EXCEPT ![c] = "flush"] /\ UNCHANGED <<pos, skipped>>
    /\ UNCHANGED <<batch, created, flushed, table, faults>>

(* Slip: each row is committed as it is inserted. *)
FlushAndCommit(c) ==
    /\ pc[c] = "flush"
    /\ LockFree(c)
    /\ ~Conflicts(c)
    /\ table' = table \cup {Row(c, pos[c])}
    /\ CountCreated(c)
    /\ Advance(c)
    /\ UNCHANGED <<batch, skipped, flushed, faults>>

(* The flush inserts the row and keeps, or takes, the write lock. *)
FlushRow(c) ==
    /\ pc[c] = "flush"
    /\ LockFree(c)
    /\ ~Conflicts(c)
    /\ flushed' = [flushed EXCEPT ![c] = @ \cup {Row(c, pos[c])}]
    /\ CountCreated(c)
    /\ Advance(c)
    /\ UNCHANGED <<batch, skipped, table, faults>>

(* Slip: the handler of IntegrityError falls through to created.append(). *)
ConflictFallsThrough(c) ==
    /\ pc[c] = "flush"
    /\ LockFree(c)
    /\ Conflicts(c)
    /\ Rollback(c)
    /\ CountCreated(c)
    /\ Advance(c)
    /\ UNCHANGED <<batch, skipped, table, faults>>

(* IntegrityError: db.session.rollback() ends the whole transaction. *)
FlushConflict(c) ==
    /\ pc[c] = "flush"
    /\ LockFree(c)
    /\ Conflicts(c)
    /\ Rollback(c)
    /\ CountSkipped(c)
    /\ Advance(c)
    /\ UNCHANGED <<batch, created, table, faults>>

(* A transient OperationalError in the flush: with_db_retry() rolls the    *)
(* session back, which also expunges the pending job, and calls            *)
(* _flush_new_job() again: the session is empty, the flush succeeds, and   *)
(* the job is appended to `created`.                                       *)
FlushTransient(c) ==
    /\ pc[c] = "flush"
    /\ faults < MaxTransient
    /\ faults' = faults + 1
    /\ Rollback(c)
    /\ CountCreated(c)
    /\ Advance(c)
    /\ UNCHANGED <<batch, skipped, table>>

(* The commit publishes the rows and returns (created, skipped). *)
Commit(c) ==
    /\ pc[c] = "commit"
    /\ table' = table \cup flushed[c]
    /\ Rollback(c)
    /\ pc' = [pc EXCEPT ![c] = "done"]
    /\ UNCHANGED <<batch, pos, created, skipped, faults>>

(* A transient error in the commit: rolled back, retried on the empty      *)
(* session, and reported as success.                                       *)
CommitTransient(c) ==
    /\ pc[c] = "commit"
    /\ flushed[c] # {}
    /\ faults < MaxTransient
    /\ faults' = faults + 1
    /\ Rollback(c)
    /\ pc' = [pc EXCEPT ![c] = "done"]
    /\ UNCHANGED <<batch, pos, created, skipped, table>>

(* Slip: the session outlives the exception, its transaction still open. *)
AbortKeepsLock(c) ==
    /\ pc[c] \in Live
    /\ pc' = [pc EXCEPT ![c] = "failed"]
    /\ UNCHANGED <<batch, pos, created, skipped, flushed, table, faults>>

(* An exception that reaches the caller, or the death of the process: the  *)
(* open transaction is rolled back and no answer is given.                 *)
Abort(c) ==
    /\ pc[c] \in Live
    /\ Rollback(c)
    /\ pc' = [pc EXCEPT ![c] = "failed"]
    /\ UNCHANGED <<batch, pos, created, skipped, table, faults>>

Step(c) ==
    \/ SkipItem(c) \/ LookupByExt(c) \/ LookupByTitle(c)
    \/ FlushRow(c) \/ FlushConflict(c) \/ Commit(c)

Fault(c) == FlushTransient(c) \/ CommitTransient(c) \/ Abort(c)

(* All calls have returned: the only state in which nothing is left to do. *)
AllOver == (\A c \in Callers : pc[c] \in Over) /\ UNCHANGED vars

Next == (\E c \in Callers : Step(c) \/ Fault(c)) \/ AllOver

Spec == Init /\ [][Next]_vars

(* A call that can go on does; nothing obliges a fault to happen. *)
FairSpec == Spec /\ \A c \in Callers : WF_vars(Step(c))

-----------------------------------------------------------------------------
(* Type invariant. *)
TypeOK ==
    /\ batch \in [Callers -> Batches]
    /\ pc \in [Callers -> Live \cup Over]
    /\ pos \in [Callers -> Nat \ {0}]
    /\ created \in [Callers -> SUBSET (Nat \ {0})]
    /\ skipped \in [Callers -> SUBSET (Nat \ {0})]
    /\ flushed \in [Callers -> SUBSET Rows]
    /\ table \in SUBSET Rows
    /\ faults \in 0 .. MaxTransient

(* Inserts of two calls are never uncommitted at once: the rollback of one *)
(* call (search.py:203) can only undo rows of that call.                   *)
SingleWriter ==
    \A c, d \in Callers : c # d => flushed[c] = {} \/ flushed[d] = {}

(* No two committed rows have the same (source, external_id), whatever the *)
(* interleaving of the look-ups and the inserts.                           *)
UniqueExternal ==
    \A r, s \in table : r # s => ~SameExt(Posting(r), Posting(s))

(* When a call returns, every job in its `created` list is a committed row *)
(* (the digest mails these jobs, the MCP tool reports their number).       *)
CreatedDurable ==
    \A c \in Callers : pc[c] = "done" => \A i \in created[c] : Row(c, i) \in table

(* Posting i of call c, or the earlier posting of its batch it was taken   *)
(* for, is the same job as one of the rows.                                *)
RepresentedIn(rows, c, i) ==
    \E j \in 1 .. i :
        /\ BatchKey(batch[c][j]) = BatchKey(batch[c][i])
        /\ \E r \in rows : \/ SameExt(Posting(r), batch[c][j])
                           \/ SameName(Posting(r), batch[c][j])

(* When a call returns, every posting it skipped is blank or already in    *)
(* the table: none was skipped because of a row that was rolled back.      *)
SkippedRepresented ==
    \A c \in Callers : pc[c] = "done" =>
        \A i \in skipped[c] : batch[c][i].blank \/ RepresentedIn(table, c, i)

(* The comment at search.py:187-196: an IntegrityError "only rolls back    *)
(* this row (not the whole batch)", although the handler rolls back the    *)
(* whole transaction.  It can, since a call that has rows in its           *)
(* transaction holds the write lock and has read what it conflicts with.   *)
ConflictCostsNothing ==
    [][\A c \in Callers : FlushConflict(c) => flushed[c] = {}]_vars

(* "ingest_jobs()'s existing company+title dedupe stays the correctness    *)
(* guard for the no-external_id case" (models.py:139-140).  It is one      *)
(* within a call, which reads its own rows, for a name that SQLite and     *)
(* Python fold alike; not between calls, nor for other names.              *)
NameGuard ==
    \A r, s \in table :
        /\ r # s /\ r[1] = s[1]
        /\ DbLower[Posting(r).name] = Norm[Posting(r).name]
        /\ DbLower[Posting(s).name] = Norm[Posting(s).name]
        => ~SameName(Posting(r), Posting(s))

-----------------------------------------------------------------------------
(* What makes the invariants above inductive.                              *)

(* Every item behind pos[c] was counted, every row is a created posting. *)
Progress ==
    /\ \A c \in Callers :
        /\ pos[c] <= Len(batch[c]) + 1
        /\ (pc[c] \in {"next", "title", "flush"}) => (pos[c] <= Len(batch[c]))
        /\ (pc[c] \in {"commit", "done"}) => (pos[c] = Len(batch[c]) + 1)
        /\ created[c] \cup skipped[c] = 1 .. (pos[c] - 1)
        /\ flushed[c] \subseteq {Row(c, i) : i \in created[c]}
        /\ (pc[c] \in Over) => (flushed[c] = {})
    /\ \A r \in table : r[2] \in created[r[1]]

(* The rows a call can see, its own uncommitted ones included, are unique. *)
UniqueVisible ==
    \A c \in Callers : \A r, s \in Visible(c) : r # s => ~SameExt(Posting(r), Posting(s))

(* Once a call holds the write lock, what its look-up saw stays true. *)
LookupHolds ==
    \A c \in Callers : (pc[c] \in {"title", "flush"} /\ flushed[c] # {}) => ~Conflicts(c)

(* Without transient errors a call that has not failed still sees every    *)
(* row it created and every row it skipped a posting for.                  *)
NothingLost ==
    MaxTransient = 0 =>
        \A c \in Callers : (pc[c] # "failed") =>
            /\ \A i \in created[c] : Row(c, i) \in Visible(c)
            /\ \A i \in skipped[c] : batch[c][i].blank \/ RepresentedIn(Visible(c), c, i)

-----------------------------------------------------------------------------
(* Every call ends: waiting for the write lock is never for ever. *)
EveryCallEnds == \A c \in Callers : <>(pc[c] \in Over)

(* The specification of JobStore is implemented when no error is transient. *)
Answer(c) == CASE pc[c] = "done" -> [status |-> "done", created |-> created[c]]
               [] pc[c] = "failed" -> [status |-> "failed", created |-> {}]
               [] OTHER -> [status |-> "pending", created |-> {}]

Store == INSTANCE JobStore WITH answer <- [c \in Callers |-> Answer(c)]

StoreSpec == Store!Spec
=============================================================================
