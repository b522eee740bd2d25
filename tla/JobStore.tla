------------------------------ MODULE JobStore ------------------------------
(***************************************************************************)
(* What a call of ingest_jobs() promises: it takes effect at one moment,   *)
(* and then the rows it reports as created are in the table and every      *)
(* posting it reports as skipped is already represented there; or it fails *)
(* and leaves no row.                                                      *)
(***************************************************************************)
EXTENDS JobPostings

VARIABLES
    batch,      \* batch[c]: the items of call c
    table,      \* committed rows of the jobs table
    answer      \* answer[c]: its status, and the indices reported as created

storeVars == <<batch, table, answer>>

Pending == [status |-> "pending", created |-> {}]
Failed == [status |-> "failed", created |-> {}]
Done(new) == [status |-> "done", created |-> new]

Posting(r) == batch[r[1]][r[2]]
Indices(c) == 1 .. Len(batch[c])

UniqueIn(rows) == \A r, s \in rows : r # s => ~SameExt(Posting(r), Posting(s))

(* Posting i of call c, or the earlier posting of its batch it was taken   *)
(* for, is the same job as one of the rows.                                *)
RepresentedIn(rows, c, i) ==
    \E j \in 1 .. i :
        /\ BatchKey(batch[c][j]) = BatchKey(batch[c][i])
        /\ \E r \in rows : \/ SameExt(Posting(r), batch[c][j])
                           \/ SameName(Posting(r), batch[c][j])

Init ==
    /\ batch \in [Callers -> Batches]
    /\ table = {}
    /\ answer = [c \in Callers |-> Pending]

Answer(c, new) ==
    /\ answer[c] = Pending
    /\ table' = table \cup {Row(c, i) : i \in new}
    /\ UniqueIn(table')
    /\ \A i \in Indices(c) \ new : batch[c][i].blank \/ RepresentedIn(table', c, i)
    /\ answer' = [answer EXCEPT ![c] = Done(new)]
    /\ UNCHANGED batch

Fail(c) ==
    /\ answer[c] = Pending
    /\ answer' = [answer EXCEPT ![c] = Failed]
    /\ UNCHANGED <<batch, table>>

Next == \E c \in Callers : \/ \E new \in SUBSET Indices(c) : Answer(c, new)
                           \/ Fail(c)

Spec == Init /\ [][Next]_storeVars
=============================================================================
