------------------------------- MODULE Documents -------------------------------
(* Rows that name files.  A job has attachments (jobs.py): what its user         *)
(* uploaded, and the documents rendered from its application kit (ai.py,         *)
(* kit_export.py).  The candidate has documents of their own (settings.py,       *)
(* onboarding.py), among them the variants of the resume, one of them the base.  *)
(* A request touches a file, then commits the row, or the other way around;      *)
(* the requests of two web processes, the background threads that build kits     *)
(* and the MCP server's tools interleave, and stop anywhere.                     *)
(*                                                                               *)
(* The two kinds of rows share nothing: a behaviour is about one of them.        *)
(* Names of files are drawn, never repeated: they are numbered.  A job's id is   *)
(* the next after the highest one in the table, so it may be given again; so is  *)
(* a document's, whose order is that of uploaded_at.                             *)
EXTENDS Naturals, FiniteSets, FiniteSetsExt, Functions

CONSTANTS
    Procs,
    MaxJobRequests, MaxResumeRequests, MaxPostings, MaxFaults,        \* bounds of the model
    None

ASSUME DocumentsAssumption ==
    /\ MaxJobRequests \in Nat /\ MaxResumeRequests \in Nat
    /\ MaxPostings \in Nat /\ MaxFaults \in Nat /\ None \notin Nat

VARIABLES
    part,       \* "job" or "resume"
    files,      \* what is in UPLOAD_DIR
    drawn,      \* the number of file names drawn so far
    jobs,       \* the posting and the kit of each live job id; kits are numbered
    postings,   \* the number of postings tracked so far
    rows,       \* attachments: their file, job id, kind, and the kit they render
    assets,     \* candidate_assets; `source` is a second file, 0 for none
    pc, req,    \* where each process is, and its locals
    requests, faults,
    kitOf,      \* ghost: the posting each kit was written for
    uploaded,   \* ghost: attachments whose upload was confirmed
    asked,      \* ghost: files a user asked to delete
    torn,       \* ghost: files removed by a request that did not get to its commit
    recycled,   \* ghost: ids that were past the highest one again
    mixed,      \* ghost: ids of jobs two kits were written for at once
    murky       \* ghost: a fault, or requests that overlap as OneBase says

jobVars == <<jobs, postings, rows, kitOf, uploaded, recycled, mixed>>
vars == <<part, files, drawn, jobVars, assets, pc, req, requests, faults, asked, torn, murky>>

Live == DOMAIN jobs
Highest(ids) == Max({0} \cup ids)
Kinds == {"upload", "docx", "pdf"}
Resumes == {a \in assets : a.resume}
RowOf(f, j, kind, kit) == [file |-> f, job |-> j, kind |-> kind, kit |-> kit]

NoReq == [op |-> None, job |-> 0, kit |-> 0, asset |-> 0, new |-> 0, source |-> 0,
          kind |-> None, seen |-> {}, base |-> FALSE]

Init ==
    /\ part \in {"job", "resume"}
    /\ files = {} /\ drawn = 0
    /\ jobs = [j \in 1 .. IF part = "job" THEN 2 ELSE 0 |-> [posting |-> j, kit |-> 0]]
    /\ postings = Cardinality(Live)
    /\ rows = {} /\ assets = {}
    /\ pc = [p \in Procs |-> "idle"] /\ req = [p \in Procs |-> NoReq]
    /\ requests = 0 /\ faults = 0
    /\ kitOf = <<>> /\ uploaded = {} /\ asked = {} /\ torn = {}
    /\ recycled = {} /\ mixed = {} /\ murky = FALSE

Goto(p, step, r) ==
    /\ pc' = [pc EXCEPT ![p] = step]
    /\ req' = [req EXCEPT ![p] = r]

Done(p) == Goto(p, "idle", NoReq)

MaxRequests == IF part = "job" THEN MaxJobRequests ELSE MaxResumeRequests

Begin(p, kind, step, r) ==
    /\ part = kind /\ pc[p] = "idle" /\ requests < MaxRequests
    /\ requests' = requests + 1
    /\ Goto(p, step, r)

Doing(op) == {p \in Procs : req[p].op = op}

(* A new file is written under a name of its own. *)
Write == files' = files \cup {drawn + 1} /\ drawn' = drawn + 1

(***************************************************************************)
(* Attachments                                                             *)
(***************************************************************************)
(* A user's upload is in place before its row is added. *)
Upload(p) == \E j \in Live :
    /\ Begin(p, "job", "upload", [NoReq EXCEPT !.op = "upload", !.job = j, !.new = drawn + 1])
    /\ Write
    /\ UNCHANGED <<part, jobVars, assets, faults, asked, torn, murky>>

UploadDone(p) ==
    /\ pc[p] = "upload"
    /\ rows' = rows \cup {RowOf(req[p].new, req[p].job, "upload", 0)}
    /\ uploaded' = uploaded \cup {req[p].new}
    /\ Done(p)
    /\ UNCHANGED <<part, files, drawn, jobs, postings, kitOf, recycled, mixed, assets,
                   requests, faults, asked, torn, murky>>

(* Deleting an attachment, or a job with the attachments it has when they  *)
(* are read: the files go first.                                           *)
DeleteAttachment(p) == \E r \in rows :
    /\ Begin(p, "job", "remove", [NoReq EXCEPT !.op = "delete", !.seen = {r}])
    /\ asked' = asked \cup {r.file}
    /\ UNCHANGED <<part, files, drawn, jobVars, assets, faults, torn, murky>>

DeleteJob(p) == \E j \in Live :
    LET seen == {r \in rows : r.job = j}
    IN  /\ Begin(p, "job", "remove", [NoReq EXCEPT !.op = "delete", !.job = j, !.seen = seen])
        /\ asked' = asked \cup {r.file : r \in seen}
        /\ UNCHANGED <<part, files, drawn, jobVars, assets, faults, torn, murky>>

Remove(p) ==
    /\ pc[p] = "remove"
    /\ files' = files \ {r.file : r \in req[p].seen}
    /\ Goto(p, IF req[p].op = "delete" THEN "forget" ELSE "render", req[p])
    /\ UNCHANGED <<part, drawn, jobVars, assets, requests, faults, asked, torn, murky>>

RowsDeleted(p) == req[p].seen

ForgetDone(p) ==
    /\ pc[p] = "forget"
    /\ rows' = rows \ RowsDeleted(p)
    /\ LET gone == {req[p].job} \cap Live
       IN  /\ jobs' = Restrict(jobs, Live \ gone)
           /\ recycled' = recycled \cup (Highest(Live \ gone) + 1 .. Highest(Live))
    /\ Done(p)
    /\ UNCHANGED <<part, files, drawn, postings, kitOf, uploaded, mixed, assets,
                   requests, faults, asked, torn, murky>>

(* Slip: ids are filled in from the lowest. *)
LowestFree == Min((1 .. Cardinality(Live) + 1) \ Live)

(* SQLite gives a new posting the id after the highest. *)
NewId == Highest(Live) + 1

(* A posting is tracked, from its form or from a kit's. *)
Track ==
    /\ part = "job" /\ postings < MaxPostings
    /\ postings' = postings + 1
    /\ jobs' = [j \in Live \cup {NewId} |-> IF j \in Live THEN jobs[j]
                                            ELSE [posting |-> postings + 1, kit |-> 0]]
    /\ UNCHANGED <<part, files, drawn, rows, kitOf, uploaded, recycled, mixed, assets, pc, req,
                   requests, faults, asked, torn, murky>>

(***************************************************************************)
(* Application kits                                                        *)
(***************************************************************************)
Writers(j) == {p \in Procs : req[p].op \in {"build", "save"} /\ req[p].job = j}

(* A kit is written for a job: by the provider chain, in a thread          *)
(* ("build"), or by an AI that read the job over MCP and will name its id  *)
(* ("save").  That takes minutes.                                          *)
Compose(p) == \E op \in {"build", "save"}, j \in Live :
    LET kit == Cardinality(DOMAIN kitOf) + 1
    IN  /\ Begin(p, "job", "text", [NoReq EXCEPT !.op = op, !.job = j, !.kit = kit])
        /\ kitOf' = [k \in 1 .. kit |-> IF k = kit THEN jobs[j].posting ELSE kitOf[k]]
        /\ mixed' = IF Writers(j) = {} THEN mixed ELSE mixed \cup {j}
        /\ UNCHANGED <<part, files, drawn, jobs, postings, rows, uploaded, recycled, assets,
                       faults, asked, torn, murky>>

(* The job is fetched again by its id; its text is committed. *)
KitText(p) ==
    /\ pc[p] = "text"
    /\ IF req[p].job \in Live
       THEN /\ jobs' = [jobs EXCEPT ![req[p].job].kit = req[p].kit]
            /\ Goto(p, IF req[p].op = "build" THEN "docx" ELSE "pdf", req[p])
       ELSE UNCHANGED jobs /\ Done(p)
    /\ UNCHANGED <<part, files, drawn, postings, rows, kitOf, uploaded, recycled, mixed, assets,
                   requests, faults, asked, torn, murky>>

(* Slip: a PDF of that kind may be one the user uploaded.                  *)
EarlierOrUploaded(p) == {r \in rows : r.job = req[p].job
                                       /\ r.kind \in {pc[p]} \cup (IF pc[p] = "pdf" THEN {"upload"} ELSE {})}

(* The documents of earlier kits, whose files are removed before the new   *)
(* one is rendered.                                                        *)
Earlier(p) == {r \in rows : r.job = req[p].job /\ r.kind = pc[p]}

(* The job's attachments are read again; a job that is gone ends the       *)
(* build.                                                                  *)
ReadEarlier(p) ==
    /\ pc[p] \in {"docx", "pdf"}
    /\ IF req[p].job \in Live
       THEN Goto(p, "remove", [req[p] EXCEPT !.seen = Earlier(p), !.kind = pc[p]])
       ELSE Done(p)
    /\ UNCHANGED <<part, files, drawn, jobVars, assets, requests, faults, asked, torn, murky>>

(* Rendering fails for one kit and not for another: then the docx is left  *)
(* out, before anything is removed; a kit may have no section to export.   *)
Unrendered(p) ==
    /\ pc[p] \in {"docx", "pdf"}
    /\ IF pc[p] = "docx" THEN Goto(p, "pdf", req[p]) ELSE Done(p)
    /\ mixed' = mixed \cup {req[p].job}
    /\ UNCHANGED <<part, files, drawn, jobs, postings, rows, kitOf, uploaded, recycled, assets,
                   requests, faults, asked, torn, murky>>

Render(p) ==
    /\ pc[p] = "render"
    /\ Write
    /\ Goto(p, "attach", [req[p] EXCEPT !.new = drawn + 1])
    /\ UNCHANGED <<part, jobVars, assets, requests, faults, asked, torn, murky>>

Replaced(p) == req[p].seen

AttachDone(p) ==
    /\ pc[p] = "attach"
    /\ rows' = (rows \ Replaced(p))
               \cup {RowOf(req[p].new, req[p].job, req[p].kind, req[p].kit)}
    /\ IF req[p].kind = "docx"
       THEN Goto(p, "pdf", [req[p] EXCEPT !.seen = {}, !.new = 0, !.kind = None])
       ELSE Done(p)
    /\ UNCHANGED <<part, files, drawn, jobs, postings, kitOf, uploaded, recycled, mixed, assets,
                   requests, faults, asked, torn, murky>>

(***************************************************************************)
(* The candidate's documents                                               *)
(***************************************************************************)
NextAsset == Highest({a.id : a \in assets}) + 1
Asset(f, resume, base) == [id |-> NextAsset, file |-> f, source |-> 0, resume |-> resume, base |-> base]

(* A document that is no resume: its file, then its row; a "Base Resume"   *)
(* is then converted into a variant as well.                               *)
UploadAsset(p) ==
    /\ Begin(p, "resume", "asset", [NoReq EXCEPT !.op = "asset", !.new = drawn + 1])
    /\ Write
    /\ UNCHANGED <<part, jobVars, assets, faults, asked, torn, murky>>

AssetDone(p) == \E convert \in BOOLEAN :
    /\ pc[p] = "asset"
    /\ assets' = assets \cup {Asset(req[p].new, FALSE, FALSE)}
    /\ IF convert THEN Goto(p, "draft", [NoReq EXCEPT !.op = "draft"]) ELSE Done(p)
    /\ UNCHANGED <<part, files, drawn, jobVars, requests, faults, asked, torn, murky>>

(* A "Custom Resume" is converted first, or refused; the original is kept  *)
(* beside the variant made from it.                                        *)
UploadResume(p) ==
    /\ Begin(p, "resume", "draft", [NoReq EXCEPT !.op = "custom", !.source = drawn + 1])
    /\ Write
    /\ murky' = (murky \/ Doing("unasset") # {})
    /\ UNCHANGED <<part, jobVars, assets, faults, asked, torn>>

(* A variant from the interview, a paste, or the MCP tool. *)
Draft(p) ==
    /\ Begin(p, "resume", "draft", [NoReq EXCEPT !.op = "draft"])
    /\ UNCHANGED <<part, files, drawn, jobVars, assets, faults, asked, torn, murky>>

(* save_resume_draft: the text is written; if it cannot be, the original   *)
(* is removed again.                                                       *)
WriteDraft(p) ==
    /\ pc[p] = "draft"
    /\ \/ Write /\ Goto(p, "variant", [req[p] EXCEPT !.new = drawn + 1])
       \/ files' = files \ {req[p].source} /\ UNCHANGED drawn /\ Done(p)
    /\ UNCHANGED <<part, jobVars, assets, requests, faults, asked, torn, murky>>

(* Slip: the earlier base stays one. *)
AsTheyWere == assets

(* The UPDATE that demotes the base takes SQLite's write lock until the    *)
(* commit.                                                                 *)
Demoted == {[a EXCEPT !.base = a.base /\ ~a.resume] : a \in assets}

VariantDone(p) ==
    /\ pc[p] = "variant"
    /\ assets' = Demoted \cup {Asset(req[p].new, TRUE, TRUE)}
    /\ IF req[p].op = "custom" THEN Goto(p, "source", [req[p] EXCEPT !.asset = NextAsset])
       ELSE Done(p)
    /\ UNCHANGED <<part, files, drawn, jobVars, requests, faults, asked, torn, murky>>

(* The original is recorded on the row, if it is still there: else the     *)
(* request fails.                                                          *)
SourceDone(p) ==
    /\ pc[p] = "source"
    /\ assets' = {IF a.id = req[p].asset THEN [a EXCEPT !.source = req[p].source] ELSE a
                  : a \in assets}
    /\ Done(p)
    /\ UNCHANGED <<part, files, drawn, jobVars, requests, faults, asked, torn, murky>>

(* Promotion: the variant is read, then all are demoted and it is made the *)
(* base, in one transaction that fails when the row is gone.               *)
Promote(p) == \E a \in Resumes :
    /\ Begin(p, "resume", "promote", [NoReq EXCEPT !.op = "promote", !.asset = a.id])
    /\ murky' = (murky \/ Doing("unasset") # {})
    /\ UNCHANGED <<part, files, drawn, jobVars, assets, faults, asked, torn>>

PromoteDone(p) ==
    /\ pc[p] = "promote"
    /\ assets' = IF \A a \in assets : a.id # req[p].asset THEN assets
                 ELSE {IF a.id = req[p].asset THEN [a EXCEPT !.base = TRUE] ELSE a : a \in Demoted}
    /\ Done(p)
    /\ UNCHANGED <<part, files, drawn, jobVars, requests, faults, asked, torn, murky>>

(* The edit form may change a document's kind; is_base stays what it was. *)
EditAsset == \E a \in assets :
    /\ requests < MaxRequests /\ requests' = requests + 1
    /\ assets' = (assets \ {a}) \cup {[a EXCEPT !.resume = ~@]}
    /\ murky' = TRUE
    /\ UNCHANGED <<part, files, drawn, jobVars, pc, req, faults, asked, torn>>

(* Deletion: the row is read, its files removed, the row deleted; if it    *)
(* was the base when it was read, the newest variant left becomes the      *)
(* base, in a commit of its own.                                           *)
FilesOf(a) == {a.file, a.source} \ {0}

DeleteAsset(p) == \E a \in assets :
    /\ Begin(p, "resume", "unlink",
             [NoReq EXCEPT !.op = "unasset", !.asset = a.id, !.seen = {a},
                           !.base = a.resume /\ a.base])
    /\ asked' = asked \cup FilesOf(a)
    /\ murky' = (murky \/ Doing("unasset") \cup Doing("promote") \cup Doing("custom") # {})
    /\ UNCHANGED <<part, files, drawn, jobVars, assets, faults, torn>>

Unlinked(p) == UNION {FilesOf(a) : a \in req[p].seen}

Unlink(p) ==
    /\ pc[p] = "unlink"
    /\ files' = files \ Unlinked(p)
    /\ Goto(p, "unasset", req[p])
    /\ UNCHANGED <<part, drawn, jobVars, assets, requests, faults, asked, torn, murky>>

UnassetDone(p) ==
    /\ pc[p] = "unasset"
    /\ assets' = {a \in assets : a.id # req[p].asset}
    /\ IF req[p].base THEN Goto(p, "succeed", [req[p] EXCEPT !.seen = {}]) ELSE Done(p)
    /\ UNCHANGED <<part, files, drawn, jobVars, requests, faults, asked, torn, murky>>

Newest == {a \in Resumes : \A b \in Resumes : b.id <= a.id}

SucceedDone(p) ==
    /\ pc[p] = "succeed"
    /\ assets' = (assets \ Newest) \cup {[a EXCEPT !.base = TRUE] : a \in Newest}
    /\ Done(p)
    /\ UNCHANGED <<part, files, drawn, jobVars, requests, faults, asked, torn, murky>>

(***************************************************************************)
(* What goes wrong                                                         *)
(***************************************************************************)
Commits == {"upload", "forget", "text", "attach", "asset", "variant", "source", "promote",
            "unasset", "succeed"}
Removed(p) == IF pc[p] \in {"forget", "render", "attach", "unasset"}
              THEN UNION {{r.file} \cup (IF part = "resume" THEN {r.source} ELSE {}) : r \in req[p].seen}
              ELSE {}

Faulty(p) ==
    /\ faults < MaxFaults /\ faults' = faults + 1
    /\ torn' = torn \cup Removed(p)
    /\ murky' = TRUE
    /\ mixed' = mixed \cup ({req[p].job} \ {0})
    /\ UNCHANGED <<part, files, drawn, jobs, postings, rows, kitOf, uploaded, recycled, assets,
                   requests, asked>>

(* The commit raises and the request ends, or the process dies. *)
Abort(p) == pc[p] # "idle" /\ Faulty(p) /\ Done(p)

(* A transient error: the session is rolled back and the second attempt    *)
(* commits nothing (db_utils.py); the request goes on as if it had.        *)
CommitsNothing(p) ==
    /\ pc[p] \in Commits /\ Faulty(p)
    /\ CASE pc[p] = "text" -> Goto(p, IF req[p].op = "build" THEN "docx" ELSE "pdf", req[p])
         [] pc[p] = "attach" /\ req[p].kind = "docx" ->
              Goto(p, "pdf", [req[p] EXCEPT !.seen = {}, !.new = 0, !.kind = None])
         [] pc[p] = "unasset" /\ req[p].base -> Goto(p, "succeed", [req[p] EXCEPT !.seen = {}])
         [] OTHER -> Done(p)

JobStep(p) ==
    \/ Upload(p) \/ UploadDone(p) \/ DeleteAttachment(p) \/ DeleteJob(p) \/ Remove(p)
    \/ ForgetDone(p) \/ Compose(p) \/ KitText(p) \/ ReadEarlier(p) \/ Unrendered(p)
    \/ Render(p) \/ AttachDone(p)

ResumeStep(p) ==
    \/ UploadAsset(p) \/ AssetDone(p) \/ UploadResume(p) \/ Draft(p) \/ WriteDraft(p)
    \/ VariantDone(p) \/ SourceDone(p) \/ Promote(p) \/ PromoteDone(p)
    \/ DeleteAsset(p) \/ Unlink(p) \/ UnassetDone(p) \/ SucceedDone(p)

Next ==
    \/ \E p \in Procs : JobStep(p) \/ ResumeStep(p) \/ Abort(p) \/ CommitsNothing(p)
    \/ Track \/ EditAsset

Spec == Init /\ [][Next]_vars

(***************************************************************************)
(* Properties                                                              *)
(***************************************************************************)
TypeOK ==
    /\ files \subseteq 1 .. drawn
    /\ \A j \in Live : jobs[j].posting \in 1 .. postings /\ jobs[j].kit \in {0} \cup DOMAIN kitOf
    /\ \A r \in rows : r.file \in 1 .. drawn /\ r.kind \in Kinds
    /\ \A a \in assets : a.id \in 1 .. drawn /\ a.source \in 0 .. drawn
    /\ \A p \in Procs : req[p].new \in 0 .. drawn

AllIdle == \A p \in Procs : pc[p] = "idle"
Named == {r.file : r \in rows} \cup UNION {FilesOf(a) : a \in assets}

(* A row names a file that is there, unless a request is deleting it or    *)
(* stopped between the file and the commit.                                *)
RowsHaveFiles == Named \subseteq files \cup torn \cup UNION {Removed(p) : p \in Procs}

(* What a user uploaded to a job keeps its row and its file until they ask *)
(* for it to be deleted, however often kits are rebuilt beside it          *)
(* (kit_export.py:421-422).                                                *)
UploadsKept == \A f \in uploaded \ asked : f \in files /\ \E r \in rows : r.file = f

(* Once its builds are over a job has one document of each kind, and its   *)
(* PDFs are of the kit it shows, if no two wrote at once (ai.py:2210-2211, *)
(* kit_export.py:419-421).                                                 *)
OneKit == AllIdle => \A j \in Live \ (mixed \cup recycled) :
    LET documents == {r \in rows : r.job = j /\ r.kind # "upload"}
    IN  /\ \A r, s \in documents : r.kind = s.kind => r = s
        /\ \A r \in documents : r.kind = "pdf" => r.kit = jobs[j].kit

(* A kit is saved on the posting it was written for, however long that     *)
(* took, unless it and every newer job was deleted: then its id is given   *)
(* again.                                                                  *)
KitOfItsPosting == \A j \in Live \ recycled : jobs[j].kit # 0 => kitOf[jobs[j].kit] = jobs[j].posting

(* While there are variants of the resume exactly one is the base          *)
(* (models.py:302-303): saving and promoting may overlap each other, and   *)
(* saving a deletion.  Two deletions, or one and a promotion, may not, and *)
(* no document may change its kind.                                        *)
OneBase == part = "resume" /\ AllIdle /\ ~murky /\ Resumes # {} =>
           Cardinality({a \in Resumes : a.base}) = 1

(* No file is left behind that no row names. *)
FilesAreNamed == AllIdle /\ ~murky => files \subseteq Named

(* The rows and the upload directory agree: no row without its file, no    *)
(* file without a row, nothing a user uploaded lost beside a kit, up to    *)
(* the requests in progress and those a fault cut short.                   *)
RowsAndFiles == TypeOK /\ RowsHaveFiles /\ UploadsKept /\ FilesAreNamed

(* A job shows one kit, written for its own posting, and the documents     *)
(* rendered from that kit, but where two builds overlapped or SQLite gave  *)
(* an id again.                                                            *)
KitRight == OneKit /\ KitOfItsPosting
================================================================================
