--------------------------- MODULE DocumentsProofs ---------------------------
(***************************************************************************)
(* Theorems about Documents, for any number of processes, requests,        *)
(* postings and faults.                                                    *)
(*                                                                         *)
(* The invariant IInv has a part for the attachments of jobs (JobFiles,    *)
(* KitsKept) and one for the candidate's documents (AssetFiles, Roomy,     *)
(* Calm, Based).  For each there is a relation that says what any step of  *)
(* one request may do (JobMove and KitsMove, AssetMove and CalmMove): that *)
(* it keeps the invariant is proved once, and each action is shown to be   *)
(* such a step.                                                            *)
(***************************************************************************)
EXTENDS Documents, FiniteSetTheorems, TLAPS

USE DocumentsAssumption

(* A set of numbers up to n that is not empty has a greatest element: the  *)
(* least of the numbers none of it is above.                               *)
LEMMA Greatest ==
    ASSUME NEW n \in Nat, NEW S, S \subseteq 0 .. n, S # {}
    PROVE  \E x \in S : \A y \in S : x >= y
<1> DEFINE Above(x) == {y \in S : y >= x}
<1> DEFINE T == {Above(x) : x \in S}
<1>1. IsFiniteSet(S)
  <2>1. \A s \in S : s <= n
    OBVIOUS
  <2>2. S \in SUBSET Nat
    OBVIOUS
  <2> QED
    BY <2>1, <2>2, FS_BoundedSetOfNaturals
<1>2. T # {}
  OBVIOUS
<1>3. T \subseteq FiniteSubsetsOf(S)
  <2>1. \A x \in S : IsFiniteSet(Above(x)) /\ Above(x) \subseteq S
    BY <1>1, FS_Subset
  <2> QED
    BY <2>1 DEF FiniteSubsetsOf
<1>4. PICK A \in T : \A B \in T : ~(<<B, A>> \in StrictSubsetOrdering(S))
  BY <1>2, <1>3, FS_StrictSubsetOrderingWellFounded, WFMin
<1>5. PICK x \in S : A = Above(x)
  OBVIOUS
<1>6. \A y \in S : Above(y) \in T /\ Above(y) \subseteq S
  OBVIOUS
<1>x. x \in Above(x)
  OBVIOUS
<1>y. ASSUME NEW y \in S, y > x
      PROVE  Above(y) \subseteq Above(x) /\ x \notin Above(y)
  <2>1. \A z \in S : z \in Nat
    OBVIOUS
  <2>2. \A z \in S : z >= y => z >= x
    BY <1>y, <2>1
  <2>3. ~(x >= y)
    BY <1>y, <2>1
  <2> HIDE DEF T
  <2> QED
    BY <2>2, <2>3
<1> HIDE DEF Above, T
<1>7. ASSUME NEW y \in S, y > x PROVE FALSE
  <2>0. Above(y) \subseteq Above(x) /\ x \notin Above(y)
    BY <1>7, <1>y
  <2>1. Above(y) # A /\ Above(y) \subseteq A /\ Above(y) \in T /\ A \subseteq S
    BY <1>5, <1>6, <1>7, <1>x, <2>0
  <2>2. <<Above(y), A>> \in StrictSubsetOrdering(S)
    BY <2>1 DEF StrictSubsetOrdering
  <2> QED
    BY <1>4, <2>1, <2>2
<1>8. \A y \in S : x >= y
  BY <1>7
<1> QED
  BY <1>8

(* The highest number of a set is 0 or in the set, and no other is above   *)
(* it.                                                                     *)
LEMMA HighestIs ==
    ASSUME NEW n \in Nat, NEW S, S \subseteq 0 .. n
    PROVE  /\ Highest(S) \in 0 .. n /\ Highest(S) \in {0} \cup S
           /\ \A y \in S : y <= Highest(S)
<1> DEFINE Z == {0} \cup S
<1>0. Z \subseteq 0 .. n /\ Z # {}
  OBVIOUS
<1> HIDE DEF Z
<1>1. \E x \in Z : \A y \in Z : x >= y
  BY <1>0, Greatest
<1>2. /\ Max(Z) \in Z
      /\ \A y \in Z : Max(Z) >= y
  BY <1>1 DEF Max
<1>3. Highest(S) = Max(Z)
  BY DEF Highest, Z
<1> QED
  BY <1>0, <1>2, <1>3 DEF Z

(***************************************************************************)
(* Types                                                                   *)
(***************************************************************************)
JobSteps == {"upload", "remove", "forget", "text", "docx", "pdf", "render", "attach"}
ResumeSteps == {"asset", "draft", "variant", "source", "promote", "unlink", "unasset", "succeed"}
StepsOf(side) == {"idle"} \cup (IF side = "job" THEN JobSteps ELSE ResumeSteps)
Ops == {None, "upload", "delete", "build", "save", "asset", "custom", "draft", "promote", "unasset"}

RowSet == [file : Nat, job : Nat, kind : Kinds, kit : Nat]
AssetSet == [id : Nat, file : Nat, source : Nat, resume : BOOLEAN, base : BOOLEAN]
ReqSet == [op : Ops, job : Nat, kit : Nat, asset : Nat, new : Nat, source : Nat,
           kind : Kinds \cup {None}, seen : SUBSET (RowSet \cup AssetSet), base : BOOLEAN]

(* A kit's writer is told by its step, and knows its kind while it         *)
(* replaces a document.                                                    *)
Writing(step, r) == \/ step \in {"text", "docx", "pdf", "render", "attach"}
                    \/ (step = "remove" /\ r.op # "delete")

Sighted(r, side, n) == \A s \in r.seen :
    /\ side = "job" => s \in RowSet /\ s.file \in 1 .. n
    /\ side = "resume" => s \in AssetSet /\ s.file \in 1 .. n /\ s.source \in 0 .. n

JobReq(step, r, kits) ==
    /\ step = "idle" => r.job = 0
    /\ step = "forget" => r.op = "delete"
    /\ Writing(step, r) => r.op \in {"build", "save"} /\ r.kit \in kits /\ r.job # 0
    /\ step \in {"remove", "render", "attach"} /\ Writing(step, r) => r.kind \in {"docx", "pdf"}

ResumeReq(step, r) ==
    /\ step \in {"draft", "variant"} => r.op \in {"custom", "draft"} /\ (r.op = "custom" <=> r.source # 0)
    /\ step = "source" => r.op = "custom" /\ r.source # 0
    /\ step = "promote" => r.op = "promote"
    /\ step \in {"unlink", "unasset", "succeed"} => r.op = "unasset"
    /\ step \in {"unlink", "unasset"} => \E a \in r.seen : r.seen = {a} /\ a.id = r.asset

Formed(step, r, side, n, kits) ==
    /\ r \in ReqSet /\ step \in StepsOf(side)
    /\ r.new \in 0 .. n /\ r.source \in 0 .. n
    /\ step \in {"upload", "attach", "asset", "variant"} => r.new # 0
    /\ Sighted(r, side, n)
    /\ JobReq(step, r, kits) /\ ResumeReq(step, r)

Requested ==
    /\ pc \in [Procs -> JobSteps \cup ResumeSteps \cup {"idle"}] /\ req \in [Procs -> ReqSet]
    /\ \A p \in Procs : Formed(pc[p], req[p], part, drawn, DOMAIN kitOf)

Kits == Cardinality(DOMAIN kitOf)

Sides ==
    /\ part \in {"job", "resume"} /\ drawn \in Nat /\ postings \in Nat /\ murky \in BOOLEAN
    /\ part = "job" => assets = {}
    /\ part = "resume" => rows = {} /\ Live = {} /\ uploaded = {}

Jobs ==
    /\ Live \subseteq 1 .. postings
    /\ jobs \in [Live -> [posting : Nat, kit : Nat]]
    /\ \A j \in Live : jobs[j].posting \in 1 .. postings /\ jobs[j].kit \in {0} \cup DOMAIN kitOf
    /\ Kits \in Nat /\ DOMAIN kitOf = 1 .. Kits

Tables ==
    /\ files \subseteq 1 .. drawn
    /\ rows \subseteq RowSet /\ \A r \in rows : r.file \in 1 .. drawn
    /\ uploaded \subseteq 1 .. drawn

Assets ==
    /\ assets \subseteq AssetSet
    /\ \A a \in assets : a.id \in 1 .. drawn /\ a.file \in 1 .. drawn /\ a.source \in 0 .. drawn
    /\ \A a, b \in assets : a.id = b.id => a = b

(* Ids are given to documents that have drawn a file, so they cannot       *)
(* overtake the names drawn.                                               *)
Coming == {req[p].new : p \in {q \in Procs : pc[q] \in {"asset", "variant"}}}
Apart == \A p, q \in Procs : /\ pc[p] \in {"asset", "variant"} /\ pc[q] \in {"asset", "variant"}
                             /\ req[p].new = req[q].new => p = q
Roomy == \A a \in assets : a.id + Cardinality(Coming) <= drawn

(* A process without a request is well formed.                             *)
LEMMA IdleFormed ==
    ASSUME NEW side, NEW n \in Nat, NEW kits
    PROVE  Formed("idle", NoReq, side, n, kits)
<1>1. NoReq \in ReqSet
  BY DEF NoReq, ReqSet, Ops, Kinds
<1>2. Sighted(NoReq, side, n)
  BY DEF Sighted, NoReq
<1>3. JobReq("idle", NoReq, kits) /\ ResumeReq("idle", NoReq)
  BY DEF JobReq, ResumeReq, Writing, NoReq
<1> QED
  BY <1>1, <1>2, <1>3 DEF Formed, StepsOf, NoReq

(* A request stays well formed while files are drawn and kits added.       *)
LEMMA FormedGrows ==
    ASSUME NEW step, NEW r, NEW side, NEW n \in Nat, NEW m \in Nat, n <= m,
           NEW kits, NEW more, kits \subseteq more, Formed(step, r, side, n, kits)
    PROVE  Formed(step, r, side, m, more)
<1>1. Sighted(r, side, m)
  BY DEF Formed, Sighted
<1>2. JobReq(step, r, more)
  BY DEF Formed, JobReq
<1> QED
  BY <1>1, <1>2 DEF Formed

(* The requests stay well formed when one goes on to a well formed one.    *)
LEMMA RequestedGoto ==
    ASSUME Requested, part' = part, drawn \in Nat, drawn' \in Nat, drawn <= drawn',
           DOMAIN kitOf \subseteq DOMAIN kitOf',
           NEW p \in Procs, NEW step, NEW r, Goto(p, step, r),
           Formed(step, r, part, drawn', DOMAIN kitOf')
    PROVE  /\ Requested'
           /\ pc'[p] = step /\ req'[p] = r
           /\ \A q \in Procs : q # p => pc'[q] = pc[q] /\ req'[q] = req[q]
<1>1. /\ pc' = [pc EXCEPT ![p] = step]
      /\ req' = [req EXCEPT ![p] = r]
  BY DEF Goto
<1>2. r \in ReqSet /\ step \in JobSteps \cup ResumeSteps \cup {"idle"}
  BY DEF Formed, StepsOf
<1>3. /\ pc \in [Procs -> JobSteps \cup ResumeSteps \cup {"idle"}]
      /\ req \in [Procs -> ReqSet]
  BY DEF Requested
<1>4. /\ pc' \in [Procs -> JobSteps \cup ResumeSteps \cup {"idle"}]
      /\ req' \in [Procs -> ReqSet]
      /\ pc'[p] = step /\ req'[p] = r
      /\ \A q \in Procs : q # p => pc'[q] = pc[q] /\ req'[q] = req[q]
  BY <1>1, <1>2, <1>3
<1>5. ASSUME NEW q \in Procs
      PROVE  Formed(pc'[q], req'[q], part', drawn', DOMAIN kitOf')
  <2>1. CASE q = p
    BY <1>4, <2>1
  <2>2. CASE q # p
    <3>1. Formed(pc[q], req[q], part, drawn, DOMAIN kitOf)
      BY DEF Requested
    <3>2. Formed(pc[q], req[q], part, drawn', DOMAIN kitOf')
      BY <3>1, FormedGrows
    <3> QED
      BY <2>2, <3>2, <1>4
  <2> QED
    BY <2>1, <2>2
<1> QED
  BY <1>4, <1>5 DEF Requested

(* Only p goes on. *)
Alone(p) == \A q \in Procs : q # p => pc'[q] = pc[q] /\ req'[q] = req[q]

(* Only requests of the side that is modelled are under way.               *)
LEMMA StepOfSide ==
    ASSUME Sides, Requested, NEW p \in Procs
    PROVE  /\ pc[p] \in JobSteps => part = "job"
           /\ pc[p] \in ResumeSteps => part = "resume"
           /\ pc[p] = "idle" \/ pc[p] \in JobSteps \/ pc[p] \in ResumeSteps
<1>1. pc[p] \in StepsOf(part)
  BY DEF Requested, Formed
<1> QED
  BY <1>1 DEF StepsOf, JobSteps, ResumeSteps, Sides

(* What a process without a request holds.                                 *)
LEMMA NoReqIs ==
    /\ NoReq \in ReqSet
    /\ NoReq.job = 0 /\ NoReq.kit = 0 /\ NoReq.new = 0 /\ NoReq.source = 0 /\ NoReq.seen = {}
  BY DEF NoReq, ReqSet, Ops, Kinds

(* Where Upload takes a request, and what it leaves alone.                 *)
LEMMA UploadFormed ==
    ASSUME Sides, Jobs, Tables, Requested, NEW p \in Procs, Upload(p)
    PROVE  /\ Requested' /\ part = "job" /\ pc[p] = "idle"
           /\ Alone(p)
           /\ pc'[p] = "upload" /\ req'[p].new = drawn + 1 /\ req'[p].seen = {}
           /\ req'[p].job \in Live
<1>1. PICK j \in Live : Upload(p)!(j)
  BY DEF Upload
<1> DEFINE r == [NoReq EXCEPT !.op = "upload", !.job = j, !.new = drawn + 1]
<1>2. Goto(p, "upload", r) /\ part = "job" /\ pc[p] = "idle"
  BY <1>1 DEF Begin
<1>3. r \in ReqSet /\ r.new = drawn + 1 /\ r.source = 0 /\ r.seen = {} /\ r.op = "upload" /\ r.job = j
  <2>2. drawn + 1 \in Nat /\ j \in Nat
    BY DEF Sides, Jobs
  <2>3. "upload" \in Ops
    BY DEF Ops
  <2> QED
    BY <2>2, <2>3, NoReqIs DEF ReqSet
<1>4. drawn' = drawn + 1 /\ kitOf' = kitOf /\ part' = part
  BY <1>1 DEF Write, jobVars
<1> HIDE DEF r
<1>5. Formed("upload", r, part, drawn', DOMAIN kitOf')
  <2>1. "upload" \in StepsOf(part)
    BY <1>2 DEF StepsOf, JobSteps
  <2>2. Sighted(r, part, drawn')
    BY <1>3 DEF Sighted
  <2>3. JobReq("upload", r, DOMAIN kitOf') /\ ResumeReq("upload", r)
    BY <1>3 DEF JobReq, ResumeReq, Writing
  <2>4. drawn \in Nat
    BY DEF Sides
  <2> QED
    BY <2>1, <2>2, <2>3, <2>4, <1>3, <1>4 DEF Formed
<1>6. /\ Requested'
      /\ pc'[p] = "upload" /\ req'[p] = r
      /\ Alone(p)
  <2>1. drawn \in Nat /\ drawn' \in Nat /\ drawn <= drawn' /\ DOMAIN kitOf \subseteq DOMAIN kitOf'
    BY <1>4 DEF Sides
  <2> QED
    BY <2>1, <1>2, <1>4, <1>5, RequestedGoto DEF Alone
<1> QED
  BY <1>6, <1>3, <1>2, <1>1

(* A request that is done leaves the others as they were.                  *)
LEMMA DoneFormed ==
    ASSUME Sides, Requested, NEW p \in Procs, Done(p), part' = part, drawn' = drawn, kitOf' = kitOf
    PROVE  /\ Requested' /\ pc'[p] = "idle" /\ req'[p] = NoReq
           /\ Alone(p)
<1>1. Formed("idle", NoReq, part, drawn', DOMAIN kitOf')
  BY IdleFormed DEF Sides
<1>2. drawn \in Nat /\ drawn' \in Nat /\ drawn <= drawn' /\ DOMAIN kitOf \subseteq DOMAIN kitOf'
  BY DEF Sides
<1> QED
  BY <1>1, <1>2, RequestedGoto DEF Done, Alone

(* Where the deletion of an attachment or a job begins, and what it leaves *)
(* alone.                                                                  *)
LEMMA DeleteFormed ==
    ASSUME Sides, Jobs, Tables, Requested, NEW p \in Procs, DeleteAttachment(p) \/ DeleteJob(p)
    PROVE  /\ Requested' /\ Alone(p) /\ part = "job" /\ pc[p] = "idle"
           /\ pc'[p] = "remove" /\ req'[p].op = "delete" /\ req'[p].seen \subseteq rows
           /\ \A s \in req'[p].seen : s.file \in asked'
           /\ UNCHANGED <<files, drawn, jobVars, torn, murky>> /\ asked \subseteq asked'
<1>1. \E r : /\ Goto(p, "remove", r) /\ r \in ReqSet /\ r.op = "delete" /\ r.new = 0 /\ r.source = 0
             /\ r.seen \subseteq rows /\ \A s \in r.seen : s.file \in asked'
  <2>1. CASE DeleteAttachment(p)
    <3>1. PICK s \in rows : DeleteAttachment(p)!(s)
      BY <2>1 DEF DeleteAttachment
    <3> DEFINE r == [NoReq EXCEPT !.op = "delete", !.seen = {s}]
    <3>2. Goto(p, "remove", r)
      BY <3>1 DEF Begin
    <3>3. s \in RowSet /\ "delete" \in Ops
      BY DEF Tables, Ops
    <3>4. r \in ReqSet /\ r.op = "delete" /\ r.new = 0 /\ r.source = 0 /\ r.seen = {s}
      BY <3>3, NoReqIs DEF ReqSet
    <3> HIDE DEF r
    <3> QED
      BY <3>1, <3>2, <3>4
  <2>2. CASE DeleteJob(p)
    <3>1. PICK j \in Live : DeleteJob(p)!(j)
      BY <2>2 DEF DeleteJob
    <3> DEFINE S == {s \in rows : s.job = j}
    <3> DEFINE r == [NoReq EXCEPT !.op = "delete", !.job = j, !.seen = S]
    <3>2. Goto(p, "remove", r) /\ asked' = asked \cup {s.file : s \in S}
      BY <3>1 DEF Begin
    <3>3. S \subseteq RowSet /\ "delete" \in Ops /\ S \subseteq rows
      BY DEF Tables, Ops
    <3>5. j \in Nat
      BY DEF Jobs, Sides
    <3> HIDE DEF S
    <3>4. r \in ReqSet /\ r.op = "delete" /\ r.new = 0 /\ r.source = 0 /\ r.seen = S
      BY <3>3, <3>5, NoReqIs DEF ReqSet
    <3> HIDE DEF r
    <3> QED
      BY <3>2, <3>3, <3>4
  <2> QED
    BY <2>1, <2>2
<1>2. PICK r : /\ Goto(p, "remove", r) /\ r \in ReqSet /\ r.op = "delete" /\ r.new = 0 /\ r.source = 0
             /\ r.seen \subseteq rows /\ \A s \in r.seen : s.file \in asked'
  BY <1>1
<1>3. /\ part = "job" /\ pc[p] = "idle" /\ part' = part
      /\ UNCHANGED <<files, drawn, jobVars, torn, murky>> /\ asked \subseteq asked'
  BY DEF DeleteAttachment, DeleteJob, Begin
<1>4. drawn' = drawn /\ kitOf' = kitOf
  BY <1>3 DEF jobVars
<1>5. Formed("remove", r, part, drawn', DOMAIN kitOf')
  <2>1. "remove" \in StepsOf(part)
    BY <1>3 DEF StepsOf, JobSteps
  <2>2. Sighted(r, part, drawn')
    BY <1>2, <1>3, <1>4 DEF Sighted, Tables
  <2>3. JobReq("remove", r, DOMAIN kitOf') /\ ResumeReq("remove", r)
    BY <1>2 DEF JobReq, ResumeReq, Writing
  <2>4. drawn \in Nat
    BY DEF Sides
  <2> QED
    BY <2>1, <2>2, <2>3, <2>4, <1>2, <1>4 DEF Formed
<1>6. Requested' /\ pc'[p] = "remove" /\ req'[p] = r /\ Alone(p)
  <2>1. drawn \in Nat /\ drawn' \in Nat /\ drawn <= drawn' /\ DOMAIN kitOf \subseteq DOMAIN kitOf'
    BY <1>4 DEF Sides
  <2> QED
    BY <2>1, <1>2, <1>3, <1>5, RequestedGoto DEF Alone
<1> QED
  BY <1>6, <1>3, <1>2

(* A request that goes on as it was, to another step of a kit's writer or  *)
(* of a deletion.                                                          *)
LEMMA SameFormed ==
    ASSUME Sides, Requested, NEW p \in Procs, NEW step, part = "job",
           Goto(p, step, req[p]), part' = part, drawn' = drawn, kitOf' = kitOf,
           step \in {"forget", "render", "docx", "pdf"},
           step = "forget" => req[p].op = "delete",
           step # "forget" => Writing(pc[p], req[p]),
           step = "render" => pc[p] \in {"remove", "render", "attach"}
    PROVE  Requested' /\ Alone(p) /\ pc'[p] = step /\ req'[p] = req[p]
<1>1. Formed(pc[p], req[p], part, drawn, DOMAIN kitOf)
  BY DEF Requested
<1>2. JobReq(step, req[p], DOMAIN kitOf) /\ ResumeReq(step, req[p])
  BY <1>1 DEF Formed, JobReq, ResumeReq, Writing
<1>3. step \in StepsOf(part)
  BY DEF StepsOf, JobSteps
<1>4. Formed(step, req[p], part, drawn', DOMAIN kitOf')
  BY <1>1, <1>2, <1>3 DEF Formed
<1>5. drawn \in Nat /\ drawn' \in Nat /\ drawn <= drawn' /\ DOMAIN kitOf \subseteq DOMAIN kitOf'
  BY DEF Sides
<1> QED
  BY <1>4, <1>5, RequestedGoto DEF Alone

(* Where Compose takes a request, and what it leaves alone.                *)
LEMMA ComposeFormed ==
    ASSUME Sides, Jobs, Tables, Requested, NEW p \in Procs, Compose(p)
    PROVE  /\ Requested' /\ Alone(p) /\ part = "job" /\ pc[p] = "idle"
           /\ pc'[p] = "text" /\ req'[p].op \in {"build", "save"} /\ req'[p].seen = {}
           /\ req'[p].job \in Live /\ req'[p].kit = Kits + 1
           /\ DOMAIN kitOf' = 1 .. Kits + 1 /\ Kits' = Kits + 1
           /\ kitOf'[Kits + 1] = jobs[req'[p].job].posting
           /\ \A k \in DOMAIN kitOf : kitOf'[k] = kitOf[k]
           /\ mixed' = IF Writers(req'[p].job) = {} THEN mixed ELSE mixed \cup {req'[p].job}
           /\ UNCHANGED <<part, files, drawn, jobs, postings, rows, uploaded, recycled, assets,
                          asked, torn, murky>>
<1>1. PICK op \in {"build", "save"}, j \in Live : Compose(p)!(op, j)
  BY DEF Compose
<1> DEFINE r == [NoReq EXCEPT !.op = op, !.job = j, !.kit = Kits + 1]
<1>2. /\ Goto(p, "text", r) /\ part = "job" /\ pc[p] = "idle"
      /\ kitOf' = [k \in 1 .. Kits + 1 |-> IF k = Kits + 1 THEN jobs[j].posting ELSE kitOf[k]]
      /\ mixed' = IF Writers(j) = {} THEN mixed ELSE mixed \cup {j}
      /\ UNCHANGED <<part, files, drawn, jobs, postings, rows, uploaded, recycled, assets,
                     asked, torn, murky>>
  BY <1>1 DEF Begin, Kits
<1>3. Kits \in Nat /\ DOMAIN kitOf = 1 .. Kits /\ j \in Nat \ {0} /\ drawn \in Nat
  BY DEF Jobs, Sides
<1>4. /\ r \in ReqSet /\ r.op = op /\ r.job = j /\ r.kit = Kits + 1 /\ r.seen = {}
      /\ r.new = 0 /\ r.source = 0
  <2>1. op \in Ops
    BY DEF Ops
  <2>2. Kits + 1 \in Nat /\ j \in Nat
    BY <1>3
  <2> DEFINE kit == Kits + 1
  <2> HIDE DEF kit
  <2>3. [NoReq EXCEPT !.op = op, !.job = j, !.kit = kit] \in ReqSet
    BY <2>1, <2>2, NoReqIs DEF ReqSet, kit
  <2> QED
    BY <2>3, NoReqIs DEF ReqSet, kit
<1>5. /\ DOMAIN kitOf' = 1 .. Kits + 1
      /\ kitOf'[Kits + 1] = jobs[j].posting
      /\ \A k \in DOMAIN kitOf : kitOf'[k] = kitOf[k]
  BY <1>2, <1>3
<1>6. Kits' = Kits + 1
  <2>1. Cardinality(1 .. Kits + 1) = Kits + 1
    BY <1>3, FS_Interval
  <2> QED
    BY <2>1, <1>5 DEF Kits
<1> HIDE DEF r
<1>7. Formed("text", r, part, drawn', DOMAIN kitOf')
  <2>1. "text" \in StepsOf(part)
    BY <1>2 DEF StepsOf, JobSteps
  <2>2. Sighted(r, part, drawn')
    BY <1>4 DEF Sighted
  <2>3. JobReq("text", r, DOMAIN kitOf')
    BY <1>3, <1>4, <1>5 DEF JobReq, Writing
  <2>4. ResumeReq("text", r)
    BY DEF ResumeReq
  <2> QED
    BY <2>1, <2>2, <2>3, <2>4, <1>2, <1>3, <1>4 DEF Formed
<1>8. Requested' /\ pc'[p] = "text" /\ req'[p] = r /\ Alone(p)
  <2>1. drawn' \in Nat /\ drawn <= drawn' /\ DOMAIN kitOf \subseteq DOMAIN kitOf' /\ part' = part
    BY <1>2, <1>3, <1>5
  <2> QED
    BY <2>1, <1>2, <1>3, <1>7, RequestedGoto DEF Alone
<1> QED
  BY <1>8, <1>2, <1>4, <1>5, <1>6

(* Where ReadEarlier takes a request, and what it leaves alone.            *)
LEMMA ReadEarlierFormed ==
    ASSUME Sides, Jobs, Tables, Requested, NEW p \in Procs, ReadEarlier(p)
    PROVE  /\ Requested' /\ Alone(p) /\ part = "job" /\ pc[p] \in {"docx", "pdf"}
           /\ UNCHANGED <<part, files, drawn, jobVars, assets, asked, torn, murky>>
           /\ \/ /\ pc'[p] = "remove" /\ req[p].job \in Live
                 /\ req'[p].seen = Earlier(p) /\ req'[p].kind = pc[p]
                 /\ req'[p].job = req[p].job /\ req'[p].op = req[p].op /\ req'[p].kit = req[p].kit
              \/ pc'[p] = "idle" /\ req'[p] = NoReq /\ req[p].job \notin Live
<1>1. /\ pc[p] \in {"docx", "pdf"} /\ part' = part /\ drawn' = drawn /\ kitOf' = kitOf
      /\ UNCHANGED <<part, files, drawn, jobVars, assets, asked, torn, murky>>
  BY DEF ReadEarlier, jobVars
<1>2. part = "job"
  BY <1>1, StepOfSide DEF JobSteps
<1>3. Formed(pc[p], req[p], part, drawn, DOMAIN kitOf) /\ drawn \in Nat
  BY DEF Requested, Sides
<1>4. CASE req[p].job \in Live
  <2> DEFINE r == [req[p] EXCEPT !.seen = Earlier(p), !.kind = pc[p]]
  <2>1. Goto(p, "remove", r)
    BY <1>4 DEF ReadEarlier
  <2>2. Earlier(p) \subseteq RowSet /\ \A s \in Earlier(p) : s.file \in 1 .. drawn
    BY DEF Tables, Earlier
  <2>3. req[p] \in ReqSet /\ pc[p] \in Kinds
    BY <1>1, <1>3 DEF Formed, Kinds
  <2>4. /\ r \in ReqSet /\ r.seen = Earlier(p) /\ r.kind = pc[p]
        /\ r.job = req[p].job /\ r.op = req[p].op /\ r.kit = req[p].kit
        /\ r.new = req[p].new /\ r.source = req[p].source
    BY <2>2, <2>3 DEF ReqSet
  <2> HIDE DEF r
  <2>5. JobReq("remove", r, DOMAIN kitOf') /\ ResumeReq("remove", r)
    <3>1. Writing(pc[p], req[p])
      BY <1>1 DEF Writing
    <3>2. r.op \in {"build", "save"} /\ r.kit \in DOMAIN kitOf /\ r.job # 0
      BY <2>4, <3>1, <1>3 DEF Formed, JobReq
    <3> QED
      BY <3>2, <2>4, <1>1 DEF JobReq, ResumeReq
  <2>6. Sighted(r, part, drawn')
    BY <2>2, <2>4, <1>1, <1>2 DEF Sighted
  <2>7. Formed("remove", r, part, drawn', DOMAIN kitOf')
    <3>1. "remove" \in StepsOf(part)
      BY <1>2 DEF StepsOf, JobSteps
    <3> QED
      BY <3>1, <2>4, <2>5, <2>6, <1>1, <1>3 DEF Formed
  <2>8. Requested' /\ pc'[p] = "remove" /\ req'[p] = r /\ Alone(p)
    <3>1. drawn' \in Nat /\ drawn <= drawn' /\ DOMAIN kitOf \subseteq DOMAIN kitOf'
      BY <1>1, <1>3
    <3> QED
      BY <3>1, <1>1, <1>3, <2>1, <2>7, RequestedGoto DEF Alone
  <2> QED
    BY <2>4, <2>8, <1>1, <1>2, <1>4
<1>5. CASE req[p].job \notin Live
  <2>1. Done(p)
    BY <1>5 DEF ReadEarlier
  <2>2. /\ Requested' /\ pc'[p] = "idle" /\ req'[p] = NoReq /\ Alone(p)
    BY <2>1, <1>1, DoneFormed
  <2> QED
    BY <2>2, <1>1, <1>2, <1>5
<1> QED
  BY <1>4, <1>5

(* Where Render takes a request, and what it leaves alone.                 *)
LEMMA RenderFormed ==
    ASSUME Sides, Jobs, Tables, Requested, NEW p \in Procs, Render(p)
    PROVE  /\ Requested' /\ Alone(p) /\ part = "job" /\ pc[p] = "render" /\ pc'[p] = "attach"
           /\ req'[p].new = drawn + 1 /\ req'[p].seen = req[p].seen /\ req'[p].kind = req[p].kind
           /\ req'[p].job = req[p].job /\ req'[p].op = req[p].op /\ req'[p].kit = req[p].kit
           /\ drawn' = drawn + 1 /\ files' = files \cup {drawn + 1}
           /\ UNCHANGED <<part, jobVars, assets, asked, torn, murky>>
<1>1. /\ pc[p] = "render" /\ part' = part /\ drawn' = drawn + 1 /\ kitOf' = kitOf
      /\ files' = files \cup {drawn + 1}
      /\ UNCHANGED <<part, jobVars, assets, asked, torn, murky>>
  BY DEF Render, Write, jobVars
<1>2. part = "job"
  BY <1>1, StepOfSide DEF JobSteps
<1>3. Formed(pc[p], req[p], part, drawn, DOMAIN kitOf) /\ drawn \in Nat
  BY DEF Requested, Sides
<1> DEFINE r == [req[p] EXCEPT !.new = drawn + 1]
<1>4. Goto(p, "attach", r)
  BY DEF Render
<1>5. req[p] \in ReqSet
  BY <1>3 DEF Formed
<1>6. /\ r \in ReqSet /\ r.new = drawn + 1 /\ r.seen = req[p].seen /\ r.kind = req[p].kind
      /\ r.job = req[p].job /\ r.op = req[p].op /\ r.kit = req[p].kit /\ r.source = req[p].source
  BY <1>5, <1>3 DEF ReqSet
<1> HIDE DEF r
<1>7. JobReq("attach", r, DOMAIN kitOf') /\ ResumeReq("attach", r)
  BY <1>1, <1>3, <1>6 DEF Formed, JobReq, ResumeReq, Writing
<1>8. Sighted(r, part, drawn')
  BY <1>1, <1>3, <1>6 DEF Formed, Sighted
<1>9. Formed("attach", r, part, drawn', DOMAIN kitOf')
  <2>1. "attach" \in StepsOf(part)
    BY <1>2 DEF StepsOf, JobSteps
  <2>2. r.new \in 0 .. drawn' /\ r.source \in 0 .. drawn' /\ r.new # 0
    BY <1>1, <1>3, <1>6 DEF Formed
  <2> QED
    BY <2>1, <2>2, <1>6, <1>7, <1>8 DEF Formed
<1>10. Requested' /\ pc'[p] = "attach" /\ req'[p] = r /\ Alone(p)
  <2>1. drawn' \in Nat /\ drawn <= drawn' /\ DOMAIN kitOf \subseteq DOMAIN kitOf'
    BY <1>1, <1>3
  <2> QED
    BY <2>1, <1>1, <1>3, <1>4, <1>9, RequestedGoto DEF Alone
<1> QED
  BY <1>10, <1>1, <1>2, <1>6

(* After its docx a build goes on to the PDF. *)
LEMMA NextDocument ==
    ASSUME Sides, Requested, NEW p \in Procs, part = "job", pc[p] = "attach",
           Goto(p, "pdf", [req[p] EXCEPT !.seen = {}, !.new = 0, !.kind = None]),
           part' = part, drawn' = drawn, kitOf' = kitOf
    PROVE  /\ Requested' /\ Alone(p) /\ pc'[p] = "pdf" /\ req'[p].seen = {}
           /\ req'[p].job = req[p].job /\ req'[p].op = req[p].op /\ req'[p].kit = req[p].kit
<1> DEFINE r == [req[p] EXCEPT !.seen = {}, !.new = 0, !.kind = None]
<1>3. Formed(pc[p], req[p], part, drawn, DOMAIN kitOf) /\ drawn \in Nat
  BY DEF Requested, Sides
<1>4. Goto(p, "pdf", r)
  OBVIOUS
<1>5. req[p] \in ReqSet
  BY <1>3 DEF Formed
<1>6. /\ r \in ReqSet /\ r.new = 0 /\ r.seen = {}
      /\ r.job = req[p].job /\ r.op = req[p].op /\ r.kit = req[p].kit /\ r.source = req[p].source
  BY <1>5, <1>3 DEF ReqSet
<1> HIDE DEF r
<1>7. JobReq("pdf", r, DOMAIN kitOf') /\ ResumeReq("pdf", r)
  BY <1>3, <1>6 DEF Formed, JobReq, ResumeReq, Writing
<1>8. Sighted(r, part, drawn')
  BY <1>6 DEF Sighted
<1>9. Formed("pdf", r, part, drawn', DOMAIN kitOf')
  <2>1. "pdf" \in StepsOf(part)
    BY DEF StepsOf, JobSteps
  <2> QED
    BY <2>1, <1>3, <1>6, <1>7, <1>8 DEF Formed
<1>10. Requested' /\ pc'[p] = "pdf" /\ req'[p] = r /\ Alone(p)
  <2>1. drawn' \in Nat /\ drawn <= drawn' /\ DOMAIN kitOf \subseteq DOMAIN kitOf'
    BY <1>3
  <2> QED
    BY <2>1, <1>3, <1>4, <1>9, RequestedGoto DEF Alone
<1> QED
  BY <1>10, <1>6

(***************************************************************************)
(* Attachments and their files                                             *)
(***************************************************************************)
(* The file a request has written and no row names yet; the files it has   *)
(* removed whose rows it has still to delete.                              *)
Claim(step, r) == IF step \in {"upload", "attach"} THEN {r.new} ELSE {}
Dropped(step, r) == IF step \in {"forget", "render", "attach"} THEN {s.file : s \in r.seen} ELSE {}

ClaimsFresh ==
    /\ \A p \in Procs : \A f \in Claim(pc[p], req[p]) :
          f \in files /\ f \notin uploaded /\ \A r \in rows : r.file # f
    /\ \A p, q \in Procs : \A f \in Claim(pc[p], req[p]) : \A s \in req[q].seen : s.file # f
    /\ \A p, q \in Procs : \A f \in Claim(pc[p], req[p]) : f \in Claim(pc[q], req[q]) => p = q

RowsApart ==
    /\ \A r, s \in rows : r.file = s.file => r = s
    /\ \A p \in Procs : \A s \in req[p].seen, r \in rows : r.file = s.file => r = s

DroppedGone == \A p \in Procs : \A f \in Dropped(pc[p], req[p]) : f \notin files

RowsKept == \A r \in rows : \/ r.file \in files \cup torn
                            \/ \E p \in Procs : r.file \in Dropped(pc[p], req[p])

UploadsOwn ==
    /\ \A r \in rows : r.file \in uploaded => r.kind = "upload"
    /\ \A p \in Procs : \A s \in req[p].seen : s.file \in uploaded => s.file \in asked

NoneLeft == ~murky => \A f \in files : \/ \E r \in rows : r.file = f
                                       \/ \E p \in Procs : f \in Claim(pc[p], req[p])

JobFiles == /\ ClaimsFresh /\ RowsApart /\ DroppedGone /\ RowsKept
            /\ UploadsOwn /\ UploadsKept /\ NoneLeft

(* What one step of a request does to files and rows. *)
FilesMove(p) ==
    /\ drawn' \in {drawn, drawn + 1}
    /\ \A f \in files' : f \in files \/ (f = drawn + 1 /\ drawn' = drawn + 1)
    /\ \A f \in files : \/ f \in files'
                        \/ (f \in Dropped(pc'[p], req'[p]) /\ \E s \in req[p].seen : s.file = f)

FilesDraw(p) == drawn' = drawn + 1 => drawn + 1 \in Claim(pc'[p], req'[p])

ClaimMoves(p) ==
    /\ \A f \in Claim(pc'[p], req'[p]) : f \in files' /\ (f \in Claim(pc[p], req[p]) \/ f = drawn + 1)
    /\ \A f \in Claim(pc[p], req[p]) : \/ murky' \/ f \in Claim(pc'[p], req'[p])
                                       \/ \E r \in rows' : r.file = f

SeenMoves(p) == \A s \in req'[p].seen :
    s \in req[p].seen \/ (s \in rows /\ (s.kind # "upload" \/ s.file \in asked'))

RowsMove(p) ==
    /\ \A r \in rows' : r \in rows \/ (/\ r \in RowSet
                                       /\ r.file \in Claim(pc[p], req[p]) \ Claim(pc'[p], req'[p])
                                       /\ r.file \in files'
                                       /\ r.kind = "upload" \/ uploaded' = uploaded)
    /\ \A r, s \in rows' : r \in rows \/ s \in rows \/ r = s
    /\ \A r \in rows : r \in rows' \/ (r \in req[p].seen /\ r.file \in Dropped(pc[p], req[p]))

DroppedMoves(p) ==
    /\ \A f \in Dropped(pc'[p], req'[p]) : f \in Dropped(pc[p], req[p]) \/ f \notin files'
    /\ \A f \in Dropped(pc[p], req[p]) : \/ f \in Dropped(pc'[p], req'[p]) \cup torn'
                                         \/ \A r \in rows' : r.file # f

UploadsMove(p) ==
    /\ uploaded \subseteq uploaded' /\ asked \subseteq asked' /\ torn \subseteq torn'
    /\ \A f \in uploaded' : f \in uploaded \/ (/\ f \in Claim(pc[p], req[p]) \ Claim(pc'[p], req'[p])
                                               /\ f \in files' /\ \E r \in rows' : r.file = f)
    /\ murky' \in BOOLEAN /\ (murky => murky')

JobMove(p) ==
    /\ Alone(p) /\ Requested' /\ part = "job" /\ UNCHANGED <<part, assets>>
    /\ FilesMove(p) /\ FilesDraw(p) /\ ClaimMoves(p) /\ SeenMoves(p)
    /\ RowsMove(p) /\ DroppedMoves(p) /\ UploadsMove(p)

(* The files of the requests are among those drawn. *)
LEMMA FilesDrawn ==
    ASSUME Sides, Tables, Requested, JobFiles, part = "job"
    PROVE  /\ drawn \in Nat /\ \A f \in files : f \in 1 .. drawn
           /\ \A p \in Procs : \A f \in Claim(pc[p], req[p]) : f \in 1 .. drawn
           /\ \A p \in Procs : \A s \in req[p].seen : s \in RowSet /\ s.file \in 1 .. drawn
           /\ \A r \in rows : r.file \in 1 .. drawn
           /\ \A f \in uploaded : f \in 1 .. drawn
<1>1. drawn \in Nat /\ files \subseteq 1 .. drawn /\ uploaded \subseteq 1 .. drawn
  BY DEF Sides, Tables
<1>2. \A p \in Procs : \A f \in Claim(pc[p], req[p]) : f \in files
  BY DEF JobFiles, ClaimsFresh
<1>3. \A p \in Procs : \A s \in req[p].seen : s \in RowSet /\ s.file \in 1 .. drawn
  BY DEF Requested, Formed, Sighted
<1> QED
  BY <1>1, <1>2, <1>3 DEF Tables

(* A step keeps the files that no row names yet apart.                     *)
LEMMA ClaimsFreshKept ==
    ASSUME Sides, Tables, Requested, JobFiles, NEW p \in Procs, JobMove(p)
    PROVE  ClaimsFresh'
<1> DEFINE Old(q) == Claim(pc[q], req[q])
           New(q) == Claim(pc'[q], req'[q])
<1>0. part = "job" /\ Alone(p)
  BY DEF JobMove
<1>1. \A q \in Procs : q # p => New(q) = Old(q) /\ req'[q].seen = req[q].seen
  BY <1>0 DEF Alone
<1>2. drawn + 1 \notin 1 .. drawn
  BY FilesDrawn, <1>0
<1>3. \A f \in New(p) : f \in files' /\ (f \in Old(p) \/ f = drawn + 1)
  BY DEF JobMove, ClaimMoves
<1>4. \A q \in Procs : \A f \in Old(q) : f \in 1 .. drawn
  BY FilesDrawn, <1>0
<1>5. /\ \A q \in Procs : \A f \in Old(q) : f \in files /\ f \notin uploaded /\ \A r \in rows : r.file # f
      /\ \A q, w \in Procs : \A f \in Old(q) : \A s \in req[w].seen : s.file # f
      /\ \A q, w \in Procs : \A f \in Old(q) : f \in Old(w) => q = w
  BY DEF JobFiles, ClaimsFresh
<1>6. \A s \in req'[p].seen : s \in req[p].seen \/ s \in rows
  BY DEF JobMove, SeenMoves
<1>7. /\ \A r \in rows : r.file \in 1 .. drawn
      /\ \A f \in uploaded : f \in 1 .. drawn
      /\ \A q \in Procs : \A s \in req[q].seen : s.file \in 1 .. drawn
  BY FilesDrawn, <1>0
<1>8. /\ \A r \in rows' : r \in rows \/ r.file \in Old(p) \ New(p)
      /\ \A f \in uploaded' : f \in uploaded \/ f \in Old(p) \ New(p)
  BY DEF JobMove, RowsMove, UploadsMove
<1>9. \A f \in files : f \in files' \/ \E s \in req[p].seen : s.file = f
  BY DEF JobMove, FilesMove
<1> HIDE DEF Old, New
<1>10. ASSUME NEW q \in Procs, NEW f \in New(q)
       PROVE  f \in files' /\ f \notin uploaded' /\ \A r \in rows' : r.file # f
  <2>1. CASE q = p
    <3>1. f \in files' /\ (f \in Old(p) \/ f = drawn + 1)
      BY <2>1, <1>3
    <3>2. f \notin uploaded'
      BY <3>1, <2>1, <1>2, <1>5, <1>7, <1>8
    <3>3. \A r \in rows' : r.file # f
      BY <3>1, <2>1, <1>2, <1>5, <1>7, <1>8
    <3> QED
      BY <3>1, <3>2, <3>3
  <2>2. CASE q # p
    <3>1. f \in Old(q) /\ f \notin Old(p)
      BY <2>2, <1>1, <1>5
    <3> QED
      BY <3>1, <1>5, <1>8, <1>9
  <2> QED
    BY <2>1, <2>2
<1>11. ASSUME NEW q \in Procs, NEW w \in Procs, NEW f \in New(q), NEW s \in req'[w].seen
       PROVE  s.file # f
  <2>1. f \in Old(q) \/ f = drawn + 1
    BY <1>1, <1>3
  <2>2. s \in req[w].seen \/ s \in rows
    BY <1>1, <1>6
  <2> QED
    BY <2>1, <2>2, <1>2, <1>5, <1>7
<1>12. ASSUME NEW q \in Procs, NEW w \in Procs, NEW f \in New(q), f \in New(w)
       PROVE  q = w
  <2>1. CASE f \in Old(q) /\ f \in Old(w)
    BY <2>1, <1>5
  <2>2. CASE f = drawn + 1
    BY <2>2, <1>1, <1>2, <1>4, <1>12
  <2>3. \A v \in Procs : f \in New(v) => f \in Old(v) \/ f = drawn + 1
    BY <1>1, <1>3
  <2> QED
    BY <2>1, <2>2, <2>3, <1>12
<1> QED
  BY <1>10, <1>11, <1>12 DEF ClaimsFresh, New

(* A step that moves files and rows as JobMove says keeps what holds of    *)
(* them.                                                                   *)
LEMMA JobFilesKept ==
    ASSUME Sides, Tables, Requested, JobFiles, NEW p \in Procs, JobMove(p)
    PROVE  JobFiles' /\ Tables' /\ drawn' \in Nat
<1> DEFINE Old(q) == Claim(pc[q], req[q])
           New(q) == Claim(pc'[q], req'[q])
           Out(q) == Dropped(pc[q], req[q])
           Away(q) == Dropped(pc'[q], req'[q])
<1>0. part = "job" /\ Alone(p)
  BY DEF JobMove
<1>1. \A q \in Procs : q # p => New(q) = Old(q) /\ Away(q) = Out(q) /\ req'[q].seen = req[q].seen
  BY <1>0 DEF Alone
<1>2. /\ drawn \in Nat /\ \A f \in files : f \in 1 .. drawn
      /\ \A q \in Procs : \A f \in Old(q) : f \in 1 .. drawn
      /\ \A q \in Procs : \A s \in req[q].seen : s.file \in 1 .. drawn
      /\ \A r \in rows : r.file \in 1 .. drawn
      /\ \A f \in uploaded : f \in 1 .. drawn
  BY FilesDrawn, <1>0
<1>3. /\ drawn' \in Nat /\ drawn + 1 \notin 1 .. drawn /\ 1 .. drawn \subseteq 1 .. drawn'
      /\ \A f \in files' : f \in files \/ (f = drawn + 1 /\ f \in 1 .. drawn')
      /\ \A f \in files : f \in files' \/ (f \in Away(p) /\ \E s \in req[p].seen : s.file = f)
  BY <1>2 DEF JobMove, FilesMove
<1>4. /\ \A q \in Procs : \A f \in Old(q) : f \in files /\ f \notin uploaded /\ \A r \in rows : r.file # f
      /\ \A q, w \in Procs : \A f \in Old(q) : \A s \in req[w].seen : s.file # f
      /\ \A q, w \in Procs : \A f \in Old(q) : f \in Old(w) => q = w
  BY DEF JobFiles, ClaimsFresh
<1>5. \A s \in req'[p].seen : s \in req[p].seen \/ (s \in rows /\ (s.kind # "upload" \/ s.file \in asked'))
  BY DEF JobMove, SeenMoves
<1>6. /\ \A r \in rows' : r \in rows \/ (/\ r \in RowSet /\ r.file \in Old(p) \ New(p)
                                         /\ r.file \in files'
                                         /\ r.kind = "upload" \/ uploaded' = uploaded)
      /\ \A r, s \in rows' : r \in rows \/ s \in rows \/ r = s
      /\ \A r \in rows : r \in rows' \/ (r \in req[p].seen /\ r.file \in Out(p))
  BY DEF JobMove, RowsMove
<1>7. /\ \A f \in Away(p) : f \in Out(p) \/ f \notin files'
      /\ \A f \in Out(p) : f \in Away(p) \/ f \in torn' \/ \A r \in rows' : r.file # f
  BY DEF JobMove, DroppedMoves
<1>8. /\ \A f \in uploaded : f \in uploaded'
      /\ \A f \in asked : f \in asked'
      /\ \A f \in torn : f \in torn'
      /\ \A f \in uploaded' : f \in uploaded \/ (/\ f \in Old(p) \ New(p)
                                                 /\ f \in files' /\ \E r \in rows' : r.file = f)
      /\ murky => murky'
  BY DEF JobMove, UploadsMove
<1>9. /\ \A r, s \in rows : r.file = s.file => r = s
      /\ \A q \in Procs : \A s \in req[q].seen, r \in rows : r.file = s.file => r = s
  BY DEF JobFiles, RowsApart
<1>10. \A q \in Procs : \A f \in Out(q) : f \notin files
  BY DEF JobFiles, DroppedGone
<1>11. \A q \in Procs : \A f \in Out(q) : f \in 1 .. drawn
  <2>1. \A q \in Procs : \A f \in Out(q) : \E s \in req[q].seen : s.file = f
    BY DEF Dropped
  <2> QED
    BY <2>1, <1>2
<1>12. /\ \A r \in rows : r.file \in uploaded => r.kind = "upload"
       /\ \A q \in Procs : \A s \in req[q].seen : s.file \in uploaded => s.file \in asked
  BY DEF JobFiles, UploadsOwn
<1> HIDE DEF Old, New, Out, Away
<1>20. Tables'
  <2>1. files' \subseteq 1 .. drawn'
    BY <1>2, <1>3
  <2>2. rows' \subseteq RowSet /\ \A r \in rows' : r.file \in 1 .. drawn'
    BY <1>2, <1>3, <1>6 DEF Tables
  <2>3. uploaded' \subseteq 1 .. drawn'
    BY <1>2, <1>3, <1>8
  <2> QED
    BY <2>1, <2>2, <2>3 DEF Tables
<1>21. RowsApart'
  <2>1. ASSUME NEW r \in rows', NEW s \in rows', r.file = s.file
        PROVE  r = s
    BY <2>1, <1>4, <1>6, <1>9
  <2>2. ASSUME NEW q \in Procs, NEW s \in req'[q].seen, NEW r \in rows', r.file = s.file
        PROVE  r = s
    <3>1. s \in req[q].seen \/ s \in rows
      BY <1>1, <1>5
    <3> QED
      BY <3>1, <2>2, <1>4, <1>6, <1>9
  <2> QED
    BY <2>1, <2>2 DEF RowsApart
<1>22. DroppedGone'
  <2>1. ASSUME NEW q \in Procs, NEW f \in Away(q)
        PROVE  f \notin files'
    <3>1. f \in Out(q) \/ f \notin files'
      BY <1>1, <1>7
    <3>2. f \in Out(q) => f \notin files'
      BY <1>3, <1>10, <1>11
    <3> QED
      BY <3>1, <3>2
  <2> QED
    BY <2>1 DEF DroppedGone, Away
<1>23. RowsKept'
  <2>1. ASSUME NEW r \in rows'
        PROVE  r.file \in files' \cup torn' \/ \E q \in Procs : r.file \in Away(q)
    <3>1. CASE r \notin rows
      BY <3>1, <1>6
    <3>2. CASE r \in rows /\ r.file \in files
      BY <3>2, <1>3
    <3>3. CASE r \in rows /\ r.file \in torn
      BY <3>3, <1>8
    <3>4. CASE r \in rows /\ \E q \in Procs : r.file \in Out(q)
      <4>1. PICK q \in Procs : r.file \in Out(q)
        BY <3>4
      <4>2. CASE q = p
        BY <4>1, <4>2, <1>7
      <4>3. CASE q # p
        BY <4>1, <4>3, <1>1
      <4> QED
        BY <4>2, <4>3
    <3>5. r \in rows => \/ r.file \in files \/ r.file \in torn
                        \/ \E q \in Procs : r.file \in Out(q)
      BY DEF JobFiles, RowsKept, Out
    <3> QED
      BY <3>1, <3>2, <3>3, <3>4, <3>5
  <2> QED
    BY <2>1 DEF RowsKept, Away
<1>24. UploadsOwn'
  <2>1. ASSUME NEW r \in rows', r.file \in uploaded'
        PROVE  r.kind = "upload"
    <3>1. CASE r \in rows
      BY <2>1, <3>1, <1>4, <1>8, <1>12
    <3>2. CASE r \notin rows
      BY <2>1, <3>2, <1>4, <1>6
    <3> QED
      BY <3>1, <3>2
  <2>2. ASSUME NEW q \in Procs, NEW s \in req'[q].seen, s.file \in uploaded'
        PROVE  s.file \in asked'
    <3>1. CASE s \in req[q].seen
      BY <2>2, <3>1, <1>4, <1>8, <1>12
    <3>2. CASE s \notin req[q].seen
      <4>1. s \in rows /\ (s.kind # "upload" \/ s.file \in asked')
        BY <3>2, <1>1, <1>5
      <4> QED
        BY <2>2, <4>1, <1>4, <1>8, <1>12
    <3> QED
      BY <3>1, <3>2
  <2> QED
    BY <2>1, <2>2 DEF UploadsOwn
<1>25. UploadsKept'
  <2>1. ASSUME NEW f \in uploaded' \ asked'
        PROVE  f \in files' /\ \E r \in rows' : r.file = f
    <3>1. CASE f \notin uploaded
      BY <2>1, <3>1, <1>8
    <3>2. CASE f \in uploaded
      <4>1. f \notin asked
        BY <2>1, <1>8
      <4>2. f \in files /\ \E r \in rows : r.file = f
        BY <3>2, <4>1 DEF JobFiles, UploadsKept
      <4>3. PICK r \in rows : r.file = f
        BY <4>2
      <4>4. \A s \in req[p].seen : s.file # f
        BY <4>1, <3>2, <1>12
      <4>5. f \in files'
        BY <4>2, <4>4, <1>3
      <4>6. r \in rows'
        BY <4>3, <4>4, <1>6
      <4> QED
        BY <4>3, <4>5, <4>6
    <3> QED
      BY <3>1, <3>2
  <2> QED
    BY <2>1 DEF UploadsKept
<1>26. NoneLeft'
  <2> SUFFICES ASSUME ~murky', NEW f \in files'
               PROVE  (\E r \in rows' : r.file = f) \/ \E q \in Procs : f \in New(q)
    BY DEF NoneLeft, New
  <2>1. /\ \A g \in Old(p) : g \in New(p) \/ \E r \in rows' : r.file = g
    BY DEF JobMove, ClaimMoves, Old, New
  <2>2. CASE f \notin files
    <3>1. f = drawn + 1 /\ drawn' = drawn + 1
      BY <2>2 DEF JobMove, FilesMove
    <3>2. drawn' = drawn + 1 => drawn + 1 \in New(p)
      BY DEF JobMove, FilesDraw, New
    <3> QED
      BY <3>1, <3>2
  <2>3. CASE f \in files
    <3>1. \/ \E r \in rows : r.file = f
          \/ \E q \in Procs : f \in Old(q)
      BY <2>3, <1>8 DEF JobFiles, NoneLeft, Old
    <3>2. CASE \E r \in rows : r.file = f
      <4>1. PICK r \in rows : r.file = f
        BY <3>2
      <4>2. r \in rows'
        BY <4>1, <2>3, <1>6, <1>10
      <4> QED
        BY <4>1, <4>2
    <3>3. CASE \E q \in Procs : f \in Old(q)
      <4>1. PICK q \in Procs : f \in Old(q)
        BY <3>3
      <4>2. CASE q = p
        BY <4>1, <4>2, <2>1
      <4>3. CASE q # p
        BY <4>1, <4>3, <1>1
      <4> QED
        BY <4>2, <4>3
    <3> QED
      BY <3>1, <3>2, <3>3
  <2> QED
    BY <2>2, <2>3
<1> QED
  BY <1>3, <1>20, <1>21, <1>22, <1>23, <1>24, <1>25, <1>26, ClaimsFreshKept DEF JobFiles

(* The steps that touch no row and no file in place, but may begin or go   *)
(* on with a request.                                                      *)
LEMMA QuietMove ==
    ASSUME Sides, NEW p \in Procs, Requested', Alone(p), part = "job",
           UNCHANGED <<part, assets, files, drawn, rows, uploaded, torn, murky>>,
           asked \subseteq asked', SeenMoves(p),
           Claim(pc[p], req[p]) = {}, Claim(pc'[p], req'[p]) = {},
           Dropped(pc[p], req[p]) = Dropped(pc'[p], req'[p])
    PROVE  JobMove(p)
<1>0. drawn \in Nat /\ murky \in BOOLEAN
  BY DEF Sides
<1>1. FilesMove(p)
  BY DEF FilesMove
<1>2. FilesDraw(p)
  BY <1>0 DEF FilesDraw
<1>3. ClaimMoves(p)
  BY DEF ClaimMoves
<1>4. RowsMove(p)
  BY DEF RowsMove
<1>5. DroppedMoves(p)
  BY DEF DroppedMoves
<1>6. UploadsMove(p)
  BY <1>0 DEF UploadsMove
<1> QED
  BY <1>1, <1>2, <1>3, <1>4, <1>5, <1>6 DEF JobMove

(* Upload moves files and rows as JobMove says.                            *)
LEMMA UploadMove ==
    ASSUME Sides, Jobs, Tables, Requested, JobFiles, NEW p \in Procs, Upload(p)
    PROVE  JobMove(p)
<1>1. /\ Requested' /\ part = "job" /\ pc[p] = "idle" /\ Alone(p)
      /\ pc'[p] = "upload" /\ req'[p].new = drawn + 1 /\ req'[p].seen = {}
  BY UploadFormed
<1>2. /\ files' = files \cup {drawn + 1} /\ drawn' = drawn + 1
      /\ UNCHANGED <<part, assets, rows, uploaded, asked, torn, murky>>
  BY DEF Upload, Write, jobVars
<1>3. Claim(pc[p], req[p]) = {} /\ Claim(pc'[p], req'[p]) = {drawn + 1}
  BY <1>1 DEF Claim
<1>4. Dropped(pc[p], req[p]) = {} /\ Dropped(pc'[p], req'[p]) = {}
  BY <1>1 DEF Dropped
<1>5. FilesMove(p) /\ FilesDraw(p) /\ ClaimMoves(p)
  BY <1>2, <1>3, <1>4 DEF FilesMove, FilesDraw, ClaimMoves
<1>6. SeenMoves(p) /\ RowsMove(p) /\ DroppedMoves(p)
  BY <1>1, <1>2, <1>4 DEF SeenMoves, RowsMove, DroppedMoves
<1>7. UploadsMove(p)
  BY <1>2 DEF UploadsMove, Sides
<1> QED
  BY <1>1, <1>2, <1>5, <1>6, <1>7 DEF JobMove

(* A new row is one.                                                       *)
LEMMA RowIs ==
    ASSUME NEW f \in Nat, NEW j \in Nat, NEW kind \in Kinds, NEW kit \in Nat
    PROVE  /\ RowOf(f, j, kind, kit) \in RowSet
           /\ RowOf(f, j, kind, kit).file = f /\ RowOf(f, j, kind, kit).kind = kind
           /\ RowOf(f, j, kind, kit).job = j /\ RowOf(f, j, kind, kit).kit = kit
  BY DEF RowOf, RowSet

(* The parts of a request have their types.                                *)
LEMMA ReqFields ==
    ASSUME Requested, NEW p \in Procs
    PROVE  /\ req[p] \in ReqSet /\ req[p].new \in Nat /\ req[p].job \in Nat /\ req[p].kit \in Nat
           /\ req[p].op \in Ops /\ req[p].base \in BOOLEAN /\ req[p].asset \in Nat
           /\ req[p].kind \in Kinds \cup {None}
<1>1. req[p] \in ReqSet
  BY DEF Requested
<1> QED
  BY <1>1 DEF ReqSet

(* UploadDone moves files and rows as JobMove says.                        *)
LEMMA UploadDoneMove ==
    ASSUME Sides, Jobs, Tables, Requested, JobFiles, NEW p \in Procs, UploadDone(p)
    PROVE  JobMove(p)
<1> DEFINE row == RowOf(req[p].new, req[p].job, "upload", 0)
<1>1. /\ pc[p] = "upload" /\ Done(p) /\ rows' = rows \cup {row}
      /\ uploaded' = uploaded \cup {req[p].new}
      /\ UNCHANGED <<part, files, drawn, kitOf, assets, asked, torn, murky>>
  BY DEF UploadDone
<1>2. part = "job"
  BY <1>1, StepOfSide DEF JobSteps
<1>3. Requested' /\ pc'[p] = "idle" /\ req'[p] = NoReq /\ Alone(p)
  BY <1>1, DoneFormed DEF Alone
<1>4. Claim(pc[p], req[p]) = {req[p].new} /\ Claim(pc'[p], req'[p]) = {}
  BY <1>1, <1>3 DEF Claim
<1>5. Dropped(pc[p], req[p]) = {} /\ Dropped(pc'[p], req'[p]) = {}
  BY <1>1, <1>3 DEF Dropped
<1>6. row \in RowSet /\ row.file = req[p].new /\ row.kind = "upload"
  BY RowIs, ReqFields DEF Kinds
<1>7. req[p].new \in files
  BY <1>4 DEF JobFiles, ClaimsFresh
<1> HIDE DEF row
<1>8. FilesMove(p) /\ FilesDraw(p) /\ ClaimMoves(p)
  BY <1>1, <1>4, <1>5, <1>6 DEF FilesMove, FilesDraw, ClaimMoves, Sides
<1>9. SeenMoves(p) /\ DroppedMoves(p)
  BY <1>3, <1>5, NoReqIs DEF SeenMoves, DroppedMoves
<1>10. RowsMove(p)
  BY <1>1, <1>4, <1>6, <1>7 DEF RowsMove
<1>11. UploadsMove(p)
  BY <1>1, <1>4, <1>6, <1>7 DEF UploadsMove, Sides
<1> QED
  BY <1>1, <1>2, <1>3, <1>8, <1>9, <1>10, <1>11 DEF JobMove

(* The deletion of an attachment or a job begins as JobMove says.          *)
LEMMA DeleteMove ==
    ASSUME Sides, Jobs, Tables, Requested, JobFiles, NEW p \in Procs,
           DeleteAttachment(p) \/ DeleteJob(p)
    PROVE  JobMove(p)
<1>1. /\ Requested' /\ Alone(p) /\ part = "job" /\ pc[p] = "idle"
      /\ pc'[p] = "remove" /\ req'[p].seen \subseteq rows
      /\ \A s \in req'[p].seen : s.file \in asked'
      /\ UNCHANGED <<files, drawn, jobVars, torn, murky>> /\ asked \subseteq asked'
  BY DeleteFormed
<1>2. UNCHANGED <<part, assets>> /\ UNCHANGED <<rows, uploaded>>
  BY <1>1 DEF DeleteAttachment, DeleteJob, jobVars
<1>3. Claim(pc[p], req[p]) = {} /\ Claim(pc'[p], req'[p]) = {}
  BY <1>1 DEF Claim
<1>4. Dropped(pc[p], req[p]) = {} /\ Dropped(pc'[p], req'[p]) = {}
  BY <1>1 DEF Dropped
<1>5. SeenMoves(p)
  BY <1>1 DEF SeenMoves
<1> QED
  BY <1>1, <1>2, <1>3, <1>4, <1>5, QuietMove

(* Where Remove takes a request, and what it leaves alone.                 *)
LEMMA RemoveFormed ==
    ASSUME Sides, Jobs, Tables, Requested, NEW p \in Procs, Remove(p)
    PROVE  /\ Requested' /\ Alone(p) /\ part = "job" /\ pc[p] = "remove"
           /\ pc'[p] = (IF req[p].op = "delete" THEN "forget" ELSE "render") /\ req'[p] = req[p]
           /\ files' = files \ {r.file : r \in req[p].seen}
           /\ UNCHANGED <<part, drawn, jobVars, assets, asked, torn, murky>>
<1>1. /\ pc[p] = "remove" /\ Goto(p, IF req[p].op = "delete" THEN "forget" ELSE "render", req[p])
      /\ files' = files \ {r.file : r \in req[p].seen}
      /\ UNCHANGED <<part, drawn, jobVars, assets, asked, torn, murky>>
  BY DEF Remove
<1>2. part = "job" /\ part' = part /\ drawn' = drawn /\ kitOf' = kitOf
  BY <1>1, StepOfSide DEF JobSteps, jobVars
<1>3. req[p].op # "delete" => Writing(pc[p], req[p])
  BY <1>1 DEF Writing
<1>4. CASE req[p].op = "delete"
  BY <1>1, <1>2, <1>4, SameFormed
<1>5. CASE req[p].op # "delete"
  <2>1. Goto(p, "render", req[p])
    BY <1>1, <1>5
  <2>2. Requested' /\ Alone(p) /\ pc'[p] = "render" /\ req'[p] = req[p]
    BY <2>1, <1>1, <1>2, <1>3, <1>5, SameFormed
  <2> QED
    BY <2>2, <1>1, <1>2, <1>5
<1> QED
  BY <1>4, <1>5

(* Remove moves files and rows as JobMove says.                            *)
LEMMA RemoveMove ==
    ASSUME Sides, Jobs, Tables, Requested, JobFiles, NEW p \in Procs, Remove(p)
    PROVE  JobMove(p)
<1>1. /\ Requested' /\ Alone(p) /\ part = "job" /\ pc[p] = "remove"
      /\ pc'[p] \in {"forget", "render"} /\ req'[p] = req[p]
      /\ files' = files \ {r.file : r \in req[p].seen}
      /\ UNCHANGED <<part, drawn, jobVars, assets, asked, torn, murky>>
  BY RemoveFormed
<1>2. UNCHANGED <<rows, uploaded>>
  BY <1>1 DEF jobVars
<1>3. Claim(pc[p], req[p]) = {} /\ Claim(pc'[p], req'[p]) = {}
  BY <1>1 DEF Claim
<1>4. Dropped(pc[p], req[p]) = {} /\ Dropped(pc'[p], req'[p]) = {r.file : r \in req[p].seen}
  BY <1>1 DEF Dropped
<1>5. FilesMove(p) /\ FilesDraw(p) /\ ClaimMoves(p)
  BY <1>1, <1>3, <1>4 DEF FilesMove, FilesDraw, ClaimMoves, Sides
<1>6. SeenMoves(p) /\ RowsMove(p) /\ DroppedMoves(p)
  BY <1>1, <1>2, <1>4 DEF SeenMoves, RowsMove, DroppedMoves
<1>7. UploadsMove(p)
  BY <1>1, <1>2 DEF UploadsMove, Sides
<1> QED
  BY <1>1, <1>2, <1>5, <1>6, <1>7 DEF JobMove

(* The rows a request deletes are those whose files it has removed: no     *)
(* other row names one of them.                                            *)
LEMMA ForgetDoneMove ==
    ASSUME Sides, Jobs, Tables, Requested, JobFiles, NEW p \in Procs, ForgetDone(p)
    PROVE  JobMove(p)
<1>1. /\ pc[p] = "forget" /\ Done(p) /\ rows' = rows \ req[p].seen
      /\ UNCHANGED <<part, files, drawn, kitOf, uploaded, assets, asked, torn, murky>>
  BY DEF ForgetDone, RowsDeleted
<1>2. part = "job"
  BY <1>1, StepOfSide DEF JobSteps
<1>3. Requested' /\ pc'[p] = "idle" /\ req'[p] = NoReq /\ Alone(p)
  BY <1>1, DoneFormed DEF Alone
<1>4. Claim(pc[p], req[p]) = {} /\ Claim(pc'[p], req'[p]) = {}
  BY <1>1, <1>3 DEF Claim
<1>5. Dropped(pc[p], req[p]) = {s.file : s \in req[p].seen} /\ Dropped(pc'[p], req'[p]) = {}
  BY <1>1, <1>3 DEF Dropped
<1>6. \A s \in req[p].seen, r \in rows : r.file = s.file => r = s
  BY DEF JobFiles, RowsApart
<1>7. FilesMove(p) /\ FilesDraw(p) /\ ClaimMoves(p)
  BY <1>1, <1>4, <1>5 DEF FilesMove, FilesDraw, ClaimMoves, Sides
<1>8. SeenMoves(p) /\ DroppedMoves(p)
  BY <1>1, <1>3, <1>5, <1>6, NoReqIs DEF SeenMoves, DroppedMoves
<1>9. RowsMove(p)
  BY <1>1, <1>5 DEF RowsMove
<1>10. UploadsMove(p)
  BY <1>1 DEF UploadsMove, Sides
<1> QED
  BY <1>1, <1>2, <1>3, <1>7, <1>8, <1>9, <1>10 DEF JobMove

(* Compose moves files and rows as JobMove says.                           *)
LEMMA ComposeMove ==
    ASSUME Sides, Jobs, Tables, Requested, JobFiles, NEW p \in Procs, Compose(p)
    PROVE  JobMove(p)
<1>1. /\ Requested' /\ Alone(p) /\ part = "job" /\ pc[p] = "idle"
      /\ pc'[p] = "text" /\ req'[p].seen = {}
      /\ UNCHANGED <<part, files, drawn, jobs, postings, rows, uploaded, recycled, assets,
                     asked, torn, murky>>
  BY ComposeFormed
<1>2. Claim(pc[p], req[p]) = {} /\ Claim(pc'[p], req'[p]) = {}
  BY <1>1 DEF Claim
<1>3. Dropped(pc[p], req[p]) = {} /\ Dropped(pc'[p], req'[p]) = {}
  BY <1>1 DEF Dropped
<1>4. SeenMoves(p)
  BY <1>1 DEF SeenMoves
<1> QED
  BY <1>1, <1>2, <1>3, <1>4, QuietMove

(* ReadEarlier moves files and rows as JobMove says.                       *)
LEMMA ReadEarlierMove ==
    ASSUME Sides, Jobs, Tables, Requested, JobFiles, NEW p \in Procs, ReadEarlier(p)
    PROVE  JobMove(p)
<1>1. /\ Requested' /\ Alone(p) /\ part = "job" /\ pc[p] \in {"docx", "pdf"}
      /\ UNCHANGED <<part, files, drawn, jobVars, assets, asked, torn, murky>>
      /\ \/ pc'[p] = "remove" /\ req'[p].seen = Earlier(p)
         \/ pc'[p] = "idle" /\ req'[p] = NoReq
  BY ReadEarlierFormed
<1>2. Claim(pc[p], req[p]) = {} /\ Claim(pc'[p], req'[p]) = {}
  BY <1>1 DEF Claim
<1>3. Dropped(pc[p], req[p]) = {} /\ Dropped(pc'[p], req'[p]) = {}
  BY <1>1 DEF Dropped
<1>4. SeenMoves(p)
  <2>1. \A s \in Earlier(p) : s \in rows /\ s.kind # "upload"
    BY <1>1 DEF Earlier
  <2> QED
    BY <2>1, <1>1, NoReqIs DEF SeenMoves
<1>5. UNCHANGED <<rows, uploaded>>
  BY <1>1 DEF jobVars
<1> QED
  BY <1>1, <1>2, <1>3, <1>4, <1>5, QuietMove

(* A step of a kit's writer that leaves all it holds alone, or its end     *)
(* before it holds anything.                                               *)
LEMMA KitTextFormed ==
    ASSUME Sides, Jobs, Requested, NEW p \in Procs, KitText(p)
    PROVE  /\ Requested' /\ Alone(p) /\ part = "job" /\ pc[p] = "text"
           /\ \/ /\ req[p].job \in Live /\ pc'[p] \in {"docx", "pdf"} /\ req'[p] = req[p]
                 /\ jobs' = [jobs EXCEPT ![req[p].job].kit = req[p].kit]
              \/ req[p].job \notin Live /\ pc'[p] = "idle" /\ req'[p] = NoReq /\ jobs' = jobs
           /\ UNCHANGED <<part, files, drawn, postings, rows, kitOf, uploaded, recycled, mixed, assets,
                          asked, torn, murky>>
<1>1. /\ pc[p] = "text"
      /\ UNCHANGED <<part, files, drawn, postings, rows, kitOf, uploaded, recycled, mixed, assets,
                     asked, torn, murky>>
  BY DEF KitText
<1>2. part = "job"
  BY <1>1, StepOfSide DEF JobSteps
<1>3. Writing(pc[p], req[p])
  BY <1>1 DEF Writing
<1>4. CASE req[p].job \in Live
  <2>1. /\ jobs' = [jobs EXCEPT ![req[p].job].kit = req[p].kit]
        /\ Goto(p, IF req[p].op = "build" THEN "docx" ELSE "pdf", req[p])
    BY <1>4 DEF KitText
  <2>2. PICK step \in {"docx", "pdf"} : Goto(p, step, req[p])
    BY <2>1
  <2>3. Requested' /\ Alone(p) /\ pc'[p] = step /\ req'[p] = req[p]
    <3>1. /\ step \in {"forget", "render", "docx", "pdf"} /\ step # "forget" /\ step # "render"
      OBVIOUS
    <3> QED
      BY <3>1, <2>2, <1>1, <1>2, <1>3, SameFormed
  <2> QED
    BY <2>1, <2>3, <1>1, <1>2, <1>4
<1>5. CASE req[p].job \notin Live
  <2>1. jobs' = jobs /\ Done(p)
    BY <1>5 DEF KitText
  <2>2. Requested' /\ pc'[p] = "idle" /\ req'[p] = NoReq /\ Alone(p)
    BY <2>1, <1>1, DoneFormed DEF Alone
  <2> QED
    BY <2>1, <2>2, <1>1, <1>2, <1>5
<1> QED
  BY <1>4, <1>5

(* KitText moves files and rows as JobMove says.                           *)
LEMMA KitTextMove ==
    ASSUME Sides, Jobs, Tables, Requested, JobFiles, NEW p \in Procs, KitText(p)
    PROVE  JobMove(p)
<1>1. /\ Requested' /\ Alone(p) /\ part = "job" /\ pc[p] = "text"
      /\ \/ pc'[p] \in {"docx", "pdf"} /\ req'[p] = req[p]
         \/ pc'[p] = "idle" /\ req'[p] = NoReq
      /\ UNCHANGED <<part, files, drawn, postings, rows, kitOf, uploaded, recycled, mixed, assets,
                     asked, torn, murky>>
  BY KitTextFormed
<1>2. Claim(pc[p], req[p]) = {} /\ Claim(pc'[p], req'[p]) = {}
  BY <1>1 DEF Claim
<1>3. Dropped(pc[p], req[p]) = {} /\ Dropped(pc'[p], req'[p]) = {}
  BY <1>1 DEF Dropped
<1>4. SeenMoves(p)
  BY <1>1, NoReqIs DEF SeenMoves
<1> QED
  BY <1>1, <1>2, <1>3, <1>4, QuietMove

(* Where Unrendered takes a request, and what it leaves alone.             *)
LEMMA UnrenderedFormed ==
    ASSUME Sides, Requested, NEW p \in Procs, Unrendered(p)
    PROVE  /\ Requested' /\ Alone(p) /\ part = "job" /\ pc[p] \in {"docx", "pdf"}
           /\ \/ pc'[p] = "pdf" /\ req'[p] = req[p]
              \/ pc'[p] = "idle" /\ req'[p] = NoReq
           /\ mixed' = mixed \cup {req[p].job}
           /\ UNCHANGED <<part, files, drawn, jobs, postings, rows, kitOf, uploaded, recycled, assets,
                          asked, torn, murky>>
<1>1. /\ pc[p] \in {"docx", "pdf"} /\ mixed' = mixed \cup {req[p].job}
      /\ UNCHANGED <<part, files, drawn, jobs, postings, rows, kitOf, uploaded, recycled, assets,
                     asked, torn, murky>>
  BY DEF Unrendered
<1>2. part = "job"
  BY <1>1, StepOfSide DEF JobSteps
<1>3. Writing(pc[p], req[p])
  BY <1>1 DEF Writing
<1>4. CASE pc[p] = "docx"
  <2>1. Goto(p, "pdf", req[p])
    BY <1>4 DEF Unrendered
  <2>2. Requested' /\ Alone(p) /\ pc'[p] = "pdf" /\ req'[p] = req[p]
    BY <2>1, <1>1, <1>2, <1>3, SameFormed
  <2> QED
    BY <2>2, <1>1, <1>2
<1>5. CASE pc[p] # "docx"
  <2>1. Done(p)
    BY <1>5 DEF Unrendered
  <2>2. Requested' /\ pc'[p] = "idle" /\ req'[p] = NoReq /\ Alone(p)
    BY <2>1, <1>1, DoneFormed DEF Alone
  <2> QED
    BY <2>2, <1>1, <1>2
<1> QED
  BY <1>4, <1>5

(* Unrendered moves files and rows as JobMove says.                        *)
LEMMA UnrenderedMove ==
    ASSUME Sides, Jobs, Tables, Requested, JobFiles, NEW p \in Procs, Unrendered(p)
    PROVE  JobMove(p)
<1>1. /\ Requested' /\ Alone(p) /\ part = "job" /\ pc[p] \in {"docx", "pdf"}
      /\ \/ pc'[p] = "pdf" /\ req'[p] = req[p]
         \/ pc'[p] = "idle" /\ req'[p] = NoReq
      /\ UNCHANGED <<part, files, drawn, jobs, postings, rows, kitOf, uploaded, recycled, assets,
                     asked, torn, murky>>
  BY UnrenderedFormed
<1>2. Claim(pc[p], req[p]) = {} /\ Claim(pc'[p], req'[p]) = {}
  BY <1>1 DEF Claim
<1>3. Dropped(pc[p], req[p]) = {} /\ Dropped(pc'[p], req'[p]) = {}
  BY <1>1 DEF Dropped
<1>4. SeenMoves(p)
  BY <1>1, NoReqIs DEF SeenMoves
<1> QED
  BY <1>1, <1>2, <1>3, <1>4, QuietMove

(* Render moves files and rows as JobMove says.                            *)
LEMMA RenderMove ==
    ASSUME Sides, Jobs, Tables, Requested, JobFiles, NEW p \in Procs, Render(p)
    PROVE  JobMove(p)
<1>1. /\ Requested' /\ Alone(p) /\ part = "job" /\ pc[p] = "render" /\ pc'[p] = "attach"
      /\ req'[p].new = drawn + 1 /\ req'[p].seen = req[p].seen
      /\ drawn' = drawn + 1 /\ files' = files \cup {drawn + 1}
      /\ UNCHANGED <<part, jobVars, assets, asked, torn, murky>>
  BY RenderFormed
<1>2. UNCHANGED <<rows, uploaded>>
  BY <1>1 DEF jobVars
<1>3. Claim(pc[p], req[p]) = {} /\ Claim(pc'[p], req'[p]) = {drawn + 1}
  BY <1>1 DEF Claim
<1>4. Dropped(pc'[p], req'[p]) = Dropped(pc[p], req[p])
  BY <1>1 DEF Dropped
<1>5. FilesMove(p) /\ FilesDraw(p) /\ ClaimMoves(p)
  BY <1>1, <1>3 DEF FilesMove, FilesDraw, ClaimMoves
<1>6. SeenMoves(p) /\ RowsMove(p) /\ DroppedMoves(p)
  BY <1>1, <1>2, <1>4 DEF SeenMoves, RowsMove, DroppedMoves
<1>7. UploadsMove(p)
  BY <1>1, <1>2 DEF UploadsMove, Sides
<1> QED
  BY <1>1, <1>2, <1>5, <1>6, <1>7 DEF JobMove

(* Where AttachDone takes a request, and what it leaves alone.             *)
LEMMA AttachDoneFormed ==
    ASSUME Sides, Jobs, Tables, Requested, NEW p \in Procs, AttachDone(p)
    PROVE  /\ Requested' /\ Alone(p) /\ part = "job" /\ pc[p] = "attach"
           /\ \/ /\ pc'[p] = "pdf" /\ req'[p].seen = {} /\ req[p].kind = "docx"
                 /\ req'[p].job = req[p].job /\ req'[p].op = req[p].op /\ req'[p].kit = req[p].kit
              \/ pc'[p] = "idle" /\ req'[p] = NoReq
           /\ UNCHANGED <<part, files, drawn, jobs, postings, kitOf, uploaded, recycled, mixed, assets,
                          asked, torn, murky>>
<1>1. /\ pc[p] = "attach"
      /\ UNCHANGED <<part, files, drawn, jobs, postings, kitOf, uploaded, recycled, mixed, assets,
                     asked, torn, murky>>
  BY DEF AttachDone
<1>2. part = "job"
  BY <1>1, StepOfSide DEF JobSteps
<1>3. CASE req[p].kind = "docx"
  <2>1. Goto(p, "pdf", [req[p] EXCEPT !.seen = {}, !.new = 0, !.kind = None])
    BY <1>3 DEF AttachDone
  <2>2. /\ Requested' /\ Alone(p) /\ pc'[p] = "pdf" /\ req'[p].seen = {}
        /\ req'[p].job = req[p].job /\ req'[p].op = req[p].op /\ req'[p].kit = req[p].kit
    BY <2>1, <1>1, <1>2, NextDocument
  <2> QED
    BY <2>2, <1>1, <1>2, <1>3
<1>4. CASE req[p].kind # "docx"
  <2>1. Done(p)
    BY <1>4 DEF AttachDone
  <2>2. Requested' /\ pc'[p] = "idle" /\ req'[p] = NoReq /\ Alone(p)
    BY <2>1, <1>1, DoneFormed DEF Alone
  <2> QED
    BY <2>2, <1>1, <1>2
<1> QED
  BY <1>3, <1>4

(* AttachDone moves files and rows as JobMove says.                        *)
LEMMA AttachDoneMove ==
    ASSUME Sides, Jobs, Tables, Requested, JobFiles, NEW p \in Procs, AttachDone(p)
    PROVE  JobMove(p)
<1> DEFINE row == RowOf(req[p].new, req[p].job, req[p].kind, req[p].kit)
<1>1. /\ Requested' /\ Alone(p) /\ part = "job" /\ pc[p] = "attach"
      /\ pc'[p] \in {"pdf", "idle"} /\ req'[p].seen = {}
      /\ UNCHANGED <<part, files, drawn, uploaded, assets, asked, torn, murky>>
  BY AttachDoneFormed, NoReqIs
<1>2. rows' = (rows \ req[p].seen) \cup {row}
  BY DEF AttachDone, Replaced
<1>3. Claim(pc[p], req[p]) = {req[p].new} /\ Claim(pc'[p], req'[p]) = {}
  BY <1>1 DEF Claim
<1>4. Dropped(pc[p], req[p]) = {s.file : s \in req[p].seen} /\ Dropped(pc'[p], req'[p]) = {}
  BY <1>1 DEF Dropped
<1>5. req[p].kind \in Kinds
  <2>1. JobReq(pc[p], req[p], DOMAIN kitOf)
    BY DEF Requested, Formed
  <2> QED
    BY <2>1, <1>1 DEF JobReq, Writing, Kinds
<1>6. row \in RowSet /\ row.file = req[p].new
  BY <1>5, RowIs, ReqFields
<1>7. \A s \in req[p].seen, r \in rows : r.file = s.file => r = s
  BY DEF JobFiles, RowsApart
<1>8. req[p].new \in files /\ \A s \in req[p].seen : s.file # req[p].new
  BY <1>3 DEF JobFiles, ClaimsFresh
<1> HIDE DEF row
<1>9. FilesMove(p) /\ FilesDraw(p)
  BY <1>1 DEF FilesMove, FilesDraw, Sides
<1>10. ClaimMoves(p)
  BY <1>2, <1>3, <1>6 DEF ClaimMoves
<1>11. SeenMoves(p) /\ DroppedMoves(p)
  BY <1>1, <1>2, <1>4, <1>6, <1>7, <1>8 DEF SeenMoves, DroppedMoves
<1>12. RowsMove(p)
  BY <1>1, <1>2, <1>3, <1>4, <1>6, <1>8 DEF RowsMove
<1>13. UploadsMove(p)
  BY <1>1 DEF UploadsMove, Sides
<1> QED
  BY <1>1, <1>9, <1>10, <1>11, <1>12, <1>13 DEF JobMove

(* Where a request that is aborted, or whose commit is lost, goes on the   *)
(* job side.                                                               *)
LEMMA FaultFormed ==
    ASSUME Sides, Requested, NEW p \in Procs, part = "job", Abort(p) \/ CommitsNothing(p)
    PROVE  /\ Requested' /\ Alone(p)
           /\ \/ pc'[p] = "idle" /\ req'[p] = NoReq
              \/ pc[p] = "text" /\ pc'[p] \in {"docx", "pdf"} /\ req'[p] = req[p]
              \/ /\ pc[p] = "attach" /\ pc'[p] = "pdf" /\ req'[p].seen = {}
                 /\ req'[p].job = req[p].job /\ req'[p].op = req[p].op /\ req'[p].kit = req[p].kit
           /\ torn' = torn \cup Dropped(pc[p], req[p]) /\ murky'
           /\ mixed' = mixed \cup ({req[p].job} \ {0})
           /\ UNCHANGED <<part, files, drawn, jobs, postings, rows, kitOf, uploaded, recycled, assets,
                          asked>>
<1>1. Faulty(p)
  BY DEF Abort, CommitsNothing
<1>2. Removed(p) = Dropped(pc[p], req[p])
  <2>1. pc[p] # "unasset"
    BY StepOfSide DEF ResumeSteps, Sides
  <2>2. UNION {{r.file} \cup (IF part = "resume" THEN {r.source} ELSE {}) : r \in req[p].seen}
        = {s.file : s \in req[p].seen}
    OBVIOUS
  <2> QED
    BY <2>1, <2>2 DEF Removed, Dropped
<1>3. /\ torn' = torn \cup Dropped(pc[p], req[p]) /\ murky'
      /\ mixed' = mixed \cup ({req[p].job} \ {0})
      /\ UNCHANGED <<part, files, drawn, jobs, postings, rows, kitOf, uploaded, recycled, assets, asked>>
  BY <1>1, <1>2 DEF Faulty
<1>4. CASE Done(p)
  <2>1. Requested' /\ pc'[p] = "idle" /\ req'[p] = NoReq /\ Alone(p)
    BY <1>3, <1>4, DoneFormed DEF Alone
  <2> QED
    BY <2>1, <1>3
<1>5. ASSUME pc[p] = "text", NEW step \in {"docx", "pdf"}, Goto(p, step, req[p])
      PROVE  Requested' /\ Alone(p) /\ pc'[p] = step /\ req'[p] = req[p]
  <2>1. /\ step \in {"forget", "render", "docx", "pdf"} /\ step # "forget" /\ step # "render"
    OBVIOUS
  <2>2. Writing(pc[p], req[p])
    BY <1>5 DEF Writing
  <2> QED
    BY <2>1, <2>2, <1>3, <1>5, SameFormed
<1>6. ASSUME pc[p] = "attach", Goto(p, "pdf", [req[p] EXCEPT !.seen = {}, !.new = 0, !.kind = None])
      PROVE  /\ Requested' /\ Alone(p) /\ pc'[p] = "pdf" /\ req'[p].seen = {}
             /\ req'[p].job = req[p].job /\ req'[p].op = req[p].op /\ req'[p].kit = req[p].kit
  BY <1>3, <1>6, NextDocument
<1>7. \/ Done(p)
      \/ pc[p] = "text" /\ \E step \in {"docx", "pdf"} : Goto(p, step, req[p])
      \/ pc[p] = "attach" /\ Goto(p, "pdf", [req[p] EXCEPT !.seen = {}, !.new = 0, !.kind = None])
  <2>1. pc[p] # "unasset"
    BY StepOfSide DEF ResumeSteps, Sides
  <2>2. CASE Abort(p)
    BY <2>2 DEF Abort
  <2>3. CASE CommitsNothing(p) /\ pc[p] = "text"
    <3>1. Goto(p, IF req[p].op = "build" THEN "docx" ELSE "pdf", req[p])
      BY <2>3 DEF CommitsNothing
    <3> QED
      BY <3>1, <2>3
  <2>4. CASE CommitsNothing(p) /\ pc[p] = "attach" /\ req[p].kind = "docx"
    <3>1. Goto(p, "pdf", [req[p] EXCEPT !.seen = {}, !.new = 0, !.kind = None])
      BY <2>4 DEF CommitsNothing
    <3> QED
      BY <3>1, <2>4
  <2>5. CASE CommitsNothing(p) /\ pc[p] # "text" /\ ~(pc[p] = "attach" /\ req[p].kind = "docx")
    BY <2>1, <2>5 DEF CommitsNothing
  <2> QED
    BY <2>2, <2>3, <2>4, <2>5
<1> QED
  BY <1>3, <1>4, <1>5, <1>6, <1>7

(* A request that is aborted, or whose commit is lost, moves files and     *)
(* rows as JobMove says.                                                   *)
LEMMA FaultMove ==
    ASSUME Sides, Jobs, Tables, Requested, JobFiles, NEW p \in Procs, part = "job",
           Abort(p) \/ CommitsNothing(p)
    PROVE  JobMove(p)
<1>1. /\ Requested' /\ Alone(p) /\ pc'[p] \in {"idle", "docx", "pdf"}
      /\ \A s \in req'[p].seen : s \in req[p].seen
      /\ torn' = torn \cup Dropped(pc[p], req[p]) /\ murky'
      /\ UNCHANGED <<part, files, drawn, rows, uploaded, assets, asked>>
  BY FaultFormed, NoReqIs
<1>2. Claim(pc'[p], req'[p]) = {} /\ Dropped(pc'[p], req'[p]) = {}
  BY <1>1 DEF Claim, Dropped
<1>3. FilesMove(p) /\ FilesDraw(p)
  BY <1>1 DEF FilesMove, FilesDraw, Sides
<1>4. ClaimMoves(p)
  BY <1>1, <1>2 DEF ClaimMoves
<1>5. SeenMoves(p) /\ DroppedMoves(p)
  BY <1>1, <1>2 DEF SeenMoves, DroppedMoves
<1>6. RowsMove(p)
  BY <1>1 DEF RowsMove
<1>7. UploadsMove(p)
  <2>1. \E q \in {p} : Faulty(q)
    BY DEF Abort, CommitsNothing
  <2>2. murky' = TRUE
    BY <2>1 DEF Faulty
  <2> QED
    BY <1>1, <2>2 DEF UploadsMove
<1> QED
  BY <1>1, <1>3, <1>4, <1>5, <1>6, <1>7 DEF JobMove

(* Every step of the job side is such a move.                              *)
LEMMA JobMoves ==
    ASSUME Sides, Jobs, Tables, Requested, JobFiles, NEW p \in Procs,
           JobStep(p) \/ (part = "job" /\ (Abort(p) \/ CommitsNothing(p)))
    PROVE  JobMove(p)
<1>1. Upload(p) \/ UploadDone(p) => JobMove(p)
  BY UploadMove, UploadDoneMove
<1>2. DeleteAttachment(p) \/ DeleteJob(p) => JobMove(p)
  BY DeleteMove
<1>3. Remove(p) \/ ForgetDone(p) => JobMove(p)
  BY RemoveMove, ForgetDoneMove
<1>4. Compose(p) \/ KitText(p) => JobMove(p)
  BY ComposeMove, KitTextMove
<1>5. ReadEarlier(p) \/ Unrendered(p) => JobMove(p)
  BY ReadEarlierMove, UnrenderedMove
<1>6. Render(p) \/ AttachDone(p) => JobMove(p)
  BY RenderMove, AttachDoneMove
<1>7. part = "job" /\ (Abort(p) \/ CommitsNothing(p)) => JobMove(p)
  BY FaultMove
<1> QED
  BY <1>1, <1>2, <1>3, <1>4, <1>5, <1>6, <1>7 DEF JobStep

(***************************************************************************)
(* Postings, their ids, and kits                                           *)
(***************************************************************************)
LEMMA JobsSame ==
    ASSUME Jobs, UNCHANGED <<jobs, postings, kitOf>>
    PROVE  Jobs' /\ Live' = Live
  BY DEF Jobs, Live, Kits

(* The highest id of a live job, from which the next is computed.          *)
LEMMA HighestLive ==
    ASSUME Sides, Jobs
    PROVE  /\ Highest(Live) \in 0 .. postings /\ Highest(Live) \in {0} \cup Live
           /\ \A j \in Live : j \in Nat \ {0} /\ j <= Highest(Live)
<1>1. postings \in Nat /\ Live \subseteq 0 .. postings
  BY DEF Sides, Jobs
<1>2. /\ Highest(Live) \in 0 .. postings /\ Highest(Live) \in {0} \cup Live
      /\ \A j \in Live : j <= Highest(Live)
  BY <1>1, HighestIs
<1>3. \A j \in Live : j \in Nat \ {0}
  BY <1>1 DEF Jobs
<1> QED
  BY <1>2, <1>3

(* A job that is tracked gets the next id, and the others stay.            *)
LEMMA TrackJobs ==
    ASSUME Sides, Jobs, Track
    PROVE  /\ Jobs' /\ Live' = Live \cup {NewId} /\ NewId = Highest(Live) + 1
           /\ \A j \in Live : jobs'[j] = jobs[j]
           /\ jobs'[NewId].kit = 0
<1>1. /\ postings' = postings + 1 /\ kitOf' = kitOf
      /\ jobs' = [j \in Live \cup {NewId} |-> IF j \in Live THEN jobs[j]
                                              ELSE [posting |-> postings + 1, kit |-> 0]]
  BY DEF Track
<1>2. NewId = Highest(Live) + 1
  BY DEF NewId
<1>3. Highest(Live) \in 0 .. postings /\ postings \in Nat /\ \A j \in Live : j <= Highest(Live)
  BY HighestLive DEF Sides
<1>4. NewId \notin Live /\ NewId \in 1 .. postings'
  BY <1>1, <1>2, <1>3
<1>5. Live' = Live \cup {NewId}
  BY <1>1 DEF Live
<1>6. Live' \subseteq 1 .. postings'
  BY <1>1, <1>3, <1>4, <1>5 DEF Jobs
<1> DEFINE New == [posting |-> postings + 1, kit |-> 0]
<1>7. New \in [posting : Nat, kit : Nat] /\ New.posting = postings + 1 /\ New.kit = 0
  BY <1>3
<1>8. jobs' = [j \in Live' |-> IF j \in Live THEN jobs[j] ELSE New]
  BY <1>1, <1>5
<1>9. /\ \A j \in Live : jobs[j] \in [posting : Nat, kit : Nat]
      /\ \A j \in Live : jobs[j].posting \in 1 .. postings /\ jobs[j].kit \in {0} \cup DOMAIN kitOf
      /\ Kits \in Nat /\ DOMAIN kitOf = 1 .. Kits
  BY DEF Jobs
<1> HIDE DEF New
<1>10. jobs' \in [Live' -> [posting : Nat, kit : Nat]]
  BY <1>7, <1>8, <1>9
<1>11. /\ \A j \in Live' : j \in Live => jobs'[j] = jobs[j]
       /\ \A j \in Live' : j \notin Live => jobs'[j] = New
  BY <1>8
<1>12. \A j \in Live' : jobs'[j].posting \in 1 .. postings' /\ jobs'[j].kit \in {0} \cup DOMAIN kitOf'
  <2>1. ASSUME NEW j \in Live'
        PROVE  jobs'[j].posting \in 1 .. postings' /\ jobs'[j].kit \in {0} \cup DOMAIN kitOf'
    <3>1. CASE j \in Live
      <4>1. jobs'[j] = jobs[j]
        BY <3>1, <1>11
      <4>2. jobs[j].posting \in 1 .. postings /\ jobs[j].kit \in {0} \cup DOMAIN kitOf
        BY <3>1, <1>9
      <4> QED
        BY <4>1, <4>2, <1>1, <1>3
    <3>2. CASE j \notin Live
      <4>1. jobs'[j] = New
        BY <3>2, <1>11
      <4> QED
        BY <4>1, <1>1, <1>3, <1>7
    <3> QED
      BY <3>1, <3>2
  <2> QED
    BY <2>1
<1>13. Kits' \in Nat /\ DOMAIN kitOf' = 1 .. Kits'
  BY <1>1, <1>9 DEF Kits
<1>14. Jobs'
  BY <1>6, <1>10, <1>12, <1>13 DEF Jobs
<1> QED
  BY <1>2, <1>4, <1>5, <1>7, <1>11, <1>14

(* Ids up to the highest are not given again, unless they were past it     *)
(* once.                                                                   *)
Past == recycled \cup 1 .. Highest(Live)
Holds(step, r) == step = "upload" \/ Writing(step, r)
Placed ==
    /\ \A r \in rows : r.job \in Past
    /\ \A p \in Procs : Holds(pc[p], req[p]) => req[p].job \in Past

PastText(step, r) == step # "text" /\ Writing(step, r)
Replacing == {"remove", "render", "attach"}
Settled == Live \ (mixed \cup recycled)

TextsRight == \A p \in Procs : pc[p] = "text" /\ req[p].job \in Live \ recycled =>
    kitOf[req[p].kit] = jobs[req[p].job].posting

LoneWriter == \A p, q \in Procs :
    Writing(pc[p], req[p]) /\ Writing(pc[q], req[q]) /\ req[p].job = req[q].job =>
    p = q \/ req[p].job \in mixed

OneDocument == \A j \in Settled : \A r, s \in rows :
    r.job = j /\ s.job = j /\ r.kind # "upload" /\ r.kind = s.kind => r = s

ShownKit == \A j \in Settled : \A r \in rows : r.job = j /\ r.kind = "pdf" =>
    \/ r.kit = jobs[j].kit
    \/ \E p \in Procs : PastText(pc[p], req[p]) /\ req[p].job = j

WritersRight == \A p \in Procs : PastText(pc[p], req[p]) /\ req[p].job \in Settled =>
    /\ req[p].kit = jobs[req[p].job].kit
    /\ pc[p] \in Replacing => \A r \in rows : r.job = req[p].job /\ r.kind = req[p].kind => r \in req[p].seen

KitsKept == /\ Placed /\ KitOfItsPosting /\ TextsRight /\ LoneWriter
            /\ OneDocument /\ ShownKit /\ WritersRight

(* What most steps do to them: no kit changes, no document is added, and a *)
(* writer that ends or skips one leaves its job mixed.                     *)
KitsMove(p) ==
    /\ Alone(p) /\ kitOf' = kitOf
    /\ Live' \subseteq Live /\ \A j \in Live' : jobs'[j] = jobs[j]
    /\ Past \subseteq Past' /\ mixed \subseteq mixed' /\ recycled \subseteq recycled'
    /\ \A r \in rows' : r \in rows \/ (r.kind = "upload" /\ pc[p] = "upload" /\ r.job = req[p].job)

WriterMoves(p) ==
    /\ pc'[p] = "upload" => (pc[p] = "upload" /\ req'[p].job = req[p].job) \/ req'[p].job \in Live
    /\ Writing(pc'[p], req'[p]) => /\ pc'[p] # "text" /\ Writing(pc[p], req[p])
                                   /\ req'[p].job = req[p].job
    /\ PastText(pc[p], req[p]) => \/ PastText(pc'[p], req'[p]) /\ req'[p].job = req[p].job
                                  \/ req[p].job \notin Settled'
    /\ PastText(pc'[p], req'[p]) /\ req'[p].job \in Settled' =>
          /\ pc[p] # "text" /\ req'[p].kit = req[p].kit
          /\ pc'[p] \in Replacing => \A r \in rows : r.job = req'[p].job /\ r.kind = req'[p].kind =>
                                         r \in req'[p].seen

(* A step that moves the kits as KitsMove says keeps what holds of them.   *)
LEMMA KitsMoved ==
    ASSUME Sides, Jobs, Jobs', Tables, Requested, Requested', KitsKept, NEW p \in Procs,
           KitsMove(p), WriterMoves(p)
    PROVE  KitsKept'
<1>1. /\ \A q \in Procs : q # p => pc'[q] = pc[q] /\ req'[q] = req[q]
      /\ kitOf' = kitOf /\ \A j \in Live' : j \in Live /\ jobs'[j] = jobs[j]
      /\ \A j \in mixed : j \in mixed'
      /\ \A j \in recycled : j \in recycled'
      /\ \A j \in Past : j \in Past'
      /\ \A r \in rows' : r \in rows \/ (r.kind = "upload" /\ pc[p] = "upload" /\ r.job = req[p].job)
  BY DEF KitsMove, Alone
<1>2. \A j \in Settled' : j \in Settled /\ j \in Live'
  BY <1>1 DEF Settled
<1>3. Live \subseteq Past
  <2>1. \A j \in Live : j \in Nat \ {0} /\ j <= Highest(Live)
    BY HighestLive
  <2>2. Highest(Live) \in Nat
    BY HighestLive DEF Sides
  <2> QED
    BY <2>1, <2>2 DEF Past
<1>4. Placed'
  <2>1. /\ \A r \in rows : r.job \in Past
        /\ \A q \in Procs : Holds(pc[q], req[q]) => req[q].job \in Past
    BY DEF KitsKept, Placed
  <2>2. ASSUME NEW r \in rows' PROVE r.job \in Past'
    <3>1. pc[p] = "upload" => req[p].job \in Past
      BY <2>1 DEF Holds
    <3> QED
      BY <3>1, <2>1, <1>1
  <2>3. ASSUME NEW q \in Procs, Holds(pc'[q], req'[q]) PROVE req'[q].job \in Past'
    <3>1. CASE q # p
      BY <3>1, <2>1, <2>3, <1>1
    <3>2. CASE q = p
      <4>1. pc'[p] = "upload" => req'[p].job \in Past
        BY <2>1, <1>3 DEF WriterMoves, Holds
      <4>2. Writing(pc'[p], req'[p]) => req'[p].job \in Past
        BY <2>1 DEF WriterMoves, Holds
      <4> QED
        BY <4>1, <4>2, <3>2, <2>3, <1>1 DEF Holds
    <3> QED
      BY <3>1, <3>2
  <2> QED
    BY <2>2, <2>3 DEF Placed
<1>5. KitOfItsPosting'
  BY <1>1 DEF KitsKept, KitOfItsPosting
<1>6. TextsRight'
  <2>1. pc'[p] # "text"
    BY DEF WriterMoves, Writing
  <2> QED
    BY <2>1, <1>1 DEF KitsKept, TextsRight
<1>7. LoneWriter'
  <2>1. \A q \in Procs : Writing(pc'[q], req'[q]) => Writing(pc[q], req[q]) /\ req'[q].job = req[q].job
    BY <1>1 DEF WriterMoves
  <2>2. \A q, w \in Procs : Writing(pc[q], req[q]) /\ Writing(pc[w], req[w]) /\ req[q].job = req[w].job =>
            q = w \/ req[q].job \in mixed
    BY DEF KitsKept, LoneWriter
  <2> QED
    BY <2>1, <2>2, <1>1 DEF LoneWriter
<1>8. OneDocument'
  BY <1>1, <1>2 DEF KitsKept, OneDocument
<1>9. ShownKit'
  <2> SUFFICES ASSUME NEW j \in Settled', NEW r \in rows', r.job = j, r.kind = "pdf"
               PROVE  \/ r.kit = jobs'[j].kit
                      \/ \E q \in Procs : PastText(pc'[q], req'[q]) /\ req'[q].job = j
    BY DEF ShownKit
  <2>1. r \in rows /\ jobs'[j] = jobs[j] /\ j \in Settled
    BY <1>1, <1>2
  <2>2. \/ r.kit = jobs[j].kit
        \/ \E q \in Procs : PastText(pc[q], req[q]) /\ req[q].job = j
    BY <2>1 DEF KitsKept, ShownKit
  <2>3. ASSUME NEW q \in Procs, PastText(pc[q], req[q]), req[q].job = j
        PROVE  PastText(pc'[q], req'[q]) /\ req'[q].job = j
    <3>1. CASE q = p
      BY <2>3, <3>1 DEF WriterMoves
    <3>2. CASE q # p
      BY <2>3, <3>2, <1>1
    <3> QED
      BY <3>1, <3>2
  <2> QED
    BY <2>1, <2>2, <2>3
<1>10. WritersRight'
  <2> SUFFICES ASSUME NEW q \in Procs, PastText(pc'[q], req'[q]), req'[q].job \in Settled'
               PROVE  /\ req'[q].kit = jobs'[req'[q].job].kit
                      /\ pc'[q] \in Replacing => \A r \in rows' :
                            r.job = req'[q].job /\ r.kind = req'[q].kind => r \in req'[q].seen
    BY DEF WritersRight
  <2>0. /\ req'[q].job \in Settled /\ jobs'[req'[q].job] = jobs[req'[q].job]
    BY <1>1, <1>2
  <2>a. pc'[q] \in Replacing => req'[q].kind \in {"docx", "pdf"}
    <3>1. JobReq(pc'[q], req'[q], DOMAIN kitOf')
      BY DEF Requested, Formed
    <3> QED
      BY <3>1 DEF JobReq, PastText, Replacing
  <2>1. CASE q # p
    <3>1. pc'[q] = pc[q] /\ req'[q] = req[q]
      BY <2>1, <1>1
    <3>2. /\ req[q].kit = jobs[req[q].job].kit
          /\ pc[q] \in Replacing => \A r \in rows :
                r.job = req[q].job /\ r.kind = req[q].kind => r \in req[q].seen
      BY <3>1, <2>0 DEF KitsKept, WritersRight
    <3> QED
      BY <3>1, <3>2, <2>0, <2>a, <1>1
  <2>2. CASE q = p
    <3>1. /\ pc[p] # "text" /\ req'[p].kit = req[p].kit
          /\ pc'[p] \in Replacing => \A r \in rows :
                r.job = req'[p].job /\ r.kind = req'[p].kind => r \in req'[p].seen
      BY <2>2 DEF WriterMoves
    <3>2. PastText(pc[p], req[p]) /\ req'[p].job = req[p].job
      BY <2>2, <3>1 DEF WriterMoves, PastText
    <3>3. req[p].kit = jobs[req[p].job].kit
      BY <3>2, <2>0, <2>2 DEF KitsKept, WritersRight
    <3> QED
      BY <3>1, <3>2, <3>3, <2>0, <2>2, <2>a, <1>1
  <2> QED
    BY <2>1, <2>2
<1> QED
  BY <1>4, <1>5, <1>6, <1>7, <1>8, <1>9, <1>10 DEF KitsKept

(* A step that changes no job and no kit moves the kits as it may.         *)
LEMMA SameKits ==
    ASSUME Jobs, NEW p \in Procs, Alone(p), UNCHANGED <<jobs, postings, kitOf, recycled>>,
           mixed \subseteq mixed',
           \A r \in rows' : r \in rows \/ (r.kind = "upload" /\ pc[p] = "upload" /\ r.job = req[p].job)
    PROVE  Jobs' /\ Live' = Live /\ KitsMove(p)
<1>1. Jobs' /\ Live' = Live
  BY JobsSame
<1>2. Past' = Past
  BY <1>1 DEF Past
<1> QED
  BY <1>1, <1>2 DEF KitsMove

(* A step that is no kit's writer, before or after. *)
LEMMA NoWriter ==
    ASSUME NEW p \in Procs, ~Writing(pc[p], req[p]), ~Writing(pc'[p], req'[p]),
           pc'[p] = "upload" => req'[p].job \in Live
    PROVE  WriterMoves(p)
  BY DEF WriterMoves, PastText

(* Upload keeps what holds of the kits.                                    *)
LEMMA UploadKits ==
    ASSUME Sides, Jobs, Tables, Requested, KitsKept, NEW p \in Procs, Upload(p)
    PROVE  Jobs' /\ KitsKept'
<1>1. /\ Requested' /\ pc[p] = "idle" /\ Alone(p) /\ pc'[p] = "upload" /\ req'[p].job \in Live
  BY UploadFormed
<1>2. UNCHANGED <<jobs, postings, kitOf, recycled, rows, mixed>>
  BY DEF Upload, jobVars
<1>3. Jobs' /\ KitsMove(p)
  BY <1>1, <1>2, SameKits
<1>4. WriterMoves(p)
  BY <1>1, NoWriter DEF Writing
<1> QED
  BY <1>1, <1>3, <1>4, KitsMoved

(* UploadDone keeps what holds of the kits.                                *)
LEMMA UploadDoneKits ==
    ASSUME Sides, Jobs, Tables, Requested, KitsKept, NEW p \in Procs, UploadDone(p)
    PROVE  Jobs' /\ KitsKept'
<1> DEFINE row == RowOf(req[p].new, req[p].job, "upload", 0)
<1>1. /\ pc[p] = "upload" /\ Done(p) /\ rows' = rows \cup {row}
      /\ UNCHANGED <<part, drawn, jobs, postings, kitOf, recycled, mixed>>
  BY DEF UploadDone
<1>2. Requested' /\ pc'[p] = "idle" /\ Alone(p)
  BY <1>1, DoneFormed DEF Alone
<1>3. row.job = req[p].job /\ row.kind = "upload"
  BY RowIs, ReqFields DEF Kinds
<1> HIDE DEF row
<1>4. Jobs' /\ KitsMove(p)
  BY <1>1, <1>2, <1>3, SameKits
<1>5. WriterMoves(p)
  BY <1>1, <1>2, NoWriter DEF Writing
<1> QED
  BY <1>2, <1>4, <1>5, KitsMoved

(* The deletion of an attachment or a job keeps what holds of the kits.    *)
LEMMA DeleteKits ==
    ASSUME Sides, Jobs, Tables, Requested, KitsKept, NEW p \in Procs,
           DeleteAttachment(p) \/ DeleteJob(p)
    PROVE  Jobs' /\ KitsKept'
<1>1. /\ Requested' /\ Alone(p) /\ pc[p] = "idle"
      /\ pc'[p] = "remove" /\ req'[p].op = "delete" /\ UNCHANGED jobVars
  BY DeleteFormed
<1>2. UNCHANGED <<jobs, postings, kitOf, recycled, rows, mixed>>
  BY <1>1 DEF jobVars
<1>3. Jobs' /\ KitsMove(p)
  BY <1>1, <1>2, SameKits
<1>4. WriterMoves(p)
  BY <1>1, NoWriter DEF Writing
<1> QED
  BY <1>1, <1>3, <1>4, KitsMoved

(* Remove keeps what holds of the kits.                                    *)
LEMMA RemoveKits ==
    ASSUME Sides, Jobs, Tables, Requested, KitsKept, NEW p \in Procs, Remove(p)
    PROVE  Jobs' /\ KitsKept'
<1>1. /\ Requested' /\ Alone(p) /\ pc[p] = "remove"
      /\ pc'[p] = (IF req[p].op = "delete" THEN "forget" ELSE "render") /\ req'[p] = req[p]
      /\ UNCHANGED jobVars
  BY RemoveFormed
<1>2. UNCHANGED <<jobs, postings, kitOf, recycled, rows, mixed>>
  BY <1>1 DEF jobVars
<1>3. Jobs' /\ KitsMove(p) /\ Live' = Live
  BY <1>1, <1>2, SameKits
<1>4. CASE req[p].op = "delete"
  <2>1. WriterMoves(p)
    BY <1>1, <1>4, NoWriter DEF Writing
  <2> QED
    BY <2>1, <1>1, <1>3, KitsMoved
<1>5. CASE req[p].op # "delete"
  <2>1. Writing(pc[p], req[p]) /\ Writing(pc'[p], req'[p]) /\ pc'[p] = "render"
    BY <1>1, <1>5 DEF Writing
  <2>2. req[p].job \in Settled' => req[p].job \in Settled
    BY <1>2, <1>3 DEF Settled
  <2>3. req[p].job \in Settled => \A r \in rows : r.job = req[p].job /\ r.kind = req[p].kind =>
                                      r \in req[p].seen
    BY <2>1, <1>1 DEF KitsKept, WritersRight, PastText, Replacing
  <2>4. WriterMoves(p)
    BY <2>1, <2>2, <2>3, <1>1 DEF WriterMoves, PastText
  <2> QED
    BY <2>4, <1>1, <1>3, KitsMoved
<1> QED
  BY <1>4, <1>5

(* Unrendered keeps what holds of the kits.                                *)
LEMMA UnrenderedKits ==
    ASSUME Sides, Jobs, Tables, Requested, KitsKept, NEW p \in Procs, Unrendered(p)
    PROVE  Jobs' /\ KitsKept'
<1>1. /\ Requested' /\ Alone(p) /\ pc[p] \in {"docx", "pdf"}
      /\ \/ pc'[p] = "pdf" /\ req'[p] = req[p]
         \/ pc'[p] = "idle" /\ req'[p] = NoReq
      /\ mixed' = mixed \cup {req[p].job}
      /\ UNCHANGED <<jobs, postings, rows, kitOf, recycled>>
  BY UnrenderedFormed
<1>2. Jobs' /\ KitsMove(p) /\ Live' = Live
  BY <1>1, SameKits
<1>3. req[p].job \notin Settled'
  BY <1>1 DEF Settled
<1>4. Writing(pc[p], req[p]) /\ (pc'[p] = "idle" => ~Writing(pc'[p], req'[p]))
  BY <1>1 DEF Writing
<1>5. WriterMoves(p)
  BY <1>1, <1>3, <1>4 DEF WriterMoves, PastText
<1> QED
  BY <1>1, <1>2, <1>5, KitsMoved

(* Render keeps what holds of the kits.                                    *)
LEMMA RenderKits ==
    ASSUME Sides, Jobs, Tables, Requested, KitsKept, NEW p \in Procs, Render(p)
    PROVE  Jobs' /\ KitsKept'
<1>1. /\ Requested' /\ Alone(p) /\ pc[p] = "render" /\ pc'[p] = "attach"
      /\ req'[p].seen = req[p].seen /\ req'[p].kind = req[p].kind
      /\ req'[p].job = req[p].job /\ req'[p].kit = req[p].kit
      /\ UNCHANGED jobVars
  BY RenderFormed
<1>2. UNCHANGED <<jobs, postings, kitOf, recycled, rows, mixed>>
  BY <1>1 DEF jobVars
<1>3. Jobs' /\ KitsMove(p) /\ Live' = Live
  BY <1>1, <1>2, SameKits
<1>4. Writing(pc[p], req[p]) /\ Writing(pc'[p], req'[p])
  BY <1>1 DEF Writing
<1>5. req[p].job \in Settled' => req[p].job \in Settled
  BY <1>2, <1>3 DEF Settled
<1>6. req[p].job \in Settled => \A r \in rows : r.job = req[p].job /\ r.kind = req[p].kind =>
                                    r \in req[p].seen
  BY <1>1, <1>4 DEF KitsKept, WritersRight, PastText, Replacing
<1>7. WriterMoves(p)
  BY <1>1, <1>4, <1>5, <1>6 DEF WriterMoves, PastText
<1> QED
  BY <1>1, <1>3, <1>7, KitsMoved

(* ReadEarlier keeps what holds of the kits.                               *)
LEMMA ReadEarlierKits ==
    ASSUME Sides, Jobs, Tables, Requested, KitsKept, NEW p \in Procs, ReadEarlier(p)
    PROVE  Jobs' /\ KitsKept'
<1>1. /\ Requested' /\ Alone(p) /\ pc[p] \in {"docx", "pdf"}
      /\ UNCHANGED jobVars
      /\ \/ /\ pc'[p] = "remove" /\ req[p].job \in Live
            /\ req'[p].seen = Earlier(p) /\ req'[p].kind = pc[p]
            /\ req'[p].job = req[p].job /\ req'[p].op = req[p].op /\ req'[p].kit = req[p].kit
         \/ pc'[p] = "idle" /\ req'[p] = NoReq /\ req[p].job \notin Live
  BY ReadEarlierFormed
<1>2. UNCHANGED <<jobs, postings, kitOf, recycled, rows, mixed>>
  BY <1>1 DEF jobVars
<1>3. Jobs' /\ KitsMove(p) /\ Live' = Live
  BY <1>1, <1>2, SameKits
<1>4. Writing(pc[p], req[p])
  BY <1>1 DEF Writing
<1>5. CASE pc'[p] = "remove"
  <2>1. req[p].op \in {"build", "save"}
    BY <1>4 DEF Requested, Formed, JobReq
  <2>2. Writing(pc'[p], req'[p])
    BY <2>1, <1>1, <1>5 DEF Writing
  <2>3. \A r \in rows : r.job = req'[p].job /\ r.kind = req'[p].kind => r \in req'[p].seen
    BY <1>1, <1>5 DEF Earlier
  <2>4. WriterMoves(p)
    BY <2>2, <2>3, <1>1, <1>4, <1>5 DEF WriterMoves, PastText
  <2> QED
    BY <2>4, <1>1, <1>3, KitsMoved
<1>6. CASE pc'[p] = "idle"
  <2>1. req[p].job \notin Settled'
    BY <1>1, <1>3, <1>6 DEF Settled
  <2>2. WriterMoves(p)
    BY <2>1, <1>6 DEF WriterMoves, Writing, PastText
  <2> QED
    BY <2>2, <1>1, <1>3, KitsMoved
<1> QED
  BY <1>1, <1>5, <1>6

(* A request that is aborted, or whose commit is lost, keeps what holds of *)
(* the kits.                                                               *)
LEMMA FaultKits ==
    ASSUME Sides, Jobs, Tables, Requested, KitsKept, NEW p \in Procs, part = "job",
           Abort(p) \/ CommitsNothing(p)
    PROVE  Jobs' /\ KitsKept'
<1>1. /\ Requested' /\ Alone(p)
      /\ \/ pc'[p] = "idle"
         \/ pc[p] \in {"text", "attach"} /\ pc'[p] \in {"docx", "pdf"} /\ req'[p].job = req[p].job
      /\ mixed' = mixed \cup ({req[p].job} \ {0})
      /\ UNCHANGED <<jobs, postings, rows, kitOf, recycled>>
  BY FaultFormed
<1>2. Jobs' /\ KitsMove(p) /\ Live' = Live
  BY <1>1, SameKits
<1>3. Writing(pc[p], req[p]) => req[p].job \notin Settled'
  <2>1. Writing(pc[p], req[p]) => req[p].job # 0
    BY DEF Requested, Formed, JobReq
  <2> QED
    BY <2>1, <1>1 DEF Settled
<1>4. pc[p] \in {"text", "attach"} => Writing(pc[p], req[p])
  BY DEF Writing
<1>5. WriterMoves(p)
  <2>1. CASE pc'[p] = "idle"
    BY <2>1, <1>3 DEF WriterMoves, PastText, Writing
  <2>2. CASE pc[p] \in {"text", "attach"} /\ pc'[p] \in {"docx", "pdf"} /\ req'[p].job = req[p].job
    BY <2>2, <1>3, <1>4 DEF WriterMoves, PastText
  <2> QED
    BY <2>1, <2>2, <1>1
<1> QED
  BY <1>1, <1>2, <1>5, KitsMoved

(* The ids a deletion uncovers are past the highest again. *)
LEMMA ForgetDoneKits ==
    ASSUME Sides, Jobs, Tables, Requested, KitsKept, NEW p \in Procs, ForgetDone(p)
    PROVE  Jobs' /\ KitsKept'
<1> DEFINE gone == {req[p].job} \cap Live
           left == Live \ gone
<1>1. /\ pc[p] = "forget" /\ Done(p) /\ rows' = rows \ req[p].seen
      /\ jobs' = Restrict(jobs, left)
      /\ recycled' = recycled \cup (Highest(left) + 1 .. Highest(Live))
      /\ UNCHANGED <<part, drawn, postings, kitOf, mixed>>
  BY DEF ForgetDone, RowsDeleted
<1>2. Requested' /\ pc'[p] = "idle" /\ Alone(p)
  BY <1>1, DoneFormed DEF Alone
<1>3. jobs' = [j \in left |-> jobs[j]]
  BY <1>1 DEF Restrict
<1>4. left \subseteq Live
  OBVIOUS
<1> HIDE DEF gone, left
<1>5. Live' = left /\ \A j \in left : jobs'[j] = jobs[j]
  BY <1>3 DEF Live
<1>6. Jobs'
  <2>1. /\ Live \subseteq 1 .. postings
        /\ \A j \in Live : jobs[j] \in [posting : Nat, kit : Nat]
        /\ \A j \in Live : jobs[j].posting \in 1 .. postings /\ jobs[j].kit \in {0} \cup DOMAIN kitOf
        /\ Kits \in Nat /\ DOMAIN kitOf = 1 .. Kits
    BY DEF Jobs
  <2>2. Live' \subseteq 1 .. postings' /\ Kits' \in Nat /\ DOMAIN kitOf' = 1 .. Kits'
    BY <2>1, <1>1, <1>4, <1>5 DEF Kits
  <2>3. jobs' \in [Live' -> [posting : Nat, kit : Nat]]
    BY <2>1, <1>3, <1>4, <1>5
  <2>4. \A j \in Live' : jobs'[j].posting \in 1 .. postings' /\ jobs'[j].kit \in {0} \cup DOMAIN kitOf'
    BY <2>1, <1>1, <1>4, <1>5
  <2> QED
    BY <2>2, <2>3, <2>4 DEF Jobs
<1>7. Past \subseteq Past'
  <2>1. Highest(Live) \in Nat /\ postings \in Nat
    BY HighestLive DEF Sides
  <2>2. Highest(left) \in Nat
    <3>1. left \subseteq 0 .. postings
      BY <1>4 DEF Jobs
    <3>2. postings \in Nat
      BY <2>1
    <3>3. Highest(left) \in 0 .. postings
      BY ONLY <3>1, <3>2, HighestIs
    <3> QED
      BY <3>2, <3>3
  <2>3. Highest(Live') = Highest(left)
    BY <1>5
  <2>4. ASSUME NEW j \in 1 .. Highest(Live)
        PROVE  j \in recycled' \cup 1 .. Highest(left)
    <3>1. j \in 1 .. Highest(left) \/ j \in Highest(left) + 1 .. Highest(Live)
      BY <2>1, <2>2
    <3> QED
      BY <3>1, <1>1
  <2> QED
    BY <2>3, <2>4, <1>1 DEF Past
<1>8. KitsMove(p)
  BY <1>1, <1>2, <1>4, <1>5, <1>7 DEF KitsMove
<1>9. WriterMoves(p)
  <2>1. ~Writing(pc[p], req[p])
    BY <1>1 DEF Writing
  <2>2. ~Writing(pc'[p], req'[p]) /\ pc'[p] # "upload"
    BY <1>2 DEF Writing
  <2> QED
    BY <2>1, <2>2, NoWriter
<1> QED
  BY <1>2, <1>6, <1>8, <1>9, KitsMoved

(* A live job is one there has been.                                       *)
LEMMA LivePast ==
    ASSUME Sides, Jobs
    PROVE  Live \subseteq Past
<1>1. \A j \in Live : j \in Nat \ {0} /\ j <= Highest(Live)
  BY HighestLive
<1>2. Highest(Live) \in Nat
  BY HighestLive DEF Sides
<1> QED
  BY <1>1, <1>2 DEF Past

(* The text goes to the posting it was written for: either the job was     *)
(* never deleted, or its id is past.                                       *)
LEMMA KitTextKits ==
    ASSUME Sides, Jobs, Tables, Requested, KitsKept, NEW p \in Procs, KitText(p)
    PROVE  Jobs' /\ KitsKept'
<1>1. /\ Requested' /\ Alone(p) /\ pc[p] = "text"
      /\ \/ /\ req[p].job \in Live /\ pc'[p] \in {"docx", "pdf"} /\ req'[p] = req[p]
            /\ jobs' = [jobs EXCEPT ![req[p].job].kit = req[p].kit]
         \/ req[p].job \notin Live /\ pc'[p] = "idle" /\ req'[p] = NoReq /\ jobs' = jobs
      /\ UNCHANGED <<drawn, postings, rows, kitOf, recycled, mixed>>
  BY KitTextFormed
<1>2. CASE req[p].job \notin Live
  <2>1. pc'[p] = "idle" /\ jobs' = jobs
    BY <1>1, <1>2
  <2>2. Jobs' /\ KitsMove(p)
    BY <2>1, <1>1, SameKits
  <2>3. WriterMoves(p)
    BY <2>1, <1>1 DEF WriterMoves, Writing, PastText
  <2> QED
    BY <2>2, <2>3, <1>1, KitsMoved
<1>3. CASE req[p].job \in Live
  <2> DEFINE j == req[p].job
             k == req[p].kit
  <2>1. /\ pc'[p] \in {"docx", "pdf"} /\ req'[p] = req[p]
        /\ jobs' = [jobs EXCEPT ![j].kit = k]
    BY <1>1, <1>3
  <2>2. k \in DOMAIN kitOf /\ k \in Nat
    <3>1. Writing(pc[p], req[p])
      BY <1>1 DEF Writing
    <3> QED
      BY <3>1, ReqFields DEF Requested, Formed, JobReq
  <2>3. jobs \in [Live -> [posting : Nat, kit : Nat]]
    BY DEF Jobs
  <2> HIDE DEF j, k
  <2>4. j \in Live
    BY <1>3 DEF j
  <2>5. /\ jobs' \in [Live -> [posting : Nat, kit : Nat]]
        /\ \A i \in Live : i # j => jobs'[i] = jobs[i]
        /\ jobs'[j].posting = jobs[j].posting /\ jobs'[j].kit = k
    BY <2>1, <2>2, <2>3, <2>4
  <2>6. Live' = Live
    BY <2>5 DEF Live
  <2>7. \A i \in Live : jobs'[i].posting = jobs[i].posting
    BY <2>5
  <2>8. Jobs'
    <3>1. \A i \in Live : jobs[i].posting \in 1 .. postings /\ jobs[i].kit \in {0} \cup DOMAIN kitOf
      BY DEF Jobs
    <3>2. \A i \in Live : jobs'[i].posting \in 1 .. postings' /\ jobs'[i].kit \in {0} \cup DOMAIN kitOf'
      BY <3>1, <2>2, <2>5, <2>7, <1>1
    <3>3. Live' \subseteq 1 .. postings' /\ Kits' \in Nat /\ DOMAIN kitOf' = 1 .. Kits'
      BY <1>1, <2>6 DEF Jobs, Kits
    <3> QED
      BY <3>2, <3>3, <2>5, <2>6 DEF Jobs
  <2>9. Past' = Past /\ Settled' = Settled
    BY <1>1, <2>6 DEF Past, Settled
  <2>10. \A q \in Procs : q # p => pc'[q] = pc[q] /\ req'[q] = req[q]
    BY <1>1 DEF Alone
  <2>11. /\ Writing(pc[p], req[p]) /\ Writing(pc'[p], req'[p]) /\ req'[p].job = j /\ req[p].job = j
         /\ req'[p].kit = k /\ PastText(pc'[p], req'[p]) /\ ~PastText(pc[p], req[p])
         /\ pc'[p] \notin Replacing
    BY <1>1, <2>1 DEF Writing, PastText, Replacing, j, k
  <2>12. Placed'
    <3>1. \A q \in Procs : Holds(pc'[q], req'[q]) => Holds(pc[q], req[q]) /\ req'[q].job = req[q].job
      BY <2>10, <2>11 DEF Holds
    <3> QED
      BY <3>1, <2>9, <1>1 DEF KitsKept, Placed
  <2>13. KitOfItsPosting'
    <3>1. j \notin recycled => kitOf[k] = jobs[j].posting
      BY <1>1, <2>4, <2>11 DEF KitsKept, TextsRight, j, k
    <3>2. \A i \in Live \ recycled : jobs[i].kit # 0 => kitOf[jobs[i].kit] = jobs[i].posting
      BY DEF KitsKept, KitOfItsPosting
    <3> QED
      BY <3>1, <3>2, <2>5, <2>6, <2>7, <1>1 DEF KitOfItsPosting
  <2>14. TextsRight'
    <3>1. pc'[p] # "text"
      BY <2>1
    <3>2. \A q \in Procs : pc[q] = "text" /\ req[q].job \in Live \ recycled =>
              kitOf[req[q].kit] = jobs[req[q].job].posting
      BY DEF KitsKept, TextsRight
    <3> QED
      BY <3>1, <3>2, <2>6, <2>7, <2>10, <1>1 DEF TextsRight
  <2>15. LoneWriter'
    <3>1. \A q \in Procs : Writing(pc'[q], req'[q]) => Writing(pc[q], req[q]) /\ req'[q].job = req[q].job
      BY <2>10, <2>11
    <3> QED
      BY <3>1, <1>1 DEF KitsKept, LoneWriter
  <2>16. OneDocument'
    BY <2>9, <1>1 DEF KitsKept, OneDocument
  <2>17. ShownKit'
    <3> SUFFICES ASSUME NEW i \in Settled, NEW r \in rows, r.job = i, r.kind = "pdf"
                 PROVE  \/ r.kit = jobs'[i].kit
                        \/ \E q \in Procs : PastText(pc'[q], req'[q]) /\ req'[q].job = i
      BY <2>9, <1>1 DEF ShownKit
    <3>1. CASE i = j
      BY <3>1, <2>11
    <3>2. CASE i # j
      <4>1. jobs'[i] = jobs[i]
        BY <3>2, <2>5 DEF Settled
      <4>2. \/ r.kit = jobs[i].kit
            \/ \E q \in Procs : PastText(pc[q], req[q]) /\ req[q].job = i
        BY DEF KitsKept, ShownKit
      <4> QED
        BY <4>1, <4>2, <2>10, <2>11
    <3> QED
      BY <3>1, <3>2
  <2>18. WritersRight'
    <3> SUFFICES ASSUME NEW q \in Procs, PastText(pc'[q], req'[q]), req'[q].job \in Settled
                 PROVE  /\ req'[q].kit = jobs'[req'[q].job].kit
                        /\ pc'[q] \in Replacing => \A r \in rows :
                              r.job = req'[q].job /\ r.kind = req'[q].kind => r \in req'[q].seen
      BY <2>9, <1>1 DEF WritersRight
    <3>1. CASE q = p
      BY <3>1, <2>5, <2>11
    <3>2. CASE q # p
      <4>1. pc'[q] = pc[q] /\ req'[q] = req[q] /\ PastText(pc[q], req[q])
        BY <3>2, <2>10
      <4>2. req[q].job # j
        <5>1. Writing(pc[q], req[q])
          BY <4>1 DEF PastText
        <5>2. req[q].job \notin mixed
          BY <4>1 DEF Settled
        <5> QED
          BY <5>1, <5>2, <3>2, <2>11 DEF KitsKept, LoneWriter
      <4>3. jobs'[req[q].job] = jobs[req[q].job]
        BY <4>1, <4>2, <2>5 DEF Settled
      <4> QED
        BY <4>1, <4>3 DEF KitsKept, WritersRight
    <3> QED
      BY <3>1, <3>2
  <2> QED
    BY <2>8, <2>12, <2>13, <2>14, <2>15, <2>16, <2>17, <2>18 DEF KitsKept
<1> QED
  BY <1>2, <1>3

(* Compose keeps what holds of the kits.                                   *)
LEMMA ComposeKits ==
    ASSUME Sides, Jobs, Tables, Requested, KitsKept, NEW p \in Procs, Compose(p)
    PROVE  Jobs' /\ KitsKept'
<1>1. /\ Requested' /\ Alone(p) /\ pc[p] = "idle"
      /\ pc'[p] = "text" /\ req'[p].op \in {"build", "save"}
      /\ req'[p].job \in Live /\ req'[p].kit = Kits + 1
      /\ DOMAIN kitOf' = 1 .. Kits + 1 /\ Kits' = Kits + 1
      /\ kitOf'[Kits + 1] = jobs[req'[p].job].posting
      /\ \A k \in DOMAIN kitOf : kitOf'[k] = kitOf[k]
      /\ mixed' = IF Writers(req'[p].job) = {} THEN mixed ELSE mixed \cup {req'[p].job}
      /\ UNCHANGED <<jobs, postings, rows, recycled>>
  BY ComposeFormed
<1>2. Live' = Live /\ Past' = Past
  BY <1>1 DEF Live, Past
<1>3. /\ Kits \in Nat /\ DOMAIN kitOf = 1 .. Kits /\ jobs \in [Live -> [posting : Nat, kit : Nat]]
      /\ Live \subseteq 1 .. postings
      /\ \A j \in Live : jobs[j].posting \in 1 .. postings /\ jobs[j].kit \in {0} \cup DOMAIN kitOf
  BY DEF Jobs
<1>4. DOMAIN kitOf \subseteq DOMAIN kitOf'
  BY <1>1, <1>3
<1>5. Jobs'
  <2>1. \A j \in Live' : jobs'[j].posting \in 1 .. postings' /\ jobs'[j].kit \in {0} \cup DOMAIN kitOf'
    BY <1>1, <1>2, <1>3, <1>4
  <2>2. Kits' \in Nat /\ DOMAIN kitOf' = 1 .. Kits'
    BY <1>1, <1>3
  <2>3. Live' \subseteq 1 .. postings' /\ jobs' \in [Live' -> [posting : Nat, kit : Nat]]
    BY <1>1, <1>2, <1>3
  <2> QED
    BY <2>1, <2>2, <2>3 DEF Jobs
<1>6. \A q \in Procs : q # p => pc'[q] = pc[q] /\ req'[q] = req[q]
  BY <1>1 DEF Alone
<1>7. \A j \in mixed : j \in mixed'
  BY <1>1
<1>8. \A j \in Settled' : j \in Settled
  BY <1>1, <1>2, <1>7 DEF Settled
<1>9. ~PastText(pc'[p], req'[p]) /\ ~PastText(pc[p], req[p]) /\ ~Writing(pc[p], req[p])
  BY <1>1 DEF PastText, Writing
<1>10. Placed'
  <2>1. \A q \in Procs : Holds(pc[q], req[q]) => req[q].job \in Past
    BY DEF KitsKept, Placed
  <2>2. req'[p].job \in Past
    BY <1>1, LivePast
  <2>3. \A q \in Procs : Holds(pc'[q], req'[q]) => req'[q].job \in Past'
    BY <2>1, <2>2, <1>2, <1>6
  <2> QED
    BY <2>3, <1>1, <1>2 DEF KitsKept, Placed
<1>11. KitOfItsPosting'
  <2>1. \A j \in Live \ recycled : jobs[j].kit # 0 => kitOf[jobs[j].kit] = jobs[j].posting
    BY DEF KitsKept, KitOfItsPosting
  <2>2. \A j \in Live \ recycled : jobs[j].kit # 0 => kitOf'[jobs[j].kit] = jobs[j].posting
    BY <2>1, <1>1, <1>3
  <2> QED
    BY <2>2, <1>1, <1>2 DEF KitOfItsPosting
<1>12. TextsRight'
  <2> SUFFICES ASSUME NEW q \in Procs, pc'[q] = "text", req'[q].job \in Live \ recycled
               PROVE  kitOf'[req'[q].kit] = jobs[req'[q].job].posting
    BY <1>1, <1>2 DEF TextsRight
  <2>1. CASE q = p
    BY <2>1, <1>1
  <2>2. CASE q # p
    <3>1. pc[q] = "text" /\ req'[q] = req[q]
      BY <2>2, <1>6
    <3>2. req[q].kit \in DOMAIN kitOf
      <4>1. Writing(pc[q], req[q])
        BY <3>1 DEF Writing
      <4> QED
        BY <4>1 DEF Requested, Formed, JobReq
    <3>3. kitOf[req[q].kit] = jobs[req[q].job].posting
      BY <3>1 DEF KitsKept, TextsRight
    <3> QED
      BY <3>1, <3>2, <3>3, <1>1
  <2> QED
    BY <2>1, <2>2
<1>13. LoneWriter'
  <2>1. ASSUME NEW q \in Procs, q # p, Writing(pc[q], req[q]), req[q].job = req'[p].job
        PROVE  req'[p].job \in mixed'
    <3>1. req[q].op \in {"build", "save"}
      BY <2>1 DEF Requested, Formed, JobReq
    <3>2. q \in Writers(req'[p].job)
      BY <3>1, <2>1 DEF Writers
    <3> QED
      BY <3>2, <1>1
  <2>2. \A q, w \in Procs : Writing(pc[q], req[q]) /\ Writing(pc[w], req[w]) /\ req[q].job = req[w].job =>
            q = w \/ req[q].job \in mixed
    BY DEF KitsKept, LoneWriter
  <2> SUFFICES ASSUME NEW q \in Procs, NEW w \in Procs, q # w,
                      Writing(pc'[q], req'[q]), Writing(pc'[w], req'[w]), req'[q].job = req'[w].job
               PROVE  req'[q].job \in mixed'
    BY DEF LoneWriter
  <2>3. CASE q = p
    BY <2>1, <2>3, <1>6
  <2>4. CASE w = p
    BY <2>1, <2>4, <1>6
  <2>5. CASE q # p /\ w # p
    BY <2>2, <2>5, <1>6, <1>7
  <2> QED
    BY <2>3, <2>4, <2>5
<1>14. OneDocument'
  BY <1>1, <1>8 DEF KitsKept, OneDocument
<1>15. ShownKit'
  <2>1. \A q \in Procs : PastText(pc[q], req[q]) => pc'[q] = pc[q] /\ req'[q] = req[q]
    BY <1>6, <1>9
  <2>2. \A j \in Settled : \A r \in rows : r.job = j /\ r.kind = "pdf" =>
            \/ r.kit = jobs[j].kit
            \/ \E q \in Procs : PastText(pc[q], req[q]) /\ req[q].job = j
    BY DEF KitsKept, ShownKit
  <2>3. \A j \in Settled : \A r \in rows : r.job = j /\ r.kind = "pdf" =>
            \/ r.kit = jobs[j].kit
            \/ \E q \in Procs : PastText(pc'[q], req'[q]) /\ req'[q].job = j
    <3> SUFFICES ASSUME NEW j \in Settled, NEW r \in rows, r.job = j, r.kind = "pdf", r.kit # jobs[j].kit
                 PROVE  \E q \in Procs : PastText(pc'[q], req'[q]) /\ req'[q].job = j
      OBVIOUS
    <3>1. PICK q \in Procs : PastText(pc[q], req[q]) /\ req[q].job = j
      BY <2>2
    <3> QED
      BY <3>1, <2>1
  <2> QED
    BY <2>3, <1>1, <1>8 DEF ShownKit
<1>16. WritersRight'
  <2>1. \A q \in Procs : PastText(pc'[q], req'[q]) => pc'[q] = pc[q] /\ req'[q] = req[q]
    BY <1>6, <1>9
  <2>2. \A q \in Procs : PastText(pc[q], req[q]) /\ req[q].job \in Settled =>
          /\ req[q].kit = jobs[req[q].job].kit
          /\ pc[q] \in Replacing => \A r \in rows : r.job = req[q].job /\ r.kind = req[q].kind =>
                                        r \in req[q].seen
    BY DEF KitsKept, WritersRight
  <2> SUFFICES ASSUME NEW q \in Procs, PastText(pc'[q], req'[q]), req'[q].job \in Settled
               PROVE  /\ req'[q].kit = jobs[req'[q].job].kit
                      /\ pc'[q] \in Replacing => \A r \in rows :
                            r.job = req'[q].job /\ r.kind = req'[q].kind => r \in req'[q].seen
    BY <1>1, <1>8 DEF WritersRight
  <2>3. pc'[q] = pc[q] /\ req'[q] = req[q]
    BY <2>1
  <2> QED
    BY <2>2, <2>3
<1> QED
  BY <1>5, <1>10, <1>11, <1>12, <1>13, <1>14, <1>15, <1>16 DEF KitsKept

(* AttachDone keeps what holds of the kits.                                *)
LEMMA AttachDoneKits ==
    ASSUME Sides, Jobs, Tables, Requested, KitsKept, NEW p \in Procs, AttachDone(p)
    PROVE  Jobs' /\ KitsKept'
<1> DEFINE row == RowOf(req[p].new, req[p].job, req[p].kind, req[p].kit)
           j == req[p].job
           kind == req[p].kind
<1>1. /\ Requested' /\ Alone(p) /\ pc[p] = "attach"
      /\ \/ /\ pc'[p] = "pdf" /\ req[p].kind = "docx"
            /\ req'[p].job = req[p].job /\ req'[p].op = req[p].op /\ req'[p].kit = req[p].kit
         \/ pc'[p] = "idle" /\ req'[p] = NoReq
      /\ UNCHANGED <<jobs, postings, kitOf, recycled, mixed>>
  BY AttachDoneFormed
<1>a. kind = "docx" => pc'[p] = "pdf"
  <2>1. kind = "docx" => Goto(p, "pdf", [req[p] EXCEPT !.seen = {}, !.new = 0, !.kind = None])
    BY DEF AttachDone
  <2>2. DOMAIN pc = Procs
    BY DEF Requested
  <2>3. kind = "docx" => pc' = [pc EXCEPT ![p] = "pdf"]
    BY <2>1 DEF Goto
  <2> QED
    BY <2>2, <2>3
<1>2. rows' = (rows \ req[p].seen) \cup {row}
  BY DEF AttachDone, Replaced
<1>3. Jobs' /\ Live' = Live
  BY <1>1, JobsSame
<1>4. Past' = Past /\ Settled' = Settled
  BY <1>1, <1>3 DEF Past, Settled
<1>5. Writing(pc[p], req[p]) /\ PastText(pc[p], req[p]) /\ pc[p] \in Replacing
  BY <1>1 DEF Writing, PastText, Replacing
<1>6. kind \in {"docx", "pdf"}
  <2>1. JobReq(pc[p], req[p], DOMAIN kitOf)
    BY DEF Requested, Formed
  <2> QED
    BY <2>1, <1>1, <1>5 DEF JobReq
<1>7. row.job = j /\ row.kind = kind /\ row.kit = req[p].kit
  BY DEF RowOf
<1>8. \A q \in Procs : q # p => pc'[q] = pc[q] /\ req'[q] = req[q]
  BY <1>1 DEF Alone
<1>9. Writing(pc'[p], req'[p]) => pc'[p] = "pdf" /\ req'[p].job = j /\ req'[p].kit = req[p].kit
  BY <1>1 DEF Writing
<1>10. j \in Past
  BY <1>5 DEF KitsKept, Placed, Holds
<1>11. j \in Settled =>
          /\ req[p].kit = jobs[j].kit
          /\ \A r \in rows : r.job = j /\ r.kind = kind => r \in req[p].seen
  BY <1>5 DEF KitsKept, WritersRight
<1> HIDE DEF row, j, kind
<1>12. \A r \in rows' : r = row \/ (r \in rows /\ r \notin req[p].seen)
  BY <1>2
<1>13. Placed'
  <2>1. /\ \A r \in rows : r.job \in Past
        /\ \A q \in Procs : Holds(pc[q], req[q]) => req[q].job \in Past
    BY DEF KitsKept, Placed
  <2>2. \A r \in rows' : r.job \in Past
    BY <2>1, <1>7, <1>10, <1>12
  <2>3. Holds(pc'[p], req'[p]) => req'[p].job \in Past
    BY <1>1, <1>9, <1>10 DEF Holds
  <2>4. \A q \in Procs : Holds(pc'[q], req'[q]) => req'[q].job \in Past
    BY <2>1, <2>3, <1>8
  <2> QED
    BY <2>2, <2>4, <1>4 DEF Placed
<1>14. KitOfItsPosting'
  BY <1>1, <1>3 DEF KitsKept, KitOfItsPosting
<1>15. TextsRight'
  <2>1. pc'[p] # "text"
    BY <1>1
  <2> QED
    BY <2>1, <1>1, <1>3, <1>8 DEF KitsKept, TextsRight
<1>16. LoneWriter'
  <2>1. \A q \in Procs : Writing(pc'[q], req'[q]) => Writing(pc[q], req[q]) /\ req'[q].job = req[q].job
    BY <1>5, <1>8, <1>9 DEF j
  <2> QED
    BY <2>1, <1>1 DEF KitsKept, LoneWriter
<1>17. OneDocument'
  <2> SUFFICES ASSUME NEW i \in Settled, NEW r \in rows', NEW s \in rows',
                      r.job = i, s.job = i, r.kind # "upload", r.kind = s.kind
               PROVE  r = s
    BY <1>4 DEF OneDocument
  <2>1. CASE r \in rows /\ s \in rows
    BY <2>1 DEF KitsKept, OneDocument
  <2>2. CASE r = row
    BY <2>2, <1>7, <1>11, <1>12
  <2>3. CASE s = row
    BY <2>3, <1>7, <1>11, <1>12
  <2> QED
    BY <2>1, <2>2, <2>3, <1>12
<1>18. ShownKit'
  <2> SUFFICES ASSUME NEW i \in Settled, NEW r \in rows', r.job = i, r.kind = "pdf", r.kit # jobs[i].kit
               PROVE  \E q \in Procs : PastText(pc'[q], req'[q]) /\ req'[q].job = i
    BY <1>1, <1>4 DEF ShownKit
  <2>1. r # row
    BY <1>7, <1>11
  <2>2. r \in rows /\ r \notin req[p].seen
    BY <2>1, <1>12
  <2>3. PICK q \in Procs : PastText(pc[q], req[q]) /\ req[q].job = i
    BY <2>2 DEF KitsKept, ShownKit
  <2>4. CASE q # p
    BY <2>3, <2>4, <1>8
  <2>5. CASE q = p
    <3>1. i = j
      BY <2>3, <2>5 DEF j
    <3>2. kind = "docx"
      BY <3>1, <2>2, <1>6, <1>11
    <3>3. PastText(pc'[p], req'[p]) /\ req'[p].job = i
      BY <3>1, <3>2, <1>a, <1>9 DEF PastText, Writing
    <3> QED
      BY <3>3
  <2> QED
    BY <2>4, <2>5
<1>19. WritersRight'
  <2> SUFFICES ASSUME NEW q \in Procs, PastText(pc'[q], req'[q]), req'[q].job \in Settled
               PROVE  /\ req'[q].kit = jobs[req'[q].job].kit
                      /\ pc'[q] \in Replacing => \A r \in rows' :
                            r.job = req'[q].job /\ r.kind = req'[q].kind => r \in req'[q].seen
    BY <1>1, <1>4 DEF WritersRight
  <2>1. CASE q = p
    BY <2>1, <1>9, <1>11 DEF PastText, Replacing
  <2>2. CASE q # p
    <3>1. pc'[q] = pc[q] /\ req'[q] = req[q] /\ PastText(pc[q], req[q])
      BY <2>2, <1>8
    <3>2. req[q].job # j
      <4>1. Writing(pc[q], req[q]) /\ req[q].job \notin mixed
        BY <3>1 DEF PastText, Settled
      <4> QED
        BY <4>1, <2>2, <1>5 DEF KitsKept, LoneWriter, j
    <3>3. /\ req[q].kit = jobs[req[q].job].kit
          /\ pc[q] \in Replacing => \A r \in rows :
                r.job = req[q].job /\ r.kind = req[q].kind => r \in req[q].seen
      BY <3>1 DEF KitsKept, WritersRight
    <3> QED
      BY <3>1, <3>2, <3>3, <1>7, <1>12
  <2> QED
    BY <2>1, <2>2
<1> QED
  BY <1>3, <1>13, <1>14, <1>15, <1>16, <1>17, <1>18, <1>19 DEF KitsKept

(* A new id is past, and then was past the highest once, or no row and no  *)
(* writer has it.                                                          *)
LEMMA TrackKits ==
    ASSUME Sides, Jobs, Requested, KitsKept, Track
    PROVE  Jobs' /\ KitsKept'
<1>1. /\ Jobs' /\ Live' = Live \cup {NewId} /\ NewId = Highest(Live) + 1
      /\ \A j \in Live : jobs'[j] = jobs[j]
      /\ jobs'[NewId].kit = 0
  BY TrackJobs
<1>2. UNCHANGED <<pc, req, rows, kitOf, recycled, mixed>>
  BY DEF Track
<1>3. Highest(Live) \in Nat
  BY HighestLive DEF Sides
<1>4. Highest(Live') \in Nat /\ NewId <= Highest(Live')
  <2>1. postings' \in Nat
    BY DEF Track, Sides
  <2>2. Live' \subseteq 0 .. postings'
    BY <1>1 DEF Jobs
  <2>3. Highest(Live') \in 0 .. postings' /\ \A y \in Live' : y <= Highest(Live')
    BY ONLY <2>1, <2>2, HighestIs
  <2> QED
    BY <2>1, <2>3, <1>1
<1>5. \A j \in Past : j \in Past'
  <2>1. \A j \in 1 .. Highest(Live) : j \in 1 .. Highest(Live')
    BY <1>1, <1>3, <1>4
  <2> QED
    BY <2>1, <1>2 DEF Past
<1>6. NewId \notin recycled => NewId \notin Past
  BY <1>1, <1>3 DEF Past
<1>7. \A j \in Settled' : j \in Settled \/ (j = NewId /\ j \notin Past)
  BY <1>1, <1>2, <1>6 DEF Settled
<1>8. /\ \A r \in rows : r.job \in Past
      /\ \A p \in Procs : Writing(pc[p], req[p]) => req[p].job \in Past
  BY DEF KitsKept, Placed, Holds
<1>9. Placed'
  BY <1>2, <1>5 DEF KitsKept, Placed
<1>10. KitOfItsPosting'
  <2>1. \A j \in Live' \ recycled' : j \in Live \ recycled \/ j = NewId
    BY <1>1, <1>2
  <2> QED
    BY <2>1, <1>1, <1>2 DEF KitsKept, KitOfItsPosting
<1>11. TextsRight'
  <2>1. \A p \in Procs : pc[p] = "text" => req[p].job \in Past
    BY <1>8 DEF Writing
  <2>2. \A p \in Procs : pc[p] = "text" /\ req[p].job \in Live' \ recycled => req[p].job \in Live
    BY <2>1, <1>1, <1>6
  <2> QED
    BY <2>2, <1>1, <1>2 DEF KitsKept, TextsRight
<1>12. LoneWriter'
  BY <1>2 DEF KitsKept, LoneWriter
<1>13. OneDocument'
  BY <1>2, <1>7, <1>8 DEF KitsKept, OneDocument
<1>14. ShownKit'
  <2>1. \A j \in Settled : jobs'[j] = jobs[j]
    BY <1>1 DEF Settled
  <2> SUFFICES ASSUME NEW j \in Settled', NEW r \in rows, r.job = j, r.kind = "pdf"
               PROVE  \/ r.kit = jobs'[j].kit
                      \/ \E p \in Procs : PastText(pc[p], req[p]) /\ req[p].job = j
    BY <1>2 DEF ShownKit
  <2>2. j \in Settled
    BY <1>7, <1>8
  <2> QED
    BY <2>1, <2>2 DEF KitsKept, ShownKit
<1>15. WritersRight'
  <2>1. \A j \in Settled : jobs'[j] = jobs[j]
    BY <1>1 DEF Settled
  <2>2. \A p \in Procs : PastText(pc[p], req[p]) /\ req[p].job \in Settled' => req[p].job \in Settled
    BY <1>7, <1>8 DEF PastText
  <2> QED
    BY <2>1, <2>2, <1>2 DEF KitsKept, WritersRight
<1> QED
  BY <1>1, <1>9, <1>10, <1>11, <1>12, <1>13, <1>14, <1>15 DEF KitsKept

(***************************************************************************)
(* The candidate's documents: requests                                     *)
(***************************************************************************)
LEMMA AssetGoto ==
    ASSUME Sides, Requested, part = "resume", NEW p \in Procs, NEW step \in ResumeSteps,
           NEW r \in ReqSet, Goto(p, step, r), part' = part, drawn' \in {drawn, drawn + 1},
           kitOf' = kitOf, r.new \in 0 .. drawn', r.source \in 0 .. drawn',
           step \in {"asset", "variant"} => r.new # 0,
           Sighted(r, "resume", drawn'), ResumeReq(step, r)
    PROVE  Requested' /\ Alone(p) /\ pc'[p] = step /\ req'[p] = r
<1>1. drawn \in Nat /\ drawn' \in Nat /\ drawn <= drawn' /\ DOMAIN kitOf \subseteq DOMAIN kitOf'
  BY DEF Sides
<1>2. JobReq(step, r, DOMAIN kitOf')
  BY DEF JobReq, Writing, ResumeSteps
<1>3. step \in StepsOf(part)
  BY DEF StepsOf
<1>4. step \notin {"upload", "attach"}
  BY DEF ResumeSteps
<1>5. Formed(step, r, part, drawn', DOMAIN kitOf')
  BY <1>1, <1>2, <1>3, <1>4 DEF Formed
<1> QED
  BY <1>1, <1>5, RequestedGoto DEF Alone

(* A step of the resume side is taken on the resume side only.             *)
LEMMA AssetSide ==
    ASSUME Sides, Requested, NEW p \in Procs, pc[p] \in ResumeSteps
    PROVE  part = "resume"
  BY StepOfSide

(* Where UploadAsset takes a request, and what it leaves alone.            *)
LEMMA UploadAssetFormed ==
    ASSUME Sides, Requested, NEW p \in Procs, UploadAsset(p)
    PROVE  /\ Requested' /\ Alone(p) /\ part = "resume" /\ pc[p] = "idle" /\ pc'[p] = "asset"
           /\ req'[p].new = drawn + 1 /\ req'[p].seen = {}
           /\ files' = files \cup {drawn + 1} /\ drawn' = drawn + 1
           /\ UNCHANGED <<part, jobVars, assets, asked, torn, murky>>
<1> DEFINE r == [NoReq EXCEPT !.op = "asset", !.new = drawn + 1]
<1>1. /\ Goto(p, "asset", r) /\ part = "resume" /\ pc[p] = "idle"
      /\ files' = files \cup {drawn + 1} /\ drawn' = drawn + 1
      /\ UNCHANGED <<part, jobVars, assets, asked, torn, murky>>
  BY DEF UploadAsset, Begin, Write
<1>2. drawn + 1 \in Nat /\ "asset" \in Ops /\ drawn \in Nat
  BY DEF Sides, Ops
<1>3. r \in ReqSet /\ r.new = drawn + 1 /\ r.source = 0 /\ r.seen = {}
  BY <1>2, NoReqIs DEF ReqSet
<1> HIDE DEF r
<1>4. Sighted(r, "resume", drawn') /\ ResumeReq("asset", r)
  BY <1>3 DEF Sighted, ResumeReq
<1>5. "asset" \in ResumeSteps /\ kitOf' = kitOf
  BY <1>1 DEF ResumeSteps, jobVars
<1>6. Requested' /\ Alone(p) /\ pc'[p] = "asset" /\ req'[p] = r
  BY <1>1, <1>2, <1>3, <1>4, <1>5, AssetGoto
<1> QED
  BY <1>1, <1>3, <1>6

(* A request that writes a variant from what the user typed or from a      *)
(* file already stored.                                                    *)
LEMMA DraftFormed ==
    ASSUME Sides, Requested, part = "resume", NEW p \in Procs,
           Goto(p, "draft", [NoReq EXCEPT !.op = "draft"]), part' = part, drawn' = drawn, kitOf' = kitOf
    PROVE  /\ Requested' /\ Alone(p) /\ pc'[p] = "draft"
           /\ req'[p].op = "draft" /\ req'[p].source = 0 /\ req'[p].seen = {}
<1> DEFINE r == [NoReq EXCEPT !.op = "draft"]
<1>1. Goto(p, "draft", r)
  OBVIOUS
<1>2. "draft" \in Ops /\ drawn \in Nat /\ "draft" \in ResumeSteps
  BY DEF Sides, Ops, ResumeSteps
<1>3. r \in ReqSet /\ r.new = 0 /\ r.source = 0 /\ r.seen = {} /\ r.op = "draft"
  BY <1>2, NoReqIs DEF ReqSet
<1> HIDE DEF r
<1>4. Sighted(r, "resume", drawn') /\ ResumeReq("draft", r)
  BY <1>3 DEF Sighted, ResumeReq
<1>5. Requested' /\ Alone(p) /\ pc'[p] = "draft" /\ req'[p] = r
  BY <1>1, <1>2, <1>3, <1>4, AssetGoto
<1> QED
  BY <1>3, <1>5

(* Where UploadResume takes a request, and what it leaves alone.           *)
LEMMA UploadResumeFormed ==
    ASSUME Sides, Requested, NEW p \in Procs, UploadResume(p)
    PROVE  /\ Requested' /\ Alone(p) /\ part = "resume" /\ pc[p] = "idle" /\ pc'[p] = "draft"
           /\ req'[p].op = "custom" /\ req'[p].source = drawn + 1 /\ req'[p].seen = {}
           /\ files' = files \cup {drawn + 1} /\ drawn' = drawn + 1
           /\ murky' = (murky \/ Doing("unasset") # {})
           /\ UNCHANGED <<part, jobVars, assets, asked, torn>>
<1> DEFINE r == [NoReq EXCEPT !.op = "custom", !.source = drawn + 1]
<1>1. /\ Goto(p, "draft", r) /\ part = "resume" /\ pc[p] = "idle"
      /\ files' = files \cup {drawn + 1} /\ drawn' = drawn + 1
      /\ murky' = (murky \/ Doing("unasset") # {})
      /\ UNCHANGED <<part, jobVars, assets, asked, torn>>
  BY DEF UploadResume, Begin, Write
<1>2. drawn + 1 \in Nat /\ "custom" \in Ops /\ drawn \in Nat
  BY DEF Sides, Ops
<1>3. r \in ReqSet /\ r.new = 0 /\ r.source = drawn + 1 /\ r.seen = {} /\ r.op = "custom"
  BY <1>2, NoReqIs DEF ReqSet
<1> HIDE DEF r
<1>4. Sighted(r, "resume", drawn') /\ ResumeReq("draft", r)
  BY <1>2, <1>3 DEF Sighted, ResumeReq
<1>5. "draft" \in ResumeSteps /\ kitOf' = kitOf
  BY <1>1 DEF ResumeSteps, jobVars
<1>6. Requested' /\ Alone(p) /\ pc'[p] = "draft" /\ req'[p] = r
  BY <1>1, <1>2, <1>3, <1>4, <1>5, AssetGoto
<1> QED
  BY <1>1, <1>3, <1>6

(* Where WriteDraft takes a request, and what it leaves alone.             *)
LEMMA WriteDraftFormed ==
    ASSUME Sides, Requested, NEW p \in Procs, WriteDraft(p)
    PROVE  /\ Requested' /\ Alone(p) /\ part = "resume" /\ pc[p] = "draft"
           /\ \/ /\ pc'[p] = "variant" /\ req'[p].new = drawn + 1
                 /\ req'[p].source = req[p].source /\ req'[p].op = req[p].op
                 /\ req'[p].seen = req[p].seen
                 /\ files' = files \cup {drawn + 1} /\ drawn' = drawn + 1
              \/ /\ pc'[p] = "idle" /\ req'[p] = NoReq
                 /\ files' = files \ {req[p].source} /\ drawn' = drawn
           /\ UNCHANGED <<part, jobVars, assets, asked, torn, murky>>
<1>1. /\ pc[p] = "draft" /\ UNCHANGED <<part, jobVars, assets, asked, torn, murky>>
  BY DEF WriteDraft
<1>2. part = "resume" /\ kitOf' = kitOf /\ part' = part /\ drawn \in Nat
  BY <1>1, AssetSide DEF ResumeSteps, jobVars, Sides
<1>3. Formed(pc[p], req[p], part, drawn, DOMAIN kitOf)
  BY DEF Requested
<1>4. CASE Write /\ Goto(p, "variant", [req[p] EXCEPT !.new = drawn + 1])
  <2> DEFINE r == [req[p] EXCEPT !.new = drawn + 1]
  <2>1. Goto(p, "variant", r) /\ files' = files \cup {drawn + 1} /\ drawn' = drawn + 1
    BY <1>4 DEF Write
  <2>2. req[p] \in ReqSet
    BY <1>3 DEF Formed
  <2>3. /\ r \in ReqSet /\ r.new = drawn + 1 /\ r.source = req[p].source /\ r.op = req[p].op
        /\ r.seen = req[p].seen
    BY <2>2, <1>2 DEF ReqSet
  <2> HIDE DEF r
  <2>4. Sighted(r, "resume", drawn')
    BY <1>2, <1>3, <2>1, <2>3 DEF Formed, Sighted
  <2>5. ResumeReq("variant", r)
    BY <1>1, <1>3, <2>3 DEF Formed, ResumeReq
  <2>6. r.new \in 0 .. drawn' /\ r.source \in 0 .. drawn' /\ r.new # 0 /\ "variant" \in ResumeSteps
    BY <1>2, <1>3, <2>1, <2>3 DEF Formed, ResumeSteps
  <2>7. Requested' /\ Alone(p) /\ pc'[p] = "variant" /\ req'[p] = r
    BY <1>2, <2>1, <2>3, <2>4, <2>5, <2>6, AssetGoto
  <2> QED
    BY <1>1, <1>2, <2>1, <2>3, <2>7
<1>5. CASE files' = files \ {req[p].source} /\ UNCHANGED drawn /\ Done(p)
  <2>1. Requested' /\ pc'[p] = "idle" /\ req'[p] = NoReq /\ Alone(p)
    BY <1>2, <1>5, DoneFormed DEF Alone
  <2> QED
    BY <1>1, <1>2, <1>5, <2>1
<1> QED
  BY <1>4, <1>5 DEF WriteDraft

(* The next id of a document is above those in use.                        *)
LEMMA NextIs ==
    ASSUME Sides, Assets
    PROVE  /\ NextAsset \in 1 .. drawn + 1 /\ \A a \in assets : a.id \in Nat /\ a.id < NextAsset
           /\ NextAsset = 1 \/ \E a \in assets : NextAsset = a.id + 1
<1> DEFINE ids == {a.id : a \in assets}
<1>1. drawn \in Nat /\ ids \subseteq 0 .. drawn
  BY DEF Sides, Assets
<1>2. NextAsset = Highest(ids) + 1
  BY DEF NextAsset
<1> HIDE DEF ids
<1>3. Highest(ids) \in 0 .. drawn /\ Highest(ids) \in {0} \cup ids /\ \A y \in ids : y <= Highest(ids)
  BY <1>1, HighestIs
<1>4. \A y \in ids : y \in Nat /\ y < NextAsset
  BY <1>1, <1>2, <1>3
<1>5. NextAsset \in 1 .. drawn + 1 /\ (NextAsset = 1 \/ \E y \in ids : NextAsset = y + 1)
  BY <1>1, <1>2, <1>3
<1> QED
  BY <1>4, <1>5 DEF ids

(* Where VariantDone takes a request, and what it leaves alone.            *)
LEMMA VariantDoneFormed ==
    ASSUME Sides, Assets, Requested, NEW p \in Procs, VariantDone(p)
    PROVE  /\ Requested' /\ Alone(p) /\ part = "resume" /\ pc[p] = "variant"
           /\ \/ /\ pc'[p] = "source" /\ req[p].op = "custom" /\ req'[p].asset = NextAsset
                 /\ req'[p].source = req[p].source /\ req'[p].seen = req[p].seen
              \/ pc'[p] = "idle" /\ req'[p] = NoReq /\ req[p].op = "draft"
           /\ assets' = Demoted \cup {Asset(req[p].new, TRUE, TRUE)}
           /\ UNCHANGED <<part, files, drawn, jobVars, asked, torn, murky>>
<1>1. /\ pc[p] = "variant" /\ UNCHANGED <<part, files, drawn, jobVars, asked, torn, murky>>
      /\ assets' = Demoted \cup {Asset(req[p].new, TRUE, TRUE)}
  BY DEF VariantDone
<1>2. part = "resume" /\ kitOf' = kitOf /\ part' = part /\ drawn \in Nat /\ drawn' = drawn
  BY <1>1, AssetSide DEF ResumeSteps, jobVars, Sides
<1>3. Formed(pc[p], req[p], part, drawn, DOMAIN kitOf)
  BY DEF Requested
<1>4. req[p].op \in {"custom", "draft"} /\ (req[p].op = "custom" <=> req[p].source # 0)
  BY <1>1, <1>3 DEF Formed, ResumeReq
<1>5. CASE req[p].op = "custom"
  <2> DEFINE r == [req[p] EXCEPT !.asset = NextAsset]
  <2>1. Goto(p, "source", r)
    BY <1>5 DEF VariantDone
  <2>2. req[p] \in ReqSet /\ NextAsset \in Nat
    BY <1>2, <1>3, NextIs DEF Formed
  <2>3. /\ r \in ReqSet /\ r.asset = NextAsset /\ r.source = req[p].source /\ r.op = req[p].op
        /\ r.seen = req[p].seen /\ r.new = req[p].new
    BY <2>2 DEF ReqSet
  <2> HIDE DEF r
  <2>4. Sighted(r, "resume", drawn')
    BY <1>2, <1>3, <2>3 DEF Formed, Sighted
  <2>5. ResumeReq("source", r)
    BY <1>4, <1>5, <2>3 DEF ResumeReq
  <2>6. r.new \in 0 .. drawn' /\ r.source \in 0 .. drawn' /\ "source" \in ResumeSteps
    BY <1>2, <1>3, <2>3 DEF Formed, ResumeSteps
  <2>7. Requested' /\ Alone(p) /\ pc'[p] = "source" /\ req'[p] = r
    BY <1>2, <2>1, <2>3, <2>4, <2>5, <2>6, AssetGoto
  <2> QED
    BY <1>1, <1>2, <1>5, <2>3, <2>7
<1>6. CASE req[p].op # "custom"
  <2>1. Done(p)
    BY <1>6 DEF VariantDone
  <2>2. Requested' /\ pc'[p] = "idle" /\ req'[p] = NoReq /\ Alone(p)
    BY <1>2, <2>1, DoneFormed DEF Alone
  <2> QED
    BY <1>1, <1>2, <1>4, <1>6, <2>2
<1> QED
  BY <1>5, <1>6

(* Where Promote takes a request, and what it leaves alone.                *)
LEMMA PromoteFormed ==
    ASSUME Sides, Assets, Requested, NEW p \in Procs, Promote(p)
    PROVE  /\ Requested' /\ Alone(p) /\ part = "resume" /\ pc[p] = "idle" /\ pc'[p] = "promote"
           /\ req'[p].seen = {} /\ \E a \in Resumes : a.id = req'[p].asset
           /\ murky' = (murky \/ Doing("unasset") # {})
           /\ UNCHANGED <<part, files, drawn, jobVars, assets, asked, torn>>
<1>1. PICK a \in Resumes : Promote(p)!(a)
  BY DEF Promote
<1> DEFINE r == [NoReq EXCEPT !.op = "promote", !.asset = a.id]
<1>2. /\ Goto(p, "promote", r) /\ part = "resume" /\ pc[p] = "idle"
      /\ murky' = (murky \/ Doing("unasset") # {})
      /\ UNCHANGED <<part, files, drawn, jobVars, assets, asked, torn>>
  BY <1>1 DEF Begin
<1>3. drawn \in Nat /\ "promote" \in Ops /\ a.id \in Nat
  BY NextIs DEF Sides, Ops, Resumes
<1>4. r \in ReqSet /\ r.new = 0 /\ r.source = 0 /\ r.seen = {} /\ r.op = "promote" /\ r.asset = a.id
  BY <1>3, NoReqIs DEF ReqSet
<1> HIDE DEF r
<1>5. Sighted(r, "resume", drawn') /\ ResumeReq("promote", r)
  BY <1>4 DEF Sighted, ResumeReq
<1>6. "promote" \in ResumeSteps /\ kitOf' = kitOf /\ drawn' = drawn /\ part' = part
  BY <1>2 DEF ResumeSteps, jobVars
<1>7. Requested' /\ Alone(p) /\ pc'[p] = "promote" /\ req'[p] = r
  BY <1>2, <1>3, <1>4, <1>5, <1>6, AssetGoto
<1> QED
  BY <1>2, <1>4, <1>7

(* Where DeleteAsset takes a request, and what it leaves alone.            *)
LEMMA DeleteAssetFormed ==
    ASSUME Sides, Assets, Requested, NEW p \in Procs, DeleteAsset(p)
    PROVE  /\ Requested' /\ Alone(p) /\ part = "resume" /\ pc[p] = "idle" /\ pc'[p] = "unlink"
           /\ \E a \in assets : /\ req'[p].asset = a.id /\ req'[p].seen = {a}
                                /\ req'[p].base = (a.resume /\ a.base)
           /\ murky' = (murky \/ Doing("unasset") \cup Doing("promote") \cup Doing("custom") # {})
           /\ UNCHANGED <<part, files, drawn, jobVars, assets, torn>> /\ asked \subseteq asked'
<1>1. PICK a \in assets : DeleteAsset(p)!(a)
  BY DEF DeleteAsset
<1> DEFINE b == a.resume /\ a.base
           r == [NoReq EXCEPT !.op = "unasset", !.asset = a.id, !.seen = {a}, !.base = b]
<1>2. /\ Goto(p, "unlink", r) /\ part = "resume" /\ pc[p] = "idle"
      /\ murky' = (murky \/ Doing("unasset") \cup Doing("promote") \cup Doing("custom") # {})
      /\ UNCHANGED <<part, files, drawn, jobVars, assets, torn>> /\ asked \subseteq asked'
  BY <1>1 DEF Begin
<1>3. /\ drawn \in Nat /\ "unasset" \in Ops /\ a.id \in Nat /\ a \in AssetSet
      /\ a.file \in 1 .. drawn /\ a.source \in 0 .. drawn
  BY NextIs DEF Sides, Ops, Assets
<1>4. b \in BOOLEAN
  BY <1>3 DEF AssetSet
<1> HIDE DEF b
<1>5. r \in ReqSet /\ r.new = 0 /\ r.source = 0
  BY <1>3, <1>4, NoReqIs DEF ReqSet
<1>6. r.seen = {a} /\ r.op = "unasset" /\ r.asset = a.id /\ r.base = b
  BY NoReqIs DEF ReqSet
<1> HIDE DEF r
<1>7. drawn' = drawn /\ part' = part /\ kitOf' = kitOf /\ "unlink" \in ResumeSteps
  BY <1>2 DEF ResumeSteps, jobVars
<1>8. Sighted(r, "resume", drawn')
  BY <1>3, <1>6, <1>7 DEF Sighted
<1>9. ResumeReq("unlink", r)
  BY <1>6 DEF ResumeReq
<1>10. Requested' /\ Alone(p) /\ pc'[p] = "unlink" /\ req'[p] = r
  BY <1>2, <1>3, <1>5, <1>7, <1>8, <1>9, AssetGoto
<1> QED
  BY <1>2, <1>6, <1>10 DEF b

(* Where Unlink takes a request, and what it leaves alone.                 *)
LEMMA UnlinkFormed ==
    ASSUME Sides, Requested, NEW p \in Procs, Unlink(p)
    PROVE  /\ Requested' /\ Alone(p) /\ part = "resume" /\ pc[p] = "unlink" /\ pc'[p] = "unasset"
           /\ req'[p] = req[p] /\ files' = files \ Unlinked(p)
           /\ UNCHANGED <<part, drawn, jobVars, assets, asked, torn, murky>>
<1>1. /\ pc[p] = "unlink" /\ files' = files \ Unlinked(p) /\ Goto(p, "unasset", req[p])
      /\ UNCHANGED <<part, drawn, jobVars, assets, asked, torn, murky>>
  BY DEF Unlink
<1>2. /\ part = "resume" /\ kitOf' = kitOf /\ part' = part /\ drawn \in Nat /\ drawn' = drawn
      /\ "unasset" \in ResumeSteps
  BY <1>1, AssetSide DEF ResumeSteps, jobVars, Sides
<1>3. Formed(pc[p], req[p], part, drawn, DOMAIN kitOf)
  BY DEF Requested
<1>4. ResumeReq("unasset", req[p]) /\ Sighted(req[p], "resume", drawn')
  BY <1>1, <1>2, <1>3 DEF Formed, ResumeReq
<1>5. req[p] \in ReqSet /\ req[p].new \in 0 .. drawn' /\ req[p].source \in 0 .. drawn'
  BY <1>2, <1>3 DEF Formed
<1>6. Requested' /\ Alone(p) /\ pc'[p] = "unasset" /\ req'[p] = req[p]
  BY <1>1, <1>2, <1>4, <1>5, AssetGoto
<1> QED
  BY <1>1, <1>2, <1>6

(* After the deletion of a base its successor is chosen. *)
LEMMA SucceedFormed ==
    ASSUME Sides, Requested, NEW p \in Procs, pc[p] = "unasset", part = "resume",
           Goto(p, "succeed", [req[p] EXCEPT !.seen = {}]),
           part' = part, drawn' = drawn, kitOf' = kitOf
    PROVE  Requested' /\ Alone(p) /\ pc'[p] = "succeed" /\ req'[p].seen = {}
<1> DEFINE r == [req[p] EXCEPT !.seen = {}]
<1>1. Goto(p, "succeed", r)
  OBVIOUS
<1>2. Formed(pc[p], req[p], part, drawn, DOMAIN kitOf) /\ drawn \in Nat
  BY DEF Requested, Sides
<1>3. req[p] \in ReqSet
  BY <1>2 DEF Formed
<1>4. r \in ReqSet /\ r.seen = {} /\ r.op = req[p].op /\ r.new = req[p].new /\ r.source = req[p].source
  BY <1>3 DEF ReqSet
<1> HIDE DEF r
<1>5. ResumeReq("succeed", r) /\ Sighted(r, "resume", drawn')
  BY <1>2, <1>4 DEF Formed, ResumeReq, Sighted
<1>6. r.new \in 0 .. drawn' /\ r.source \in 0 .. drawn' /\ "succeed" \in ResumeSteps
  BY <1>2, <1>4 DEF Formed, ResumeSteps
<1>7. Requested' /\ Alone(p) /\ pc'[p] = "succeed" /\ req'[p] = r
  BY <1>1, <1>2, <1>4, <1>5, <1>6, AssetGoto
<1> QED
  BY <1>4, <1>7

(* Where UnassetDone takes a request, and what it leaves alone.            *)
LEMMA UnassetDoneFormed ==
    ASSUME Sides, Requested, NEW p \in Procs, UnassetDone(p)
    PROVE  /\ Requested' /\ Alone(p) /\ part = "resume" /\ pc[p] = "unasset"
           /\ \/ pc'[p] = "succeed" /\ req'[p].seen = {} /\ req[p].base
              \/ pc'[p] = "idle" /\ req'[p] = NoReq /\ ~req[p].base
           /\ assets' = {a \in assets : a.id # req[p].asset}
           /\ UNCHANGED <<part, files, drawn, jobVars, asked, torn, murky>>
<1>1. /\ pc[p] = "unasset" /\ assets' = {a \in assets : a.id # req[p].asset}
      /\ UNCHANGED <<part, files, drawn, jobVars, asked, torn, murky>>
  BY DEF UnassetDone
<1>2. part = "resume" /\ kitOf' = kitOf /\ part' = part /\ drawn' = drawn
  BY <1>1, AssetSide DEF ResumeSteps, jobVars
<1>3. CASE req[p].base
  <2>1. Goto(p, "succeed", [req[p] EXCEPT !.seen = {}])
    BY <1>3 DEF UnassetDone
  <2>2. Requested' /\ Alone(p) /\ pc'[p] = "succeed" /\ req'[p].seen = {}
    BY <2>1, <1>1, <1>2, SucceedFormed
  <2> QED
    BY <2>2, <1>1, <1>2, <1>3
<1>4. CASE ~req[p].base
  <2>1. Done(p)
    BY <1>4 DEF UnassetDone
  <2>2. Requested' /\ pc'[p] = "idle" /\ req'[p] = NoReq /\ Alone(p)
    BY <1>2, <2>1, DoneFormed DEF Alone
  <2> QED
    BY <2>2, <1>1, <1>2, <1>4
<1> QED
  BY <1>3, <1>4

(* Where AssetDone takes a request, and what it leaves alone.              *)
LEMMA AssetDoneFormed ==
    ASSUME Sides, Requested, NEW p \in Procs, AssetDone(p)
    PROVE  /\ Requested' /\ Alone(p) /\ part = "resume" /\ pc[p] = "asset"
           /\ \/ /\ pc'[p] = "draft" /\ req'[p].source = 0 /\ req'[p].seen = {} /\ req'[p].op = "draft"
              \/ pc'[p] = "idle" /\ req'[p] = NoReq
           /\ assets' = assets \cup {Asset(req[p].new, FALSE, FALSE)}
           /\ UNCHANGED <<part, files, drawn, jobVars, asked, torn, murky>>
<1>1. /\ pc[p] = "asset" /\ assets' = assets \cup {Asset(req[p].new, FALSE, FALSE)}
      /\ UNCHANGED <<part, files, drawn, jobVars, asked, torn, murky>>
      /\ Goto(p, "draft", [NoReq EXCEPT !.op = "draft"]) \/ Done(p)
  BY DEF AssetDone
<1>2. part = "resume" /\ kitOf' = kitOf /\ part' = part /\ drawn' = drawn
  BY <1>1, AssetSide DEF ResumeSteps, jobVars
<1>3. CASE Goto(p, "draft", [NoReq EXCEPT !.op = "draft"])
  BY <1>1, <1>2, <1>3, DraftFormed
<1>4. CASE Done(p)
  <2>1. Requested' /\ pc'[p] = "idle" /\ req'[p] = NoReq /\ Alone(p)
    BY <1>2, <1>4, DoneFormed DEF Alone
  <2> QED
    BY <2>1, <1>1, <1>2
<1> QED
  BY <1>1, <1>3, <1>4

(* Where a request that is aborted, or whose commit is lost, goes on the   *)
(* resume side.                                                            *)
LEMMA AssetFaultFormed ==
    ASSUME Sides, Requested, NEW p \in Procs, part = "resume", Abort(p) \/ CommitsNothing(p)
    PROVE  /\ Requested' /\ Alone(p)
           /\ \/ pc'[p] = "idle" /\ req'[p] = NoReq
              \/ pc[p] = "unasset" /\ pc'[p] = "succeed" /\ req'[p].seen = {}
           /\ torn' = torn \cup Removed(p) /\ murky' = TRUE
           /\ UNCHANGED <<part, files, drawn, jobs, postings, rows, kitOf, uploaded, recycled, assets,
                          asked>>
<1>1. /\ torn' = torn \cup Removed(p) /\ murky' = TRUE
      /\ UNCHANGED <<part, files, drawn, jobs, postings, rows, kitOf, uploaded, recycled, assets, asked>>
  BY DEF Abort, CommitsNothing, Faulty
<1>2. pc[p] \notin {"text", "attach"}
  BY StepOfSide DEF JobSteps
<1>3. CASE Done(p)
  <2>1. Requested' /\ pc'[p] = "idle" /\ req'[p] = NoReq /\ Alone(p)
    BY <1>1, <1>3, DoneFormed DEF Alone
  <2> QED
    BY <2>1, <1>1
<1>4. CASE pc[p] = "unasset" /\ Goto(p, "succeed", [req[p] EXCEPT !.seen = {}])
  <2>1. Requested' /\ Alone(p) /\ pc'[p] = "succeed" /\ req'[p].seen = {}
    BY <1>1, <1>4, SucceedFormed
  <2> QED
    BY <2>1, <1>1, <1>4
<1>5. Done(p) \/ (pc[p] = "unasset" /\ Goto(p, "succeed", [req[p] EXCEPT !.seen = {}]))
  <2>1. CASE Abort(p)
    BY <2>1 DEF Abort
  <2>2. CASE CommitsNothing(p) /\ pc[p] = "unasset" /\ req[p].base
    BY <2>2 DEF CommitsNothing
  <2>3. CASE CommitsNothing(p) /\ ~(pc[p] = "unasset" /\ req[p].base)
    BY <2>3, <1>2 DEF CommitsNothing
  <2> QED
    BY <2>1, <2>2, <2>3
<1> QED
  BY <1>3, <1>4, <1>5

(***************************************************************************)
(* The candidate's documents and their files                               *)
(***************************************************************************)
(* The files a request has written and no row names yet; those of the rows *)
(* it read; those it has removed whose row it has still to delete.         *)
Own(step, r) == (IF step \in {"asset", "variant"} THEN {r.new} ELSE {})
                \cup (IF step \in {"draft", "variant", "source"} THEN {r.source} \ {0} ELSE {})
Held(r) == UNION {FilesOf(s) : s \in r.seen}
Away(step, r) == IF step = "unasset" THEN Held(r) ELSE {}

OwnFresh ==
    /\ \A p \in Procs : \A f \in Own(pc[p], req[p]) : f \in files /\ \A a \in assets : f \notin FilesOf(a)
    /\ \A p, q \in Procs : \A f \in Own(pc[p], req[p]) : f \notin Held(req[q])
    /\ \A p, q \in Procs : \A f \in Own(pc[p], req[p]) : f \in Own(pc[q], req[q]) => p = q
    /\ \A p \in Procs : pc[p] = "variant" => req[p].new # req[p].source

AssetsApart ==
    /\ \A a, b \in assets : \A f \in FilesOf(a) : f \in FilesOf(b) => a = b
    /\ \A a \in assets : a.file # a.source
    /\ \A p \in Procs : pc[p] \in {"unlink", "unasset"} =>
          \A f \in Held(req[p]) : \A b \in assets : f \in FilesOf(b) => b.id = req[p].asset

AwayGone == \A p \in Procs : \A f \in Away(pc[p], req[p]) : f \notin files

AssetsKept == \A a \in assets : \A f \in FilesOf(a) :
    f \in files \cup torn \/ \E p \in Procs : f \in Away(pc[p], req[p])

AssetsLeft == ~murky => \A f \in files : \/ \E a \in assets : f \in FilesOf(a)
                                         \/ \E p \in Procs : f \in Own(pc[p], req[p])

AssetFiles == OwnFresh /\ AssetsApart /\ AwayGone /\ AssetsKept /\ AssetsLeft

(* What one step of a request does to the documents and their files. *)
NamesMove(p) ==
    /\ drawn' \in {drawn, drawn + 1}
    /\ \A f \in files' : f \in files \/ (f = drawn + 1 /\ drawn' = drawn + 1)
    /\ \A f \in files : \/ f \in files' \/ (f \in Away(pc'[p], req'[p]) /\ f \in Held(req[p]))
                        \/ (f \in Own(pc[p], req[p]) \ Own(pc'[p], req'[p]) /\ assets' = assets)
    /\ drawn' = drawn + 1 => drawn + 1 \in Own(pc'[p], req'[p])

OwnMoves(p) ==
    /\ \A f \in Own(pc'[p], req'[p]) : f \in files' /\ (f \in Own(pc[p], req[p]) \/ f = drawn + 1)
    /\ pc'[p] = "variant" => req'[p].new # req'[p].source

HeldMoves(p) ==
    /\ \A f \in Held(req'[p]) : f \in Held(req[p]) \/ \E a \in assets : f \in FilesOf(a)
    /\ \A f \in Away(pc'[p], req'[p]) : f \in Away(pc[p], req[p]) \/ f \notin files'
    /\ \A f \in Away(pc[p], req[p]) : \/ f \in Away(pc'[p], req'[p]) \cup torn'
                                      \/ \A b \in assets' : f \notin FilesOf(b)
    /\ pc'[p] \in {"unlink", "unasset"} =>
          \/ pc[p] \in {"unlink", "unasset"} /\ req'[p] = req[p]
          \/ \E a \in assets : req'[p].seen = {a} /\ a.id = req'[p].asset /\ assets' = assets

AssetsMove(p) ==
    /\ \A b \in assets' : b \in AssetSet /\ b.file # 0 /\ b.file # b.source
    /\ \A b, c \in assets' : b.id = c.id => b = c
    /\ \A b \in assets' : \A f \in FilesOf(b) :
          \/ \E a \in assets : a.id = b.id /\ f \in FilesOf(a)
          \/ f \in Own(pc[p], req[p]) \ Own(pc'[p], req'[p]) /\ f \in files'
    /\ \A b, c \in assets' : \A f \in Own(pc[p], req[p]) : f \in FilesOf(b) /\ f \in FilesOf(c) => b.id = c.id
    /\ \A b \in assets' : \/ \E a \in assets : a.id = b.id
                          \/ b.id = NextAsset /\ pc[p] \in {"asset", "variant"}

LeftMoves(p) == ~murky' =>
    /\ ~murky
    /\ \A a \in assets : \A f \in FilesOf(a) : f \notin files' \/ \E b \in assets' : f \in FilesOf(b)
    /\ \A f \in Own(pc[p], req[p]) : \/ f \notin files' \/ f \in Own(pc'[p], req'[p])
                                     \/ \E b \in assets' : f \in FilesOf(b)

AssetMove(p) ==
    /\ Alone(p) /\ Requested' /\ part = "resume"
    /\ UNCHANGED <<part, jobs, postings, rows, kitOf, uploaded, recycled>>
    /\ pc'[p] \in {"asset", "variant"} => drawn' = drawn + 1 /\ req'[p].new = drawn + 1
    /\ torn \subseteq torn' /\ murky' \in BOOLEAN
    /\ NamesMove(p) /\ OwnMoves(p) /\ HeldMoves(p) /\ AssetsMove(p) /\ LeftMoves(p)

(* The file names in use have been drawn, so the next one is new.          *)
LEMMA NamesDrawn ==
    ASSUME Sides, Tables, Assets, Requested, AssetFiles, part = "resume"
    PROVE  /\ drawn \in Nat /\ drawn + 1 \notin 1 .. drawn /\ \A f \in files : f \in 1 .. drawn
           /\ \A p \in Procs : \A f \in Own(pc[p], req[p]) : f \in 1 .. drawn
           /\ \A p \in Procs : \A f \in Held(req[p]) : f \in 1 .. drawn
           /\ \A a \in assets : \A f \in FilesOf(a) : f \in 1 .. drawn
<1>1. drawn \in Nat /\ files \subseteq 1 .. drawn
  BY DEF Sides, Tables
<1>2. \A p \in Procs : \A f \in Own(pc[p], req[p]) : f \in files
  BY DEF AssetFiles, OwnFresh
<1>3. \A p \in Procs : \A s \in req[p].seen : s.file \in 1 .. drawn /\ s.source \in 0 .. drawn
  BY DEF Requested, Formed, Sighted
<1>4. ASSUME NEW p \in Procs, NEW f \in Held(req[p]) PROVE f \in 1 .. drawn
  <2>1. PICK s \in req[p].seen : f \in FilesOf(s)
    BY <1>4 DEF Held
  <2> QED
    BY <2>1, <1>1, <1>3 DEF FilesOf
<1>5. \A a \in assets : \A f \in FilesOf(a) : f \in 1 .. drawn
  BY <1>1 DEF Assets, FilesOf
<1>6. drawn + 1 \notin 1 .. drawn
  BY <1>1
<1> QED
  BY <1>1, <1>2, <1>4, <1>5, <1>6

(* A step keeps the files that requests have written apart.                *)
LEMMA OwnFreshKept ==
    ASSUME Sides, Tables, Assets, Requested, AssetFiles, NEW p \in Procs, AssetMove(p)
    PROVE  OwnFresh'
<1> DEFINE Old(q) == Own(pc[q], req[q])
           New(q) == Own(pc'[q], req'[q])
           Then(q) == Held(req[q])
           Now(q) == Held(req'[q])
<1>0. part = "resume" /\ Alone(p)
  BY DEF AssetMove
<1>1. \A q \in Procs : q # p => New(q) = Old(q) /\ Now(q) = Then(q) /\ pc'[q] = pc[q] /\ req'[q] = req[q]
  BY <1>0 DEF Alone
<1>2. /\ drawn + 1 \notin 1 .. drawn
      /\ \A q \in Procs : \A f \in Old(q) : f \in 1 .. drawn
      /\ \A q \in Procs : \A f \in Then(q) : f \in 1 .. drawn
      /\ \A a \in assets : \A f \in FilesOf(a) : f \in 1 .. drawn
  BY NamesDrawn, <1>0
<1>3. /\ \A f \in New(p) : f \in files' /\ (f \in Old(p) \/ f = drawn + 1)
      /\ pc'[p] = "variant" => req'[p].new # req'[p].source
  BY DEF AssetMove, OwnMoves
<1>4. /\ \A q \in Procs : \A f \in Old(q) : f \in files /\ \A a \in assets : f \notin FilesOf(a)
      /\ \A q, w \in Procs : \A f \in Old(q) : f \notin Then(w)
      /\ \A q, w \in Procs : \A f \in Old(q) : f \in Old(w) => q = w
      /\ \A q \in Procs : pc[q] = "variant" => req[q].new # req[q].source
  BY DEF AssetFiles, OwnFresh
<1>5. \A f \in files : f \in files' \/ f \in Then(p) \/ f \in Old(p) \ New(p)
  BY DEF AssetMove, NamesMove
<1>6. \A f \in Now(p) : f \in Then(p) \/ \E a \in assets : f \in FilesOf(a)
  BY DEF AssetMove, HeldMoves
<1>7. \A b \in assets' : \A f \in FilesOf(b) : \/ \E a \in assets : f \in FilesOf(a)
                                               \/ f \in Old(p) \ New(p)
  BY DEF AssetMove, AssetsMove
<1> HIDE DEF Old, New, Then, Now
<1>8. \A q \in Procs : \A f \in New(q) : f \in files'
  <2>1. ASSUME NEW q \in Procs, NEW f \in New(q), q # p PROVE f \in files'
    BY <2>1, <1>1, <1>4, <1>5
  <2> QED
    BY <2>1, <1>3
<1>9. \A q \in Procs : \A f \in New(q) : \A b \in assets' : f \notin FilesOf(b)
  <2>1. ASSUME NEW q \in Procs, NEW f \in New(q), NEW b \in assets', f \in FilesOf(b) PROVE FALSE
    <3>1. CASE \E a \in assets : f \in FilesOf(a)
      BY <2>1, <3>1, <1>1, <1>2, <1>3, <1>4
    <3>2. CASE f \in Old(p) \ New(p)
      BY <2>1, <3>2, <1>1, <1>4
    <3> QED
      BY <2>1, <3>1, <3>2, <1>7
  <2> QED
    BY <2>1
<1>10. \A q, w \in Procs : \A f \in New(q) : f \notin Now(w)
  <2>1. \A q \in Procs : \A f \in New(q) : f \in Old(q) \/ f \notin 1 .. drawn
    BY <1>1, <1>2, <1>3
  <2>2. \A w \in Procs : \A f \in Now(w) : f \in Then(w) \/ \E a \in assets : f \in FilesOf(a)
    BY <1>1, <1>6
  <2> QED
    BY <2>1, <2>2, <1>2, <1>4
<1>11. \A q, w \in Procs : \A f \in New(q) : f \in New(w) => q = w
  BY <1>1, <1>2, <1>3, <1>4
<1>12. \A q \in Procs : pc'[q] = "variant" => req'[q].new # req'[q].source
  BY <1>1, <1>3, <1>4
<1> QED
  BY <1>8, <1>9, <1>10, <1>11, <1>12 DEF OwnFresh, New, Now

(* A step that moves documents and files as AssetMove says keeps what      *)
(* holds of them.                                                          *)
LEMMA AssetFilesKept ==
    ASSUME Sides, Tables, Assets, Requested, AssetFiles, NEW p \in Procs, AssetMove(p)
    PROVE  AssetFiles' /\ Tables' /\ drawn' \in Nat
<1> DEFINE Old(q) == Own(pc[q], req[q])
           New(q) == Own(pc'[q], req'[q])
           Then(q) == Held(req[q])
           Now(q) == Held(req'[q])
           Out(q) == Away(pc[q], req[q])
           Gone(q) == Away(pc'[q], req'[q])
           Unlinking(q) == pc[q] \in {"unlink", "unasset"}
<1>0. part = "resume" /\ Alone(p)
  BY DEF AssetMove
<1>1. \A q \in Procs : q # p => /\ New(q) = Old(q) /\ Now(q) = Then(q) /\ Gone(q) = Out(q)
                                /\ pc'[q] = pc[q] /\ req'[q] = req[q]
  BY <1>0 DEF Alone
<1>2. /\ drawn \in Nat /\ drawn + 1 \notin 1 .. drawn /\ \A f \in files : f \in 1 .. drawn
      /\ \A q \in Procs : \A f \in Old(q) : f \in 1 .. drawn
      /\ \A q \in Procs : \A f \in Then(q) : f \in 1 .. drawn
      /\ \A a \in assets : \A f \in FilesOf(a) : f \in 1 .. drawn
  BY NamesDrawn, <1>0
<1>3. /\ drawn' \in Nat /\ 1 .. drawn \subseteq 1 .. drawn'
      /\ \A f \in files' : f \in files \/ (f = drawn + 1 /\ f \in 1 .. drawn' /\ f \in New(p))
      /\ \A f \in files : \/ f \in files' \/ (f \in Gone(p) /\ f \in Then(p))
                          \/ (f \in Old(p) \ New(p) /\ assets' = assets)
  BY <1>2 DEF AssetMove, NamesMove
<1>4. \A q, w \in Procs : \A f \in Old(q) : /\ f \in files /\ \A a \in assets : f \notin FilesOf(a)
                                            /\ f \notin Then(w)
  BY DEF AssetFiles, OwnFresh
<1>5. /\ \A f \in Now(p) : f \in Then(p) \/ \E a \in assets : f \in FilesOf(a)
      /\ \A f \in Gone(p) : f \in Out(p) \/ f \notin files'
      /\ \A f \in Out(p) : f \in Gone(p) \cup torn' \/ \A b \in assets' : f \notin FilesOf(b)
  BY DEF AssetMove, HeldMoves
<1>6. /\ \A b, c \in assets' : b.id = c.id => b = c
      /\ \A b \in assets' : \A f \in FilesOf(b) :
            \/ \E a \in assets : a.id = b.id /\ f \in FilesOf(a)
            \/ f \in Old(p) \ New(p) /\ f \in files'
      /\ \A b, c \in assets' : \A f \in Old(p) : f \in FilesOf(b) /\ f \in FilesOf(c) => b.id = c.id
      /\ \A b \in assets' : b.file # b.source
  BY DEF AssetMove, AssetsMove
<1>7. /\ \A a, b \in assets : \A f \in FilesOf(a) : f \in FilesOf(b) => a = b
      /\ \A q \in Procs : Unlinking(q) =>
            \A f \in Then(q) : \A b \in assets : f \in FilesOf(b) => b.id = req[q].asset
  BY DEF AssetFiles, AssetsApart
<1>8. \A q \in Procs : \A f \in Out(q) : f \notin files /\ f \in Then(q)
  BY DEF AssetFiles, AwayGone, Away
<1>9. \A a \in assets : \A f \in FilesOf(a) : f \in files \cup torn \/ \E q \in Procs : f \in Out(q)
  BY DEF AssetFiles, AssetsKept
<1>10. \/ ~(pc'[p] \in {"unlink", "unasset"})
       \/ Unlinking(p) /\ req'[p] = req[p] /\ Now(p) = Then(p)
       \/ \E a \in assets : req'[p].seen = {a} /\ a.id = req'[p].asset /\ assets' = assets
  BY DEF AssetMove, HeldMoves
<1>11. ~murky' =>
          /\ ~murky
          /\ \A a \in assets : \A f \in FilesOf(a) : f \notin files' \/ \E b \in assets' : f \in FilesOf(b)
          /\ \A f \in Old(p) : f \notin files' \/ f \in New(p) \/ \E b \in assets' : f \in FilesOf(b)
  BY DEF AssetMove, LeftMoves
<1>12. ~murky => \A f \in files : \/ \E a \in assets : f \in FilesOf(a)
                                  \/ \E q \in Procs : f \in Old(q)
  BY DEF AssetFiles, AssetsLeft
<1>13. torn \subseteq torn'
  BY DEF AssetMove
<1>14. \A a \in assets : req'[p].seen = {a} => Now(p) = FilesOf(a)
  BY DEF Held
<1> HIDE DEF Old, New, Then, Now, Out, Gone
<1>20. \A a, b \in assets' : \A f \in FilesOf(a) : f \in FilesOf(b) => a = b
  <2> SUFFICES ASSUME NEW a \in assets', NEW b \in assets', NEW f, f \in FilesOf(a), f \in FilesOf(b)
               PROVE  a.id = b.id
    BY <1>6
  <2>1. CASE f \in Old(p)
    BY <2>1, <1>6
  <2>2. CASE f \notin Old(p)
    <3>1. PICK x \in assets : x.id = a.id /\ f \in FilesOf(x)
      BY <2>2, <1>6
    <3>2. PICK y \in assets : y.id = b.id /\ f \in FilesOf(y)
      BY <2>2, <1>6
    <3> QED
      BY <3>1, <3>2, <1>7
  <2> QED
    BY <2>1, <2>2
<1>21. ASSUME NEW q \in Procs, pc'[q] \in {"unlink", "unasset"}, NEW f \in Now(q),
              NEW b \in assets', f \in FilesOf(b)
       PROVE  b.id = req'[q].asset
  <2>1. f \notin Old(p)
    BY <1>1, <1>4, <1>5, <1>21
  <2>2. PICK a \in assets : a.id = b.id /\ f \in FilesOf(a)
    BY <2>1, <1>6, <1>21
  <2>3. CASE q # p
    BY <2>2, <2>3, <1>1, <1>7, <1>21
  <2>4. CASE q = p
    <3>1. CASE Unlinking(p) /\ req'[p] = req[p] /\ Now(p) = Then(p)
      BY <3>1, <2>2, <2>4, <1>7, <1>21
    <3>2. CASE \E c \in assets : req'[p].seen = {c} /\ c.id = req'[p].asset /\ assets' = assets
      BY <3>2, <2>2, <2>4, <1>7, <1>14, <1>21
    <3> QED
      BY <3>1, <3>2, <2>4, <1>10, <1>21
  <2> QED
    BY <2>3, <2>4
<1>22. AssetsApart'
  BY <1>20, <1>21, <1>6 DEF AssetsApart, Now
<1>23. AwayGone'
  <2>1. ASSUME NEW q \in Procs, NEW f \in Gone(q) PROVE f \notin files'
    <3>1. f \in Out(q) \/ f \notin files'
      BY <2>1, <1>1, <1>5
    <3>2. f \in Out(q) => f \notin files /\ f # drawn + 1
      BY <1>2, <1>8
    <3> QED
      BY <3>1, <3>2, <1>3
  <2> QED
    BY <2>1 DEF AwayGone, Gone
<1>24. AssetsKept'
  <2> SUFFICES ASSUME NEW b \in assets', NEW f \in FilesOf(b)
               PROVE  f \in files' \cup torn' \/ \E q \in Procs : f \in Gone(q)
    BY DEF AssetsKept, Gone
  <2>1. CASE f \in files'
    BY <2>1
  <2>2. CASE f \notin files'
    <3>1. PICK a \in assets : a.id = b.id /\ f \in FilesOf(a)
      BY <2>2, <1>6
    <3>2. CASE f \in files
      BY <3>1, <3>2, <2>2, <1>3, <1>4
    <3>3. CASE f \in torn
      BY <3>3, <1>13
    <3>4. CASE \E q \in Procs : f \in Out(q)
      BY <3>4, <1>1, <1>5
    <3> QED
      BY <3>1, <3>2, <3>3, <3>4, <1>9
  <2> QED
    BY <2>1, <2>2
<1>25. AssetsLeft'
  <2> SUFFICES ASSUME ~murky', NEW f \in files'
               PROVE  \/ \E b \in assets' : f \in FilesOf(b)
                      \/ \E q \in Procs : f \in New(q)
    BY DEF AssetsLeft, New
  <2>1. CASE f = drawn + 1 /\ f \in New(p)
    BY <2>1
  <2>2. CASE f \in files
    <3>1. CASE \E a \in assets : f \in FilesOf(a)
      BY <3>1, <1>11
    <3>2. CASE \E q \in Procs : f \in Old(q)
      BY <3>2, <1>1, <1>11
    <3> QED
      BY <3>1, <3>2, <2>2, <1>11, <1>12
  <2> QED
    BY <2>1, <2>2, <1>3
<1>26. Tables'
  <2>1. files' \subseteq 1 .. drawn'
    BY <1>2, <1>3
  <2>2. rows' = {} /\ uploaded' = {}
    BY <1>0 DEF AssetMove, Sides
  <2> QED
    BY <2>1, <2>2 DEF Tables
<1> QED
  BY OwnFreshKept, <1>3, <1>22, <1>23, <1>24, <1>25, <1>26 DEF AssetFiles

(* A part of a finite set is finite and has no more elements.              *)
LEMMA NoMore ==
    ASSUME NEW S, IsFiniteSet(S), NEW T, T \subseteq S
    PROVE  /\ IsFiniteSet(T) /\ Cardinality(T) \in Nat /\ Cardinality(S) \in Nat
           /\ Cardinality(T) <= Cardinality(S)
<1>1. T \in SUBSET S
  OBVIOUS
<1>2. IsFiniteSet(T) /\ Cardinality(T) <= Cardinality(S)
  BY <1>1, FS_Subset
<1>3. Cardinality(T) \in Nat /\ Cardinality(S) \in Nat
  BY <1>2, FS_CardinalityType
<1> QED
  BY <1>2, <1>3

(* A finite set with one more element is finite.                           *)
LEMMA OneMore ==
    ASSUME NEW S, IsFiniteSet(S), NEW x
    PROVE  IsFiniteSet(S \cup {x}) /\ Cardinality(S \cup {x}) <= Cardinality(S) + 1
<1>1. /\ IsFiniteSet(S \cup {x})
      /\ Cardinality(S \cup {x}) = IF x \in S THEN Cardinality(S) ELSE Cardinality(S) + 1
  BY FS_AddElement
<1>2. Cardinality(S) \in Nat
  BY FS_CardinalityType
<1> QED
  BY <1>1, <1>2

(* Ids are given to documents that have drawn a file, so there is a name   *)
(* drawn for each.                                                         *)
LEMMA RoomyKept ==
    ASSUME Sides, Tables, Assets, Requested, AssetFiles, Roomy, NEW p \in Procs, AssetMove(p)
    PROVE  Roomy' /\ Assets'
<1> DEFINE Bound(q) == pc[q] \in {"asset", "variant"}
           Comes(q) == pc'[q] \in {"asset", "variant"}
           new == req[p].new
<1>0. part = "resume" /\ Alone(p)
  BY DEF AssetMove
<1>1. \A q \in Procs : q # p => pc'[q] = pc[q] /\ req'[q] = req[q]
  BY <1>0 DEF Alone
<1>2. /\ drawn \in Nat /\ drawn' \in Nat /\ drawn' \in {drawn, drawn + 1}
      /\ \A a \in assets : \A f \in FilesOf(a) : f \in 1 .. drawn
      /\ \A q \in Procs : \A f \in Own(pc[q], req[q]) : f \in 1 .. drawn
  BY NamesDrawn, <1>0 DEF AssetMove, NamesMove
<1>3. \A q \in Procs : Bound(q) => req[q].new \in Own(pc[q], req[q])
  BY DEF Own
<1>4. \A x \in Coming : x \in 1 .. drawn /\ \E q \in Procs : Bound(q) /\ x = req[q].new
  BY <1>2, <1>3 DEF Coming
<1>5. IsFiniteSet(Coming) /\ Cardinality(Coming) \in Nat /\ Cardinality(Coming) <= drawn
  <2>0. \A b \in Int : /\ IsFiniteSet(1 .. b)
                       /\ Cardinality(1 .. b) = IF 1 > b THEN 0 ELSE b - 1 + 1
    BY ONLY FS_Interval
  <2>1. IsFiniteSet(1 .. drawn) /\ Cardinality(1 .. drawn) = drawn
    BY <2>0, <1>2
  <2>2. Coming \subseteq 1 .. drawn
    BY <1>4
  <2> QED
    <3>1. /\ IsFiniteSet(Coming) /\ Cardinality(Coming) \in Nat
          /\ Cardinality(Coming) <= Cardinality(1 .. drawn)
      BY <2>1, <2>2, NoMore
    <3> QED
      BY <3>1, <2>1
<1>6. Comes(p) => drawn' = drawn + 1 /\ req'[p].new = drawn + 1
  BY DEF AssetMove
<1>7. /\ \A b, c \in assets' : b.id = c.id => b = c
      /\ \A b \in assets' : b \in AssetSet /\ b.file # 0 /\ b.file # b.source
      /\ \A b \in assets' : \/ \E a \in assets : a.id = b.id
                            \/ b.id = NextAsset /\ Bound(p)
      /\ \A b \in assets' : \A f \in FilesOf(b) :
            \/ \E a \in assets : f \in FilesOf(a)
            \/ f \in Own(pc[p], req[p])
  BY DEF AssetMove, AssetsMove
<1>8. /\ NextAsset \in 1 .. drawn + 1
      /\ NextAsset = 1 \/ \E a \in assets : NextAsset = a.id + 1
  BY NextIs
<1>9. \A q, w \in Procs : \A f \in Own(pc[q], req[q]) : f \in Own(pc[w], req[w]) => q = w
  BY DEF AssetFiles, OwnFresh
<1>10. \A a \in assets : a.id \in 1 .. drawn /\ a.id + Cardinality(Coming) <= drawn
  BY DEF Roomy, Assets
<1>11. \A x \in Coming' : \E q \in Procs : Comes(q) /\ x = req'[q].new
  BY DEF Coming
<1>12. ASSUME Bound(p)
       PROVE  \A b \in assets' : b.id \in 1 .. drawn' /\ b.id + Cardinality(Coming') <= drawn'
  <2>1. new \in Coming
    BY <1>12 DEF Coming
  <2>2. CASE Comes(p)
    <3>1. Coming' \subseteq (Coming \ {new}) \cup {drawn + 1}
      <4>1. ASSUME NEW x \in Coming', x # drawn + 1
            PROVE  x \in Coming \ {new}
        <5>1. PICK q \in Procs : Comes(q) /\ x = req'[q].new
          BY <1>11
        <5>2. q # p
          BY <5>1, <4>1, <1>6
        <5>3. Bound(q) /\ x = req[q].new
          BY <5>1, <5>2, <1>1
        <5>4. x # new
          BY <5>2, <5>3, <1>3, <1>9, <1>12
        <5> QED
          BY <5>3, <5>4 DEF Coming
      <4> QED
        BY <4>1
    <3>2. /\ IsFiniteSet(Coming \ {new})
          /\ Cardinality(Coming \ {new}) = Cardinality(Coming) - 1
      BY <1>5, <2>1, FS_RemoveElement
    <3>3. /\ IsFiniteSet((Coming \ {new}) \cup {drawn + 1})
          /\ Cardinality((Coming \ {new}) \cup {drawn + 1}) <= Cardinality(Coming)
      <4>1. Cardinality((Coming \ {new}) \cup {drawn + 1}) <= Cardinality(Coming \ {new}) + 1
        BY <3>2, OneMore
      <4>2. IsFiniteSet((Coming \ {new}) \cup {drawn + 1})
        BY <3>2, OneMore
      <4> QED
        BY <4>1, <4>2, <3>2, <1>5
    <3>4. Cardinality(Coming') \in Nat /\ Cardinality(Coming') <= Cardinality(Coming)
      <4>1. /\ Cardinality(Coming') \in Nat
            /\ Cardinality((Coming \ {new}) \cup {drawn + 1}) \in Nat
            /\ Cardinality(Coming') <= Cardinality((Coming \ {new}) \cup {drawn + 1})
        BY <3>1, <3>3, NoMore
      <4> QED
        BY <4>1, <3>3, <1>5
    <3>5. \A b \in assets' : b.id \in 1 .. drawn' /\ b.id + Cardinality(Coming') <= drawn'
      <4>1. drawn' = drawn + 1
        BY <2>2, <1>6
      <4>2. ASSUME NEW b \in assets' PROVE b.id \in 1 .. drawn' /\ b.id + Cardinality(Coming') <= drawn'
        <5>1. CASE \E a \in assets : a.id = b.id
          BY <5>1, <4>1, <3>4, <1>2, <1>5, <1>10
        <5>2. CASE b.id = NextAsset
          BY <5>2, <4>1, <3>4, <1>2, <1>5, <1>8, <1>10
        <5> QED
          BY <5>1, <5>2, <1>7
      <4> QED
        BY <4>2
    <3> QED
      BY <3>5
  <2>3. CASE ~Comes(p)
    <3>1. Coming' \subseteq Coming \ {new}
      <4>1. ASSUME NEW x \in Coming'
            PROVE  x \in Coming \ {new}
        <5>1. PICK q \in Procs : Comes(q) /\ x = req'[q].new
          BY <1>11
        <5>2. q # p
          BY <5>1, <2>3
        <5>3. Bound(q) /\ x = req[q].new
          BY <5>1, <5>2, <1>1
        <5>4. x # new
          BY <5>2, <5>3, <1>3, <1>9, <1>12
        <5> QED
          BY <5>3, <5>4 DEF Coming
      <4> QED
        BY <4>1
    <3>2. /\ IsFiniteSet(Coming \ {new})
          /\ Cardinality(Coming \ {new}) = Cardinality(Coming) - 1
      BY <1>5, <2>1, FS_RemoveElement
    <3>3. Cardinality(Coming') \in Nat /\ Cardinality(Coming') <= Cardinality(Coming) - 1
      BY <3>1, <3>2, <1>5, NoMore
    <3>4. ASSUME NEW b \in assets' PROVE b.id \in 1 .. drawn' /\ b.id + Cardinality(Coming') <= drawn'
      <4>1. CASE \E a \in assets : a.id = b.id
        BY <4>1, <3>3, <1>2, <1>5, <1>10
      <4>2. CASE b.id = NextAsset
        BY <4>2, <3>3, <1>2, <1>5, <1>8, <1>10
      <4> QED
        BY <4>1, <4>2, <1>7
    <3> QED
      BY <3>4
  <2> QED
    BY <2>2, <2>3
<1>13. ASSUME ~Bound(p)
       PROVE  \A b \in assets' : b.id \in 1 .. drawn' /\ b.id + Cardinality(Coming') <= drawn'
  <2>1. Coming' \subseteq Coming \cup (IF Comes(p) THEN {drawn + 1} ELSE {})
    BY <1>1, <1>6, <1>11 DEF Coming
  <2>2. /\ Cardinality(Coming') \in Nat
        /\ Cardinality(Coming') <= Cardinality(Coming) + (IF Comes(p) THEN 1 ELSE 0)
    <3>1. /\ IsFiniteSet(Coming \cup {drawn + 1})
          /\ Cardinality(Coming \cup {drawn + 1}) <= Cardinality(Coming) + 1
      BY <1>5, OneMore
    <3>2. CASE Comes(p)
      <4>1. Coming' \subseteq Coming \cup {drawn + 1}
        BY <2>1, <3>2
      <4>2. /\ Cardinality(Coming') \in Nat /\ Cardinality(Coming \cup {drawn + 1}) \in Nat
            /\ Cardinality(Coming') <= Cardinality(Coming \cup {drawn + 1})
        BY <4>1, <3>1, NoMore
      <4> QED
        BY <4>2, <3>1, <3>2, <1>5
    <3>3. CASE ~Comes(p)
      <4>1. Coming' \subseteq Coming
        BY <2>1, <3>3
      <4> QED
        BY <4>1, <3>3, <1>5, NoMore
    <3> QED
      BY <3>2, <3>3
  <2> DEFINE more == IF Comes(p) THEN 1 ELSE 0
  <2>3. more \in Nat /\ drawn + more <= drawn'
    BY <1>2, <1>6
  <2>4. Cardinality(Coming') <= Cardinality(Coming) + more
    BY <2>2
  <2> HIDE DEF more
  <2>5. ASSUME NEW b \in assets' PROVE b.id \in 1 .. drawn' /\ b.id + Cardinality(Coming') <= drawn'
    <3>1. PICK a \in assets : a.id = b.id
      BY <1>7, <1>13
    <3>2. a.id \in 1 .. drawn /\ a.id + Cardinality(Coming) <= drawn
      BY <1>10
    <3> QED
      BY <3>1, <3>2, <2>2, <2>3, <2>4, <1>2, <1>5
  <2> QED
    BY <2>5
<1>14. \A b \in assets' : b.id \in 1 .. drawn' /\ b.id + Cardinality(Coming') <= drawn'
  BY <1>12, <1>13
<1>15. ASSUME NEW b \in assets' PROVE b.file \in 1 .. drawn' /\ b.source \in 0 .. drawn'
  <2>1. \A f \in FilesOf(b) : f \in 1 .. drawn
    BY <1>2, <1>7
  <2>2. b.file \in FilesOf(b) /\ (b.source = 0 \/ b.source \in FilesOf(b))
    BY <1>7 DEF FilesOf
  <2> QED
    BY <2>1, <2>2, <1>2
<1>16. assets' \subseteq AssetSet
  BY <1>7
<1> QED
  BY <1>7, <1>14, <1>15, <1>16 DEF Roomy, Assets

(***************************************************************************)
(* One deletion at a time, and one base                                    *)
(***************************************************************************)
(* A deletion in progress, and what must not overlap it.                   *)
Deleting == {"unlink", "unasset", "succeed"}
Bold(step, r) == step \in {"promote", "source"} \/ (step \in {"draft", "variant"} /\ r.op = "custom")
Twins(a, b) == a.id = b.id /\ a.file = b.file /\ a.source = b.source

Calm == ~murky =>
    /\ \A p, q \in Procs : pc[p] \in Deleting /\ pc[q] \in Deleting => p = q
    /\ \A p, q \in Procs : pc[p] \in Deleting => ~Bold(pc[q], req[q])
    /\ \A p \in Procs : pc[p] \in {"unlink", "unasset"} =>
          \E b \in assets : b.id = req[p].asset /\ \E s \in req[p].seen : Twins(b, s)
    /\ \A p \in Procs : pc[p] = "promote" => \E a \in Resumes : a.id = req[p].asset
    /\ \A p \in Procs : pc[p] = "source" => \E a \in assets : a.id = req[p].asset /\ a.source = 0
    /\ \A p, q \in Procs : pc[p] = "source" /\ pc[q] = "source" /\ req[p].asset = req[q].asset => p = q

Bases == {a \in Resumes : a.base}
Heir(r, a) == IF r.base THEN a.id = r.asset \/ a \in Newest ELSE a.id # r.asset
Based == ~murky =>
    /\ \A a, b \in Bases : a = b
    /\ Resumes # {} => Bases # {} \/ \E p \in Procs : pc[p] = "succeed"
    /\ \A p \in Procs : pc[p] = "succeed" => Bases \subseteq Newest
    /\ \A p \in Procs : pc[p] \in {"unlink", "unasset"} => \A a \in Bases : Heir(req[p], a)

CalmMove(p) == ~murky' =>
    /\ ~murky
    /\ pc'[p] \in Deleting => \/ pc[p] \in Deleting
                              \/ \A q \in Procs : pc[q] \notin Deleting /\ ~Bold(pc[q], req[q])
    /\ Bold(pc'[p], req'[p]) => Bold(pc[p], req[p]) \/ \A q \in Procs : pc[q] \notin Deleting
    /\ \A a \in assets : \/ \E b \in assets' : Twins(b, a) /\ b.resume = a.resume
                         \/ pc[p] \in Deleting
                         \/ /\ pc[p] = "source" /\ a.id = req[p].asset
                            /\ \E b \in assets' : b.id = a.id /\ b.resume = a.resume
    /\ pc'[p] \in {"unlink", "unasset"} =>
          \E b \in assets' : b.id = req'[p].asset /\ \E s \in req'[p].seen : Twins(b, s)
    /\ pc'[p] = "promote" => \E a \in Resumes' : a.id = req'[p].asset
    /\ pc'[p] = "source" => /\ \E a \in assets' : a.id = req'[p].asset /\ a.source = 0
                            /\ \A a \in assets : a.id # req'[p].asset

(* A step that moves as CalmMove says leaves deletions undisturbed, unless *)
(* a disturbance was marked.                                               *)
LEMMA CalmKept ==
    ASSUME Calm, NEW p \in Procs, Alone(p), CalmMove(p)
    PROVE  Calm'
<1> SUFFICES ASSUME ~murky' PROVE ~murky' => Calm'
  BY DEF Calm
<1>1. /\ ~murky
      /\ pc'[p] \in Deleting => \/ pc[p] \in Deleting
                                \/ \A q \in Procs : pc[q] \notin Deleting /\ ~Bold(pc[q], req[q])
      /\ Bold(pc'[p], req'[p]) => Bold(pc[p], req[p]) \/ \A q \in Procs : pc[q] \notin Deleting
  BY DEF CalmMove
<1>2. \A a \in assets : \/ \E b \in assets' : Twins(b, a) /\ b.resume = a.resume
                        \/ pc[p] \in Deleting
                        \/ /\ pc[p] = "source" /\ a.id = req[p].asset
                           /\ \E b \in assets' : b.id = a.id /\ b.resume = a.resume
  BY DEF CalmMove
<1>3. /\ pc'[p] \in {"unlink", "unasset"} =>
            \E b \in assets' : b.id = req'[p].asset /\ \E s \in req'[p].seen : Twins(b, s)
      /\ pc'[p] = "promote" => \E a \in Resumes' : a.id = req'[p].asset
      /\ pc'[p] = "source" => /\ \E a \in assets' : a.id = req'[p].asset /\ a.source = 0
                              /\ \A a \in assets : a.id # req'[p].asset
  BY DEF CalmMove
<1>4. \A q \in Procs : q # p => pc'[q] = pc[q] /\ req'[q] = req[q]
  BY DEF Alone
<1>5. /\ \A q, w \in Procs : pc[q] \in Deleting /\ pc[w] \in Deleting => q = w
      /\ \A q, w \in Procs : pc[q] \in Deleting => ~Bold(pc[w], req[w])
  BY <1>1 DEF Calm
<1>6. /\ \A q \in Procs : pc[q] \in {"unlink", "unasset"} =>
            \E b \in assets : b.id = req[q].asset /\ \E s \in req[q].seen : Twins(b, s)
      /\ \A q \in Procs : pc[q] = "promote" => \E a \in Resumes : a.id = req[q].asset
      /\ \A q \in Procs : pc[q] = "source" => \E a \in assets : a.id = req[q].asset /\ a.source = 0
      /\ \A q, w \in Procs : pc[q] = "source" /\ pc[w] = "source" /\ req[q].asset = req[w].asset => q = w
  BY <1>1 DEF Calm
<1>7. /\ \A q, w \in Procs : pc'[q] \in Deleting /\ pc'[w] \in Deleting => q = w
      /\ \A q, w \in Procs : pc'[q] \in Deleting => ~Bold(pc'[w], req'[w])
  <2>1. ~(pc'[p] \in Deleting /\ Bold(pc'[p], req'[p]))
    BY DEF Deleting, Bold
  <2> QED
    BY <2>1, <1>1, <1>4, <1>5
<1>8. \A q \in Procs : pc[q] \in {"promote", "source"} => Bold(pc[q], req[q])
  BY DEF Bold
<1>9. \A q \in Procs : pc[q] \in {"unlink", "unasset"} => pc[q] \in Deleting
  BY DEF Deleting
<1>10. ASSUME NEW q \in Procs, pc'[q] \in {"unlink", "unasset"}
       PROVE  \E b \in assets' : b.id = req'[q].asset /\ \E s \in req'[q].seen : Twins(b, s)
  <2>1. CASE q = p
    BY <2>1, <1>3, <1>10
  <2>2. CASE q # p
    <3>1. PICK a \in assets : a.id = req[q].asset /\ \E s \in req[q].seen : Twins(a, s)
      BY <2>2, <1>4, <1>6, <1>10
    <3>2. pc[p] \notin Deleting /\ pc[p] # "source"
      BY <2>2, <1>4, <1>5, <1>8, <1>9, <1>10
    <3>3. PICK b \in assets' : Twins(b, a)
      BY <3>2, <1>2
    <3> QED
      BY <2>2, <3>1, <3>3, <1>4 DEF Twins
  <2> QED
    BY <2>1, <2>2
<1>11. ASSUME NEW q \in Procs, pc'[q] = "promote"
       PROVE  \E b \in Resumes' : b.id = req'[q].asset
  <2>1. CASE q = p
    BY <2>1, <1>3, <1>11
  <2>2. CASE q # p
    <3>1. PICK a \in Resumes : a.id = req[q].asset
      BY <2>2, <1>4, <1>6, <1>11
    <3>2. pc[p] \notin Deleting
      BY <2>2, <1>4, <1>5, <1>8, <1>11
    <3>3. PICK b \in assets' : b.id = a.id /\ b.resume = a.resume
      BY <3>2, <1>2 DEF Twins, Resumes
    <3> QED
      BY <2>2, <3>1, <3>3, <1>4 DEF Resumes
  <2> QED
    BY <2>1, <2>2
<1>12. ASSUME NEW q \in Procs, pc'[q] = "source"
       PROVE  \E b \in assets' : b.id = req'[q].asset /\ b.source = 0
  <2>1. CASE q = p
    BY <2>1, <1>3, <1>12
  <2>2. CASE q # p
    <3>1. PICK a \in assets : a.id = req[q].asset /\ a.source = 0
      BY <2>2, <1>4, <1>6, <1>12
    <3>2. pc[p] \notin Deleting
      BY <2>2, <1>4, <1>5, <1>8, <1>12
    <3>3. ~(pc[p] = "source" /\ a.id = req[p].asset)
      BY <2>2, <3>1, <1>4, <1>6, <1>12
    <3>4. PICK b \in assets' : Twins(b, a)
      BY <3>2, <3>3, <1>2
    <3> QED
      BY <2>2, <3>1, <3>4, <1>4 DEF Twins
  <2> QED
    BY <2>1, <2>2
<1>13. \A q, w \in Procs : pc'[q] = "source" /\ pc'[w] = "source" /\ req'[q].asset = req'[w].asset => q = w
  BY <1>3, <1>4, <1>6
<1> QED
  BY <1>7, <1>10, <1>11, <1>12, <1>13 DEF Calm

(* A step that leaves the documents as they are leaves the base.           *)
LEMMA BasesSame ==
    ASSUME Assets, Based, NEW p \in Procs, Alone(p), assets' = assets,
           ~murky' => /\ ~murky /\ pc[p] # "succeed" /\ pc'[p] # "succeed"
                      /\ pc'[p] \in {"unlink", "unasset"} =>
                            \/ pc[p] \in {"unlink", "unasset"} /\ req'[p] = req[p]
                            \/ \E a \in assets : req'[p].asset = a.id /\ req'[p].base = (a.resume /\ a.base)
    PROVE  Based'
<1> SUFFICES ASSUME ~murky' PROVE ~murky' => Based'
  BY DEF Based
<1>1. /\ ~murky /\ pc[p] # "succeed" /\ pc'[p] # "succeed"
      /\ \A q \in Procs : q # p => pc'[q] = pc[q] /\ req'[q] = req[q]
  BY DEF Alone
<1>2. Resumes' = Resumes /\ Bases' = Bases /\ Newest' = Newest
  BY DEF Resumes, Bases, Newest
<1>3. /\ \A a, b \in Bases : a = b
      /\ Resumes # {} => Bases # {} \/ \E q \in Procs : pc[q] = "succeed"
      /\ \A q \in Procs : pc[q] = "succeed" => Bases \subseteq Newest
      /\ \A q \in Procs : pc[q] \in {"unlink", "unasset"} => \A a \in Bases : Heir(req[q], a)
  BY <1>1 DEF Based
<1>4. ASSUME NEW q \in Procs, pc'[q] \in {"unlink", "unasset"}, NEW c \in Bases
      PROVE  IF req'[q].base THEN c.id = req'[q].asset \/ c \in Newest ELSE c.id # req'[q].asset
  <2>1. CASE pc[q] \in {"unlink", "unasset"} /\ req'[q] = req[q]
    BY <2>1, <1>3 DEF Heir
  <2>2. CASE \E a \in assets : req'[q].asset = a.id /\ req'[q].base = (a.resume /\ a.base)
    <3>1. PICK a \in assets : req'[q].asset = a.id /\ req'[q].base = (a.resume /\ a.base)
      BY <2>2
    <3>2. c \in assets /\ c.resume /\ c.base
      BY DEF Bases, Resumes
    <3>3. a.resume /\ a.base => a \in Bases
      BY DEF Bases, Resumes
    <3>4. c.id = a.id => c = a
      BY <3>2 DEF Assets
    <3> QED
      BY <3>1, <3>2, <3>3, <3>4, <1>3
  <2> QED
    BY <2>1, <2>2, <1>1, <1>4
<1>5. /\ Resumes' # {} => Bases' # {} \/ \E q \in Procs : pc'[q] = "succeed"
      /\ \A q \in Procs : pc'[q] = "succeed" => Bases' \subseteq Newest'
  BY <1>1, <1>2, <1>3
<1>6. \A q \in Procs : pc'[q] \in {"unlink", "unasset"} => \A a \in Bases' : Heir(req[q], a)'
  BY <1>2, <1>4 DEF Heir
<1> QED
  BY <1>2, <1>3, <1>5, <1>6 DEF Based

AssetState == /\ Sides /\ Tables /\ Assets /\ Requested /\ AssetFiles /\ Roomy /\ Calm /\ Based

(* A step that leaves the documents as they are moves them as it may.      *)
LEMMA SameAssets ==
    ASSUME Assets, AssetFiles, NEW p \in Procs, assets' = assets
    PROVE  /\ AssetsMove(p)
           /\ \A a \in assets : \E b \in assets' : Twins(b, a) /\ b.resume = a.resume
           /\ Resumes' = Resumes
<1>1. \A b \in assets : b \in AssetSet /\ b.file # 0 /\ b.file # b.source
  BY DEF Assets, AssetFiles, AssetsApart
<1>2. \A b, c \in assets : b.id = c.id => b = c
  BY DEF Assets
<1>3. \A f \in Own(pc[p], req[p]) : \A b \in assets : f \notin FilesOf(b)
  BY DEF AssetFiles, OwnFresh
<1>4. AssetsMove(p)
  BY <1>1, <1>2, <1>3 DEF AssetsMove
<1> QED
  BY <1>4 DEF Twins, Resumes

(* A step that only writes, or removes what it wrote.                      *)
LEMMA SameMove ==
    ASSUME AssetState, part = "resume", NEW p \in Procs, Alone(p), Requested',
           UNCHANGED <<part, jobs, postings, rows, kitOf, uploaded, recycled, assets, torn>>,
           murky' \in BOOLEAN, ~murky' => ~murky,
           pc[p] \notin Deleting, pc'[p] \notin Deleting, pc'[p] # "source",
           req'[p].seen \subseteq req[p].seen, NamesMove(p), OwnMoves(p),
           pc'[p] \in {"asset", "variant"} => drawn' = drawn + 1 /\ req'[p].new = drawn + 1,
           \A f \in Own(pc[p], req[p]) : f \notin files' \/ f \in Own(pc'[p], req'[p]),
           ~murky' /\ Bold(pc'[p], req'[p]) => Bold(pc[p], req[p]) \/ \A q \in Procs : pc[q] \notin Deleting,
           pc'[p] = "promote" => \E a \in Resumes : a.id = req'[p].asset
    PROVE  AssetMove(p) /\ CalmMove(p) /\ Based'
<1>1. /\ AssetsMove(p) /\ Resumes' = Resumes
      /\ \A a \in assets : \E b \in assets' : Twins(b, a) /\ b.resume = a.resume
  BY SameAssets DEF AssetState
<1>2. HeldMoves(p)
  <2>1. \A f \in Held(req'[p]) : f \in Held(req[p])
    BY DEF Held
  <2>2. Away(pc'[p], req'[p]) = {} /\ Away(pc[p], req[p]) = {}
    BY DEF Away, Deleting
  <2> QED
    BY <2>1, <2>2 DEF HeldMoves, Deleting
<1>3. LeftMoves(p)
  BY DEF LeftMoves
<1>4. AssetMove(p)
  BY <1>1, <1>2, <1>3 DEF AssetMove
<1>5. CalmMove(p)
  BY <1>1 DEF CalmMove, Deleting
<1>6. Based'
  <2>1. /\ pc[p] # "succeed" /\ pc'[p] # "succeed"
        /\ pc'[p] \notin {"unlink", "unasset"}
    BY DEF Deleting
  <2> QED
    BY <2>1, BasesSame DEF AssetState
<1> QED
  BY <1>4, <1>5, <1>6

(* The step of a request tells what it is doing.                           *)
LEMMA DeletingIs ==
    ASSUME Requested, NEW p \in Procs
    PROVE  /\ pc[p] \in Deleting => p \in Doing("unasset")
           /\ pc[p] = "promote" => p \in Doing("promote")
           /\ Bold(pc[p], req[p]) /\ pc[p] # "promote" => p \in Doing("custom")
<1>1. ResumeReq(pc[p], req[p])
  BY DEF Requested, Formed
<1> QED
  BY <1>1 DEF ResumeReq, Deleting, Bold, Doing

(* UploadAsset moves documents and files as AssetMove and CalmMove say.    *)
LEMMA UploadAssetMove ==
    ASSUME AssetState, NEW p \in Procs, UploadAsset(p)
    PROVE  AssetMove(p) /\ CalmMove(p) /\ Based'
<1>1. /\ Requested' /\ Alone(p) /\ part = "resume" /\ pc[p] = "idle" /\ pc'[p] = "asset"
      /\ req'[p].new = drawn + 1 /\ req'[p].seen = {}
      /\ files' = files \cup {drawn + 1} /\ drawn' = drawn + 1
      /\ UNCHANGED <<part, jobVars, assets, asked, torn, murky>>
  BY UploadAssetFormed DEF AssetState
<1>2. Own(pc[p], req[p]) = {} /\ Own(pc'[p], req'[p]) = {drawn + 1}
  BY <1>1 DEF Own
<1>3. NamesMove(p) /\ OwnMoves(p)
  BY <1>1, <1>2 DEF NamesMove, OwnMoves
<1>4. murky' \in BOOLEAN
  BY <1>1 DEF AssetState, Sides
<1>5. UNCHANGED <<jobs, postings, rows, kitOf, uploaded, recycled>>
  BY <1>1 DEF jobVars
<1>6. ~Bold(pc'[p], req'[p]) /\ pc[p] \notin Deleting /\ pc'[p] \notin Deleting
  BY <1>1 DEF Bold, Deleting
<1> QED
  BY <1>1, <1>2, <1>3, <1>4, <1>5, <1>6, SameMove

(* UploadResume moves documents and files as AssetMove and CalmMove say.   *)
LEMMA UploadResumeMove ==
    ASSUME AssetState, NEW p \in Procs, UploadResume(p)
    PROVE  AssetMove(p) /\ CalmMove(p) /\ Based'
<1>1. /\ Requested' /\ Alone(p) /\ part = "resume" /\ pc[p] = "idle" /\ pc'[p] = "draft"
      /\ req'[p].source = drawn + 1 /\ req'[p].seen = {}
      /\ files' = files \cup {drawn + 1} /\ drawn' = drawn + 1
      /\ murky' = (murky \/ Doing("unasset") # {})
      /\ UNCHANGED <<part, jobVars, assets, asked, torn>>
  BY UploadResumeFormed DEF AssetState
<1>2. drawn + 1 # 0 /\ murky \in BOOLEAN
  BY DEF AssetState, Sides
<1>3. Own(pc[p], req[p]) = {} /\ Own(pc'[p], req'[p]) = {drawn + 1}
  BY <1>1, <1>2 DEF Own
<1>4. NamesMove(p) /\ OwnMoves(p)
  BY <1>1, <1>3 DEF NamesMove, OwnMoves
<1>5. murky' \in BOOLEAN /\ (~murky' => ~murky /\ Doing("unasset") = {})
  BY <1>1, <1>2
<1>6. UNCHANGED <<jobs, postings, rows, kitOf, uploaded, recycled>>
  BY <1>1 DEF jobVars
<1>7. ~murky' => \A q \in Procs : pc[q] \notin Deleting
  BY <1>5, DeletingIs DEF AssetState
<1>8. pc[p] \notin Deleting /\ pc'[p] \notin Deleting
  BY <1>1 DEF Deleting
<1> QED
  BY <1>1, <1>3, <1>4, <1>5, <1>6, <1>7, <1>8, SameMove

(* Draft moves documents and files as AssetMove and CalmMove say.          *)
LEMMA DraftMove ==
    ASSUME AssetState, NEW p \in Procs, Draft(p)
    PROVE  AssetMove(p) /\ CalmMove(p) /\ Based'
<1>1. /\ Goto(p, "draft", [NoReq EXCEPT !.op = "draft"]) /\ part = "resume" /\ pc[p] = "idle"
      /\ UNCHANGED <<part, files, drawn, jobVars, assets, asked, torn, murky>>
  BY DEF Draft, Begin
<1>2. UNCHANGED <<jobs, postings, rows, kitOf, uploaded, recycled>>
  BY <1>1 DEF jobVars
<1>3. /\ Requested' /\ Alone(p) /\ pc'[p] = "draft"
      /\ req'[p].op = "draft" /\ req'[p].source = 0 /\ req'[p].seen = {}
  BY <1>1, <1>2, DraftFormed DEF AssetState
<1>4. Own(pc[p], req[p]) = {} /\ Own(pc'[p], req'[p]) = {}
  BY <1>1, <1>3 DEF Own
<1>5. NamesMove(p) /\ OwnMoves(p)
  <2>1. drawn' # drawn + 1
    BY <1>1 DEF AssetState, Sides
  <2> QED
    BY <2>1, <1>1, <1>3, <1>4 DEF NamesMove, OwnMoves
<1>6. murky' \in BOOLEAN
  BY <1>1 DEF AssetState, Sides
<1>7. ~Bold(pc'[p], req'[p]) /\ pc[p] \notin Deleting /\ pc'[p] \notin Deleting
  BY <1>1, <1>3 DEF Bold, Deleting
<1> QED
  BY <1>1, <1>2, <1>3, <1>4, <1>5, <1>6, <1>7, SameMove

(* WriteDraft moves documents and files as AssetMove and CalmMove say.     *)
LEMMA WriteDraftMove ==
    ASSUME AssetState, NEW p \in Procs, WriteDraft(p)
    PROVE  AssetMove(p) /\ CalmMove(p) /\ Based'
<1>1. /\ Requested' /\ Alone(p) /\ part = "resume" /\ pc[p] = "draft"
      /\ \/ /\ pc'[p] = "variant" /\ req'[p].new = drawn + 1
            /\ req'[p].source = req[p].source /\ req'[p].op = req[p].op
            /\ req'[p].seen = req[p].seen
            /\ files' = files \cup {drawn + 1} /\ drawn' = drawn + 1
         \/ /\ pc'[p] = "idle" /\ req'[p] = NoReq
            /\ files' = files \ {req[p].source} /\ drawn' = drawn
      /\ UNCHANGED <<part, jobVars, assets, asked, torn, murky>>
  BY WriteDraftFormed DEF AssetState
<1>2. /\ drawn \in Nat /\ drawn + 1 \notin 1 .. drawn /\ \A f \in files : f \in 1 .. drawn
      /\ \A f \in Own(pc[p], req[p]) : f \in files /\ f \in 1 .. drawn
  BY <1>1, NamesDrawn DEF AssetState, AssetFiles, OwnFresh
<1>3. Own(pc[p], req[p]) = {req[p].source} \ {0}
  BY <1>1 DEF Own
<1>4. murky' \in BOOLEAN
  BY <1>1 DEF AssetState, Sides
<1>5. UNCHANGED <<jobs, postings, rows, kitOf, uploaded, recycled>>
  BY <1>1 DEF jobVars
<1>6. pc[p] \notin Deleting /\ pc'[p] \notin Deleting /\ pc'[p] \notin {"source", "promote"}
  BY <1>1 DEF Deleting
<1>7. CASE pc'[p] = "variant"
  <2>1. /\ req'[p].new = drawn + 1 /\ req'[p].source = req[p].source /\ req'[p].op = req[p].op
        /\ req'[p].seen = req[p].seen /\ files' = files \cup {drawn + 1} /\ drawn' = drawn + 1
    BY <1>1, <1>7
  <2>2. Own(pc'[p], req'[p]) = {drawn + 1} \cup Own(pc[p], req[p])
    BY <2>1, <1>3, <1>7 DEF Own
  <2>3. req[p].source \in 0 .. drawn
    BY DEF AssetState, Requested, Formed
  <2>4. NamesMove(p)
    BY <2>1, <2>2 DEF NamesMove
  <2>5. req'[p].new # req'[p].source
    BY <2>1, <2>3, <1>2
  <2>6. OwnMoves(p)
    BY <2>1, <2>2, <2>5, <1>2 DEF OwnMoves
  <2>7. Bold(pc'[p], req'[p]) => Bold(pc[p], req[p])
    BY <2>1, <1>1, <1>7 DEF Bold
  <2> QED
    BY <2>1, <2>2, <2>4, <2>6, <2>7, <1>1, <1>4, <1>5, <1>6, SameMove
<1>8. CASE pc'[p] = "idle"
  <2>1. req'[p] = NoReq /\ files' = files \ {req[p].source} /\ drawn' = drawn
    BY <1>1, <1>8
  <2>2. Own(pc'[p], req'[p]) = {} /\ Bold(pc'[p], req'[p]) = FALSE /\ req'[p].seen = {}
    BY <2>1, <1>8, NoReqIs DEF Own, Bold
  <2>3. 0 \notin files
    BY <1>2
  <2>4. NamesMove(p)
    <3>1. \A f \in files : f \in files' \/ f \in Own(pc[p], req[p])
      BY <2>1, <2>3, <1>3
    <3>2. drawn' # drawn + 1
      BY <2>1, <1>2
    <3> QED
      BY <3>1, <3>2, <2>1, <2>2, <1>1 DEF NamesMove
  <2>5. OwnMoves(p)
    BY <2>2, <1>8 DEF OwnMoves
  <2>6. \A f \in Own(pc[p], req[p]) : f \notin files'
    BY <2>1, <1>3
  <2> QED
    BY <2>1, <2>2, <2>4, <2>5, <2>6, <1>1, <1>4, <1>5, <1>6, <1>8, SameMove
<1> QED
  BY <1>1, <1>7, <1>8

(* Promote moves documents and files as AssetMove and CalmMove say.        *)
LEMMA PromoteMove ==
    ASSUME AssetState, NEW p \in Procs, Promote(p)
    PROVE  AssetMove(p) /\ CalmMove(p) /\ Based'
<1>1. /\ Requested' /\ Alone(p) /\ part = "resume" /\ pc[p] = "idle" /\ pc'[p] = "promote"
      /\ req'[p].seen = {} /\ \E a \in Resumes : a.id = req'[p].asset
      /\ murky' = (murky \/ Doing("unasset") # {})
      /\ UNCHANGED <<part, files, drawn, jobVars, assets, asked, torn>>
  BY PromoteFormed DEF AssetState
<1>2. drawn' # drawn + 1 /\ murky \in BOOLEAN
  BY <1>1 DEF AssetState, Sides
<1>3. Own(pc[p], req[p]) = {} /\ Own(pc'[p], req'[p]) = {}
  BY <1>1 DEF Own
<1>4. NamesMove(p) /\ OwnMoves(p)
  BY <1>1, <1>2, <1>3 DEF NamesMove, OwnMoves
<1>5. murky' \in BOOLEAN /\ (~murky' => ~murky /\ Doing("unasset") = {})
  BY <1>1, <1>2
<1>6. UNCHANGED <<jobs, postings, rows, kitOf, uploaded, recycled>>
  BY <1>1 DEF jobVars
<1>7. ~murky' => \A q \in Procs : pc[q] \notin Deleting
  BY <1>5, DeletingIs DEF AssetState
<1>8. pc[p] \notin Deleting /\ pc'[p] \notin Deleting
  BY <1>1 DEF Deleting
<1> QED
  BY <1>1, <1>3, <1>4, <1>5, <1>6, <1>7, <1>8, SameMove

(* A request that is aborted, or whose commit is lost, moves documents and *)
(* files as AssetMove and CalmMove say.                                    *)
LEMMA AssetFaultMove ==
    ASSUME AssetState, NEW p \in Procs, part = "resume", Abort(p) \/ CommitsNothing(p)
    PROVE  AssetMove(p) /\ CalmMove(p) /\ Based'
<1>1. /\ Requested' /\ Alone(p)
      /\ \/ pc'[p] = "idle" /\ req'[p] = NoReq
         \/ pc[p] = "unasset" /\ pc'[p] = "succeed" /\ req'[p].seen = {}
      /\ torn' = torn \cup Removed(p) /\ murky' = TRUE
      /\ UNCHANGED <<part, files, drawn, jobs, postings, rows, kitOf, uploaded, recycled, assets, asked>>
  BY AssetFaultFormed DEF AssetState
<1>2. AssetsMove(p)
  BY <1>1, SameAssets DEF AssetState
<1>3. drawn' # drawn + 1
  BY <1>1 DEF AssetState, Sides
<1>4. req'[p].seen = {} /\ pc'[p] \in {"idle", "succeed"}
  BY <1>1, NoReqIs
<1>5. Own(pc'[p], req'[p]) = {} /\ Away(pc'[p], req'[p]) = {} /\ Held(req'[p]) = {}
  BY <1>4 DEF Own, Away, Held
<1>6. \A f \in Away(pc[p], req[p]) : f \in torn'
  <2> SUFFICES ASSUME NEW f \in Away(pc[p], req[p]) PROVE f \in Removed(p)
    BY <1>1
  <2>1. pc[p] = "unasset" /\ f \in Held(req[p])
    BY DEF Away
  <2>2. PICK s \in req[p].seen : f \in {s.file, s.source}
    BY <2>1 DEF Held, FilesOf
  <2> QED
    BY <2>1, <2>2 DEF Removed
<1>7. NamesMove(p) /\ OwnMoves(p) /\ HeldMoves(p) /\ LeftMoves(p)
  BY <1>1, <1>3, <1>4, <1>5, <1>6 DEF NamesMove, OwnMoves, HeldMoves, LeftMoves
<1>8. CalmMove(p) /\ Based'
  BY <1>1 DEF CalmMove, Based
<1> QED
  BY <1>1, <1>2, <1>4, <1>7, <1>8 DEF AssetMove

(* DeleteAsset moves documents and files as AssetMove and CalmMove say.    *)
LEMMA DeleteAssetMove ==
    ASSUME AssetState, NEW p \in Procs, DeleteAsset(p)
    PROVE  AssetMove(p) /\ CalmMove(p) /\ Based'
<1>1. /\ Requested' /\ Alone(p) /\ part = "resume" /\ pc[p] = "idle" /\ pc'[p] = "unlink"
      /\ murky' = (murky \/ Doing("unasset") \cup Doing("promote") \cup Doing("custom") # {})
      /\ UNCHANGED <<part, files, drawn, jobVars, assets, torn>>
      /\ \E a \in assets : /\ req'[p].asset = a.id /\ req'[p].seen = {a}
                           /\ req'[p].base = (a.resume /\ a.base)
  BY DeleteAssetFormed DEF AssetState
<1>2. PICK a \in assets : /\ req'[p].asset = a.id /\ req'[p].seen = {a}
                          /\ req'[p].base = (a.resume /\ a.base)
  BY <1>1
<1>3. drawn' # drawn + 1 /\ murky \in BOOLEAN
  BY <1>1 DEF AssetState, Sides
<1>4. /\ AssetsMove(p)
      /\ \A x \in assets : \E b \in assets' : Twins(b, x) /\ b.resume = x.resume
  BY <1>1, SameAssets DEF AssetState
<1>5. /\ Own(pc[p], req[p]) = {} /\ Own(pc'[p], req'[p]) = {}
      /\ Away(pc[p], req[p]) = {} /\ Away(pc'[p], req'[p]) = {}
      /\ Held(req'[p]) = FilesOf(a)
  BY <1>1, <1>2 DEF Own, Away, Held
<1>6. murky' \in BOOLEAN
      /\ (~murky' => ~murky /\ Doing("unasset") = {} /\ Doing("promote") = {} /\ Doing("custom") = {})
  BY <1>1, <1>3
<1>7. NamesMove(p) /\ OwnMoves(p) /\ LeftMoves(p)
  BY <1>1, <1>3, <1>5, <1>6 DEF NamesMove, OwnMoves, LeftMoves
<1>8. HeldMoves(p)
  BY <1>1, <1>2, <1>5 DEF HeldMoves
<1>9. UNCHANGED <<jobs, postings, rows, kitOf, uploaded, recycled>>
  BY <1>1 DEF jobVars
<1>10. AssetMove(p)
  BY <1>1, <1>4, <1>6, <1>7, <1>8, <1>9 DEF AssetMove
<1>11. ~murky' => \A q \in Procs : pc[q] \notin Deleting /\ ~Bold(pc[q], req[q])
  BY <1>6, DeletingIs DEF AssetState
<1>12. CalmMove(p)
  <2>1. Twins(a, a) /\ a \in assets' /\ a \in req'[p].seen
    BY <1>1, <1>2 DEF Twins
  <2>2. ~Bold(pc'[p], req'[p])
    BY <1>1 DEF Bold
  <2>3. pc'[p] \in {"unlink", "unasset"} =>
          \E b \in assets' : b.id = req'[p].asset /\ \E s \in req'[p].seen : Twins(b, s)
    BY <2>1, <1>2
  <2> QED
    BY <2>2, <2>3, <1>1, <1>4, <1>6, <1>11 DEF CalmMove
<1>13. Based'
  BY <1>1, <1>6, BasesSame DEF AssetState
<1> QED
  BY <1>10, <1>12, <1>13

(* Unlink moves documents and files as AssetMove and CalmMove say.         *)
LEMMA UnlinkMove ==
    ASSUME AssetState, NEW p \in Procs, Unlink(p)
    PROVE  AssetMove(p) /\ CalmMove(p) /\ Based'
<1>1. /\ Requested' /\ Alone(p) /\ part = "resume" /\ pc[p] = "unlink" /\ pc'[p] = "unasset"
      /\ req'[p] = req[p] /\ files' = files \ Unlinked(p)
      /\ UNCHANGED <<part, drawn, jobVars, assets, asked, torn, murky>>
  BY UnlinkFormed DEF AssetState
<1>2. Unlinked(p) = Held(req[p])
  BY DEF Unlinked, Held
<1>3. drawn' # drawn + 1 /\ murky \in BOOLEAN
  BY <1>1 DEF AssetState, Sides
<1>4. /\ AssetsMove(p)
      /\ \A x \in assets : \E b \in assets' : Twins(b, x) /\ b.resume = x.resume
  BY <1>1, SameAssets DEF AssetState
<1>5. /\ Own(pc[p], req[p]) = {} /\ Own(pc'[p], req'[p]) = {}
      /\ Away(pc[p], req[p]) = {} /\ Away(pc'[p], req'[p]) = Held(req[p])
      /\ Held(req'[p]) = Held(req[p])
  BY <1>1 DEF Own, Away
<1>6. NamesMove(p) /\ OwnMoves(p) /\ LeftMoves(p)
  BY <1>1, <1>2, <1>3, <1>5 DEF NamesMove, OwnMoves, LeftMoves
<1>7. HeldMoves(p)
  BY <1>1, <1>2, <1>5 DEF HeldMoves
<1>8. UNCHANGED <<jobs, postings, rows, kitOf, uploaded, recycled>>
  BY <1>1 DEF jobVars
<1>9. AssetMove(p)
  BY <1>1, <1>3, <1>4, <1>6, <1>7, <1>8 DEF AssetMove
<1>10. CalmMove(p)
  <2>1. ~Bold(pc'[p], req'[p])
    BY <1>1 DEF Bold
  <2>2. ~murky => \E b \in assets : b.id = req[p].asset /\ \E s \in req[p].seen : Twins(b, s)
    BY <1>1 DEF AssetState, Calm
  <2>3. pc[p] \in Deleting
    BY <1>1 DEF Deleting
  <2> QED
    BY <2>1, <2>2, <2>3, <1>1, <1>4 DEF CalmMove
<1>11. Based'
  BY <1>1, BasesSame DEF AssetState
<1> QED
  BY <1>9, <1>10, <1>11

(* A step that rewrites rows or deletes some, keeping their ids and files. *)
LEMMA Rewritten ==
    ASSUME Assets, AssetFiles, NEW p \in Procs,
           \A b \in assets' : b \in AssetSet /\ \E a \in assets : Twins(b, a),
           \A b, c \in assets' : b.id = c.id => b = c
    PROVE  AssetsMove(p)
<1>1. \A a \in assets : a.file # 0 /\ a.file # a.source
  BY DEF Assets, AssetFiles, AssetsApart
<1>2. \A f \in Own(pc[p], req[p]) : \A a \in assets : f \notin FilesOf(a)
  BY DEF AssetFiles, OwnFresh
<1>3. ASSUME NEW b \in assets'
      PROVE  /\ b.file # 0 /\ b.file # b.source
             /\ \E a \in assets : a.id = b.id /\ FilesOf(b) = FilesOf(a)
  <2>1. PICK a \in assets : Twins(b, a)
    OBVIOUS
  <2> QED
    BY <2>1, <1>1 DEF Twins, FilesOf
<1> QED
  BY <1>2, <1>3 DEF AssetsMove

(* A commit touches no file.                                               *)
LEMMA CommitMove ==
    ASSUME AssetState, part = "resume", NEW p \in Procs, Alone(p), Requested',
           UNCHANGED <<part, jobs, postings, rows, kitOf, uploaded, recycled, files, drawn, torn, murky>>,
           AssetsMove(p), LeftMoves(p), pc[p] \notin {"unlink", "unasset"},
           pc'[p] \notin {"unlink", "unasset", "asset", "variant"},
           req'[p].seen \subseteq req[p].seen,
           \A f \in Own(pc'[p], req'[p]) : f \in Own(pc[p], req[p])
    PROVE  AssetMove(p)
<1>1. drawn' # drawn + 1 /\ murky' \in BOOLEAN
  BY DEF AssetState, Sides
<1>2. NamesMove(p)
  BY <1>1 DEF NamesMove
<1>3. OwnMoves(p)
  BY DEF OwnMoves, AssetState, AssetFiles, OwnFresh
<1>4. HeldMoves(p)
  <2>1. \A f \in Held(req'[p]) : f \in Held(req[p])
    BY DEF Held
  <2>2. Away(pc[p], req[p]) = {} /\ Away(pc'[p], req'[p]) = {}
    BY DEF Away
  <2> QED
    BY <2>1, <2>2 DEF HeldMoves
<1> QED
  BY <1>1, <1>2, <1>3, <1>4 DEF AssetMove

(* UnassetDone moves documents and files as AssetMove and CalmMove say.    *)
LEMMA UnassetDoneMove ==
    ASSUME AssetState, NEW p \in Procs, UnassetDone(p)
    PROVE  AssetMove(p) /\ CalmMove(p) /\ Based'
<1> DEFINE k == req[p].asset
<1>1. /\ Requested' /\ Alone(p) /\ part = "resume" /\ pc[p] = "unasset"
      /\ \/ pc'[p] = "succeed" /\ req'[p].seen = {} /\ req[p].base
         \/ pc'[p] = "idle" /\ req'[p] = NoReq /\ ~req[p].base
      /\ assets' = {a \in assets : a.id # k}
      /\ UNCHANGED <<part, files, drawn, jobVars, asked, torn, murky>>
  BY UnassetDoneFormed DEF AssetState
<1>2. drawn' # drawn + 1 /\ murky \in BOOLEAN
  BY <1>1 DEF AssetState, Sides
<1>3. \A a, b \in assets : a.id = b.id => a = b
  BY DEF AssetState, Assets
<1>4. AssetsMove(p)
  <2>1. \A b \in assets' : b \in AssetSet /\ b \in assets /\ Twins(b, b)
    BY <1>1 DEF AssetState, Assets, Twins
  <2> QED
    BY <2>1, <1>3, Rewritten DEF AssetState
<1>5. /\ Own(pc[p], req[p]) = {} /\ Own(pc'[p], req'[p]) = {}
      /\ Away(pc[p], req[p]) = Held(req[p]) /\ Away(pc'[p], req'[p]) = {} /\ Held(req'[p]) = {}
  <2>1. req'[p].seen = {} /\ pc'[p] \in {"succeed", "idle"}
    BY <1>1, NoReqIs
  <2> QED
    BY <2>1, <1>1 DEF Own, Away, Held
<1>6. \A f \in Held(req[p]) : \A b \in assets' : f \notin FilesOf(b)
  <2>1. \A f \in Held(req[p]) : \A b \in assets : f \in FilesOf(b) => b.id = k
    BY <1>1 DEF AssetState, AssetFiles, AssetsApart
  <2> QED
    BY <2>1, <1>1
<1>7. HeldMoves(p)
  BY <1>1, <1>5, <1>6 DEF HeldMoves
<1>8. NamesMove(p) /\ OwnMoves(p)
  BY <1>1, <1>2, <1>5 DEF NamesMove, OwnMoves
<1>9. LeftMoves(p)
  <2> SUFFICES ASSUME ~murky', NEW a \in assets, NEW f \in FilesOf(a), f \in files'
               PROVE  \E b \in assets' : f \in FilesOf(b)
    BY <1>1, <1>5 DEF LeftMoves
  <2>1. CASE a.id # k
    BY <2>1, <1>1
  <2>2. CASE a.id = k
    <3>1. PICK b \in assets : b.id = k /\ \E s \in req[p].seen : Twins(b, s)
      BY <1>1 DEF AssetState, Calm
    <3>2. PICK s \in req[p].seen : Twins(a, s)
      BY <3>1, <2>2, <1>3
    <3>3. f \in Held(req[p])
      BY <3>2 DEF Held, FilesOf, Twins
    <3>4. f \notin files
      BY <3>3, <1>5 DEF AssetState, AssetFiles, AwayGone
    <3> QED
      BY <3>4, <1>1
  <2> QED
    BY <2>1, <2>2
<1>10. UNCHANGED <<jobs, postings, rows, kitOf, uploaded, recycled>>
  BY <1>1 DEF jobVars
<1>11. AssetMove(p)
  BY <1>1, <1>2, <1>4, <1>7, <1>8, <1>9, <1>10 DEF AssetMove
<1>12. pc[p] \in Deleting /\ ~Bold(pc'[p], req'[p])
  BY <1>1 DEF Deleting, Bold
<1>13. CalmMove(p)
  BY <1>1, <1>12 DEF CalmMove
<1>14. Based'
  <2> SUFFICES ASSUME ~murky' PROVE ~murky' => Based'
    BY DEF Based
  <2>1. /\ \A a, b \in Bases : a = b
        /\ Resumes # {} => Bases # {} \/ \E q \in Procs : pc[q] = "succeed"
        /\ \A a \in Bases : Heir(req[p], a)
    BY <1>1 DEF AssetState, Based
  <2>2. \A q \in Procs : pc[q] \in Deleting => q = p
    BY <1>1, <1>12 DEF AssetState, Calm
  <2>3. \A q \in Procs : pc'[q] \in Deleting => q = p /\ req[p].base /\ pc'[p] = "succeed"
    BY <2>2, <1>1 DEF Alone, Deleting
  <2>4. /\ \A a \in Bases' : a \in Bases /\ a.id # k /\ a \in Resumes'
        /\ \A a \in Resumes' : a \in Resumes
        /\ \A a \in Resumes : a.id # k => a \in Resumes'
        /\ \A a \in Bases : a.id # k => a \in Bases'
    BY <1>1 DEF Bases, Resumes
  <2>5. ASSUME NEW q \in Procs, pc'[q] = "succeed" PROVE Bases' \subseteq Newest'
    <3>1. req[p].base
      BY <2>3, <2>5 DEF Deleting
    <3>2. \A a \in Bases' : a \in Newest
      BY <3>1, <2>1, <2>4 DEF Heir
    <3> QED
      BY <3>2, <2>4 DEF Newest
  <2>6. ASSUME Resumes' # {} PROVE Bases' # {} \/ \E q \in Procs : pc'[q] = "succeed"
    <3>1. CASE req[p].base
      BY <3>1, <1>1
    <3>2. CASE ~req[p].base
      <4>1. Bases # {}
        BY <2>1, <2>2, <2>4, <2>6, <1>1 DEF Deleting
      <4>2. PICK a \in Bases : TRUE
        BY <4>1
      <4>3. a \in Bases'
        BY <4>2, <3>2, <2>1, <2>4 DEF Heir
      <4> QED
        BY <4>3
    <3> QED
      BY <3>1, <3>2
  <2>7. \A q \in Procs : pc'[q] \notin {"unlink", "unasset"}
    BY <2>3 DEF Deleting
  <2> QED
    BY <2>1, <2>4, <2>5, <2>6, <2>7 DEF Based
<1> QED
  BY <1>11, <1>13, <1>14

(* There is one newest resume, if there is any.                            *)
LEMMA NewestIs ==
    ASSUME Sides, Assets
    PROVE  /\ Resumes # {} => Newest # {}
           /\ \A a, b \in Newest : a = b
           /\ \A a \in Newest : a \in assets /\ a.resume
<1> DEFINE ids == {a.id : a \in Resumes}
<1>1. drawn \in Nat /\ \A a \in assets : a.id \in 0 .. drawn
  BY DEF Sides, Assets
<1>2. ids \subseteq 0 .. drawn
  BY <1>1 DEF Resumes
<1>3. ASSUME Resumes # {} PROVE Newest # {}
  <2>1. ids # {}
    BY <1>3
  <2> HIDE DEF ids
  <2>2. PICK x \in ids : \A y \in ids : x >= y
    BY <1>1, <1>2, <2>1, Greatest
  <2>3. PICK a \in Resumes : a.id = x
    BY DEF ids
  <2>4. \A b \in Resumes : b.id \in ids /\ b.id \in Nat /\ a.id \in Nat
    BY <1>1 DEF ids, Resumes
  <2>5. \A b \in Resumes : b.id <= a.id
    BY <2>2, <2>3, <2>4
  <2> QED
    BY <2>5 DEF Newest
<1>4. ASSUME NEW a \in Newest, NEW b \in Newest PROVE a = b
  <2>1. a \in assets /\ b \in assets /\ a.id <= b.id /\ b.id <= a.id
    BY DEF Newest, Resumes
  <2>2. a.id = b.id
    BY <2>1, <1>1
  <2> QED
    BY <2>1, <2>2 DEF Assets
<1> QED
  BY <1>3, <1>4 DEF Newest, Resumes

(* SucceedDone moves documents and files as AssetMove and CalmMove say.    *)
LEMMA SucceedDoneMove ==
    ASSUME AssetState, NEW p \in Procs, SucceedDone(p)
    PROVE  AssetMove(p) /\ CalmMove(p) /\ Based'
<1> DEFINE Raised(a) == [a EXCEPT !.base = TRUE]
<1>1. /\ pc[p] = "succeed" /\ Done(p)
      /\ assets' = (assets \ Newest) \cup {Raised(a) : a \in Newest}
      /\ UNCHANGED <<part, files, drawn, jobVars, asked, torn, murky>>
  BY DEF SucceedDone
<1>2. part = "resume"
  BY <1>1, AssetSide DEF AssetState, ResumeSteps
<1>3. UNCHANGED <<jobs, postings, rows, kitOf, uploaded, recycled>>
  BY <1>1 DEF jobVars
<1>4. Requested' /\ pc'[p] = "idle" /\ req'[p] = NoReq /\ Alone(p)
  BY <1>1, <1>3, DoneFormed DEF AssetState, Alone
<1>5. /\ Resumes # {} => Newest # {}
      /\ \A a, b \in Newest : a = b
      /\ \A a \in Newest : a \in assets /\ a.resume
  BY NewestIs DEF AssetState
<1>6. \A a \in assets : a \in AssetSet /\ \A b \in assets : a.id = b.id => a = b
  BY DEF AssetState, Assets
<1>7. \A a \in assets : /\ Raised(a) \in AssetSet /\ Twins(Raised(a), a) /\ Raised(a).base
                        /\ Raised(a).resume = a.resume
  BY <1>6 DEF AssetSet, Twins
<1> HIDE DEF Raised
<1>8. \A b \in assets' : (b \in assets /\ b \notin Newest) \/ \E a \in Newest : b = Raised(a)
  BY <1>1
<1>9. \A a \in assets : \E b \in assets' : Twins(b, a)
  BY <1>1, <1>7 DEF Twins
<1>10. AssetsMove(p)
  <2>1. ASSUME NEW b \in assets' PROVE b \in AssetSet /\ \E a \in assets : Twins(b, a)
    BY <1>5, <1>6, <1>7, <1>8 DEF Twins
  <2>2. ASSUME NEW b \in assets', NEW c \in assets', b.id = c.id PROVE b = c
    <3>1. \A x \in assets' : \/ x \in assets /\ x \notin Newest
                             \/ \E a \in Newest : x = Raised(a) /\ x.id = a.id /\ a \in assets
      BY <1>5, <1>7, <1>8 DEF Twins
    <3> QED
      BY <3>1, <2>2, <1>6
  <2> QED
    BY <2>1, <2>2, Rewritten DEF AssetState
<1>11. Own(pc[p], req[p]) = {} /\ Own(pc'[p], req'[p]) = {} /\ req'[p].seen = {}
  BY <1>1, <1>4, NoReqIs DEF Own
<1>12. LeftMoves(p)
  <2>1. \A a \in assets : \A f \in FilesOf(a) : \E b \in assets' : f \in FilesOf(b)
    BY <1>9 DEF Twins, FilesOf
  <2> QED
    BY <2>1, <1>1, <1>11 DEF LeftMoves
<1>13. AssetMove(p)
  BY <1>1, <1>2, <1>3, <1>4, <1>10, <1>11, <1>12, CommitMove
<1>14. pc[p] \in Deleting
  BY <1>1 DEF Deleting
<1>15. CalmMove(p)
  BY <1>1, <1>4, <1>14 DEF CalmMove, Bold, Deleting
<1>16. Based'
  <2> SUFFICES ASSUME ~murky' PROVE ~murky' => Based'
    BY DEF Based
  <2>1. Bases \subseteq Newest
    BY <1>1 DEF AssetState, Based
  <2>2. \A q \in Procs : pc[q] \in Deleting => q = p
    BY <1>1, <1>14 DEF AssetState, Calm
  <2>3. \A q \in Procs : pc'[q] \notin Deleting
    BY <2>2, <1>4 DEF Alone, Deleting
  <2>4. \A b \in Bases' : \E a \in Newest : b = Raised(a)
    BY <2>1, <1>8 DEF Bases, Resumes
  <2>5. ASSUME Resumes' # {} PROVE Bases' # {}
    <3>1. Resumes # {}
      BY <2>5, <1>5, <1>8 DEF Resumes
    <3>2. PICK a \in Newest : TRUE
      BY <3>1, <1>5
    <3>3. Raised(a) \in Bases'
      BY <3>2, <1>1, <1>5, <1>7 DEF Bases, Resumes
    <3> QED
      BY <3>3
  <2> QED
    BY <2>3, <2>4, <2>5, <1>5 DEF Based, Deleting
<1> QED
  BY <1>13, <1>15, <1>16

(* A new document is one.                                                  *)
LEMMA AssetIs ==
    ASSUME Sides, Assets, NEW f \in Nat, NEW resume \in BOOLEAN, NEW base \in BOOLEAN
    PROVE  /\ Asset(f, resume, base) \in AssetSet
           /\ Asset(f, resume, base).id = NextAsset /\ Asset(f, resume, base).file = f
           /\ Asset(f, resume, base).source = 0 /\ Asset(f, resume, base).resume = resume
           /\ Asset(f, resume, base).base = base
           /\ f # 0 => FilesOf(Asset(f, resume, base)) = {f}
<1>1. NextAsset \in Nat
  BY NextIs DEF Sides
<1>2. /\ Asset(f, resume, base).id = NextAsset /\ Asset(f, resume, base).file = f
      /\ Asset(f, resume, base).source = 0 /\ Asset(f, resume, base).resume = resume
      /\ Asset(f, resume, base).base = base
  BY DEF Asset
<1>3. Asset(f, resume, base) \in AssetSet
  BY <1>1 DEF AssetSet, Asset
<1> QED
  BY <1>2, <1>3 DEF FilesOf

(* A new document beside those there were, whose files stay.               *)
LEMMA Added ==
    ASSUME AssetState, NEW p \in Procs, pc[p] \in {"asset", "variant"}, NEW N, N \in AssetSet,
           N.id = NextAsset, N.file = req[p].new, N.source = 0, FilesOf(N) = {req[p].new},
           req[p].new \in Own(pc[p], req[p]) \ Own(pc'[p], req'[p]), files' = files,
           NEW Old, assets' = Old \cup {N}, \A b \in Old : b \in AssetSet /\ \E a \in assets : Twins(b, a),
           \A b, c \in Old : b.id = c.id => b = c
    PROVE  AssetsMove(p)
<1>1. \A a \in assets : a.file # 0 /\ a.file # a.source
  BY DEF AssetState, Assets, AssetFiles, AssetsApart
<1>2. \A f \in Own(pc[p], req[p]) : f \in files /\ f # 0 /\ \A a \in assets : f \notin FilesOf(a)
  <2>1. files \subseteq 1 .. drawn /\ drawn \in Nat
    BY DEF AssetState, Tables, Sides
  <2> QED
    BY <2>1 DEF AssetState, AssetFiles, OwnFresh
<1>3. ASSUME NEW b \in Old
      PROVE  /\ b.file # 0 /\ b.file # b.source
             /\ \E a \in assets : a.id = b.id /\ FilesOf(b) = FilesOf(a)
  <2>1. PICK a \in assets : Twins(b, a)
    OBVIOUS
  <2> QED
    BY <2>1, <1>1 DEF Twins, FilesOf
<1>4. \A a \in assets : a.id # NextAsset
  <2>1. \A a \in assets : a.id \in Nat /\ a.id < NextAsset
    BY NextIs DEF AssetState
  <2>2. NextAsset \in Nat
    BY NextIs DEF AssetState, Sides
  <2> QED
    BY <2>1, <2>2
<1>5. \A b, c \in assets' : b.id = c.id => b = c
  BY <1>3, <1>4
<1>6. \A b \in assets' : \A f \in FilesOf(b) :
          \/ \E a \in assets : a.id = b.id /\ f \in FilesOf(a)
          \/ f \in Own(pc[p], req[p]) \ Own(pc'[p], req'[p]) /\ f \in files'
  BY <1>2, <1>3
<1>7. \A b, c \in assets' : \A f \in Own(pc[p], req[p]) :
          f \in FilesOf(b) /\ f \in FilesOf(c) => b.id = c.id
  BY <1>2, <1>3
<1>8. \A b \in assets' : b \in AssetSet /\ b.file # 0 /\ b.file # b.source
  BY <1>2, <1>3
<1>9. \A b \in assets' : \/ \E a \in assets : a.id = b.id
                         \/ b.id = NextAsset /\ pc[p] \in {"asset", "variant"}
  BY <1>3
<1> QED
  BY <1>5, <1>6, <1>7, <1>8, <1>9 DEF AssetsMove

(* AssetDone moves documents and files as AssetMove and CalmMove say.      *)
LEMMA AssetDoneMove ==
    ASSUME AssetState, NEW p \in Procs, AssetDone(p)
    PROVE  AssetMove(p) /\ CalmMove(p) /\ Based'
<1> DEFINE new == req[p].new
           N == Asset(new, FALSE, FALSE)
<1>1. /\ Requested' /\ Alone(p) /\ part = "resume" /\ pc[p] = "asset"
      /\ \/ /\ pc'[p] = "draft" /\ req'[p].source = 0 /\ req'[p].seen = {} /\ req'[p].op = "draft"
         \/ pc'[p] = "idle" /\ req'[p] = NoReq
      /\ assets' = assets \cup {N}
      /\ UNCHANGED <<part, files, drawn, jobVars, asked, torn, murky>>
  BY AssetDoneFormed DEF AssetState
<1>2. /\ Own(pc[p], req[p]) = {new} /\ Own(pc'[p], req'[p]) = {} /\ req'[p].seen = {}
      /\ pc'[p] \in {"draft", "idle"} /\ ~Bold(pc'[p], req'[p])
  BY <1>1, NoReqIs DEF Own, Bold
<1>3. new \in Nat /\ new # 0
  BY <1>1 DEF AssetState, Requested, Formed, ReqSet
<1>4. /\ N \in AssetSet /\ N.id = NextAsset /\ N.file = new /\ N.source = 0 /\ N.resume = FALSE
      /\ FilesOf(N) = {new}
  BY <1>3, AssetIs DEF AssetState
<1> HIDE DEF N
<1>5. AssetsMove(p)
  <2>1. \A b \in assets : b \in AssetSet /\ Twins(b, b)
    BY DEF AssetState, Assets, Twins
  <2>2. \A b, c \in assets : b.id = c.id => b = c
    BY DEF AssetState, Assets
  <2>3. files' = files
    BY <1>1
  <2> QED
    BY <2>1, <2>2, <2>3, <1>1, <1>2, <1>4, Added
<1>6. LeftMoves(p)
  BY <1>1, <1>2, <1>4 DEF LeftMoves
<1>7. UNCHANGED <<jobs, postings, rows, kitOf, uploaded, recycled>>
  BY <1>1 DEF jobVars
<1>8. AssetMove(p)
  BY <1>1, <1>2, <1>5, <1>6, <1>7, CommitMove
<1>9. CalmMove(p)
  <2>1. \A a \in assets : \E b \in assets' : Twins(b, a) /\ b.resume = a.resume
    BY <1>1 DEF Twins
  <2> QED
    BY <2>1, <1>1, <1>2 DEF CalmMove, Deleting
<1>10. Based'
  <2> SUFFICES ASSUME ~murky' PROVE ~murky' => Based'
    BY DEF Based
  <2>1. Resumes' = Resumes
    BY <1>1, <1>4 DEF Resumes
  <2>2. Bases' = Bases /\ Newest' = Newest
    BY <2>1 DEF Bases, Newest
  <2>3. /\ \A a, b \in Bases : a = b
        /\ Resumes # {} => Bases # {} \/ \E q \in Procs : pc[q] = "succeed"
        /\ \A q \in Procs : pc[q] = "succeed" => Bases \subseteq Newest
        /\ \A q \in Procs : pc[q] \in {"unlink", "unasset"} => \A a \in Bases : Heir(req[q], a)
    BY <1>1 DEF AssetState, Based
  <2>4. \A q \in Procs : pc'[q] \in Deleting => pc'[q] = pc[q] /\ req'[q] = req[q]
    BY <1>1, <1>2 DEF Alone, Deleting
  <2>5. \A q \in Procs : pc[q] = "succeed" => pc'[q] = "succeed"
    BY <1>1 DEF Alone
  <2>6. \A q \in Procs : pc'[q] \in {"unlink", "unasset"} => \A a \in Bases' : Heir(req[q], a)'
    BY <2>2, <2>3, <2>4 DEF Heir, Deleting
  <2>7. \A q \in Procs : pc'[q] = "succeed" => Bases' \subseteq Newest'
    BY <2>2, <2>3, <2>4 DEF Deleting
  <2>8. Resumes' # {} => Bases' # {} \/ \E q \in Procs : pc'[q] = "succeed"
    BY <2>1, <2>2, <2>3, <2>5
  <2> QED
    BY <2>2, <2>3, <2>6, <2>7, <2>8 DEF Based
<1> QED
  BY <1>8, <1>9, <1>10

(* The rows after the UPDATE that demotes the base.                        *)
LEMMA DemotedIs ==
    ASSUME Assets
    PROVE  /\ \A d \in Demoted : /\ d \in AssetSet /\ ~(d.resume /\ d.base)
                                 /\ \E a \in assets : Twins(d, a) /\ d.resume = a.resume
           /\ \A a \in assets : \E d \in Demoted : Twins(d, a) /\ d.resume = a.resume
           /\ \A d, e \in Demoted : d.id = e.id => d = e
<1> DEFINE Lower(a) == [a EXCEPT !.base = a.base /\ ~a.resume]
<1>1. Demoted = {Lower(a) : a \in assets}
  BY DEF Demoted
<1>2. \A a \in assets : a \in AssetSet /\ \A b \in assets : a.id = b.id => a = b
  BY DEF Assets
<1>3. ASSUME NEW a \in assets
      PROVE  /\ Lower(a) \in AssetSet /\ Twins(Lower(a), a) /\ Lower(a).resume = a.resume
             /\ ~(Lower(a).resume /\ Lower(a).base)
  <2>1. a \in AssetSet
    BY <1>2
  <2>2. /\ Lower(a).id = a.id /\ Lower(a).file = a.file /\ Lower(a).source = a.source
        /\ Lower(a).resume = a.resume /\ Lower(a).base = (a.base /\ ~a.resume)
    BY <2>1 DEF AssetSet
  <2>3. (a.base /\ ~a.resume) \in BOOLEAN
    OBVIOUS
  <2>4. Lower(a) \in AssetSet
    BY <2>1, <2>3 DEF AssetSet
  <2> QED
    BY <2>2, <2>4 DEF Twins
<1> HIDE DEF Lower
<1>4. \A d \in Demoted : \E a \in assets : d = Lower(a)
  BY <1>1
<1>5. \A d, e \in Demoted : d.id = e.id => d = e
  <2> SUFFICES ASSUME NEW d \in Demoted, NEW e \in Demoted, d.id = e.id PROVE d = e
    OBVIOUS
  <2>1. PICK a \in assets : d = Lower(a)
    BY <1>4
  <2>2. PICK b \in assets : e = Lower(b)
    BY <1>4
  <2>3. a.id = b.id
    BY <2>1, <2>2, <1>3 DEF Twins
  <2> QED
    BY <2>1, <2>2, <2>3, <1>2
<1> QED
  BY <1>1, <1>3, <1>4, <1>5

(* VariantDone moves documents and files as AssetMove and CalmMove say.    *)
LEMMA VariantDoneMove ==
    ASSUME AssetState, NEW p \in Procs, VariantDone(p)
    PROVE  AssetMove(p) /\ CalmMove(p) /\ Based'
<1> DEFINE new == req[p].new
           N == Asset(new, TRUE, TRUE)
<1>1. /\ Requested' /\ Alone(p) /\ part = "resume" /\ pc[p] = "variant"
      /\ \/ /\ pc'[p] = "source" /\ req[p].op = "custom" /\ req'[p].asset = NextAsset
            /\ req'[p].source = req[p].source /\ req'[p].seen = req[p].seen
         \/ pc'[p] = "idle" /\ req'[p] = NoReq /\ req[p].op = "draft"
      /\ assets' = Demoted \cup {N}
      /\ UNCHANGED <<part, files, drawn, jobVars, asked, torn, murky>>
  BY VariantDoneFormed DEF AssetState
<1>2. new \in Nat /\ new # 0 /\ (req[p].op = "draft" => req[p].source = 0)
  BY <1>1 DEF AssetState, Requested, Formed, ReqSet, ResumeReq
<1>3. new # req[p].source
  BY <1>1 DEF AssetState, AssetFiles, OwnFresh
<1>4. /\ Own(pc[p], req[p]) = {new} \cup ({req[p].source} \ {0})
      /\ Own(pc'[p], req'[p]) = {req[p].source} \ {0}
      /\ req'[p].seen \subseteq req[p].seen /\ pc'[p] \in {"source", "idle"}
      /\ Bold(pc'[p], req'[p]) => Bold(pc[p], req[p])
  BY <1>1, <1>2, NoReqIs DEF Own, Bold
<1>5. /\ N \in AssetSet /\ N.id = NextAsset /\ N.file = new /\ N.source = 0 /\ N.resume = TRUE
      /\ N.base = TRUE /\ FilesOf(N) = {new}
  BY <1>2, AssetIs DEF AssetState
<1> HIDE DEF N
<1>6. /\ \A d \in Demoted : /\ d \in AssetSet /\ ~(d.resume /\ d.base)
                            /\ \E a \in assets : Twins(d, a) /\ d.resume = a.resume
      /\ \A a \in assets : \E d \in Demoted : Twins(d, a) /\ d.resume = a.resume
      /\ \A d, e \in Demoted : d.id = e.id => d = e
  BY DemotedIs DEF AssetState
<1>7. AssetsMove(p)
  <2>1. new \in Own(pc[p], req[p]) \ Own(pc'[p], req'[p]) /\ files' = files
    BY <1>1, <1>3, <1>4
  <2>2. pc[p] \in {"asset", "variant"}
    BY <1>1
  <2>3. \A d \in Demoted : d \in AssetSet /\ \E a \in assets : Twins(d, a)
    BY <1>6
  <2> QED
    BY <2>1, <2>2, <2>3, <1>1, <1>5, <1>6, Added
<1>8. LeftMoves(p)
  <2>1. \A a \in assets : \A f \in FilesOf(a) : \E b \in assets' : f \in FilesOf(b)
    BY <1>1, <1>6 DEF Twins, FilesOf
  <2> QED
    BY <2>1, <1>1, <1>4, <1>5 DEF LeftMoves
<1>9. UNCHANGED <<jobs, postings, rows, kitOf, uploaded, recycled>>
  BY <1>1 DEF jobVars
<1>10. AssetMove(p)
  BY <1>1, <1>4, <1>7, <1>8, <1>9, CommitMove
<1>11. \A a \in assets : a.id \in Nat /\ a.id < NextAsset /\ a.id # NextAsset /\ NextAsset \in Nat
  <2>1. \A a \in assets : a.id \in Nat /\ a.id < NextAsset
    BY NextIs DEF AssetState
  <2>2. NextAsset \in Nat
    BY NextIs DEF AssetState, Sides
  <2> QED
    BY <2>1, <2>2
<1>12. CalmMove(p)
  <2>1. \A a \in assets : \E b \in assets' : Twins(b, a) /\ b.resume = a.resume
    BY <1>1, <1>6
  <2>2. pc'[p] = "source" => /\ \E a \in assets' : a.id = req'[p].asset /\ a.source = 0
                             /\ \A a \in assets : a.id # req'[p].asset
    BY <1>1, <1>5, <1>11
  <2>3. pc'[p] \notin Deleting /\ pc'[p] # "promote"
    BY <1>4 DEF Deleting
  <2> QED
    BY <2>1, <2>2, <2>3, <1>1, <1>4 DEF CalmMove, Deleting
<1>13. Based'
  <2> SUFFICES ASSUME ~murky' PROVE ~murky' => Based'
    BY DEF Based
  <2>1. Bases' = {N}
    BY <1>1, <1>5, <1>6 DEF Bases, Resumes
  <2>2. N \in Newest'
    <3>1. N \in Resumes'
      BY <1>1, <1>5 DEF Resumes
    <3>2. ASSUME NEW b \in Resumes' PROVE b.id <= N.id
      <4>1. CASE b = N
        BY <4>1, <1>5, NextIs DEF AssetState, Sides
      <4>2. CASE b \in Demoted
        <5>1. PICK a \in assets : Twins(b, a)
          BY <4>2, <1>6
        <5>2. a.id \in Nat /\ a.id < NextAsset /\ NextAsset \in Nat
          BY <1>11
        <5> QED
          BY <5>1, <5>2, <1>5 DEF Twins
      <4> QED
        BY <4>1, <4>2, <1>1 DEF Resumes
    <3> QED
      BY <3>1, <3>2 DEF Newest
  <2>3. ASSUME NEW q \in Procs, pc'[q] \in {"unlink", "unasset"} PROVE N.id # req'[q].asset
    <3>1. pc[q] = pc'[q] /\ req'[q] = req[q]
      BY <2>3, <1>4, <1>1 DEF Alone
    <3>2. \E b \in assets : b.id = req[q].asset
      BY <3>1, <2>3, <1>1 DEF AssetState, Calm
    <3> QED
      BY <3>1, <3>2, <1>5, <1>11
  <2>4. \A q \in Procs : pc'[q] \in {"unlink", "unasset"} => \A a \in Bases' : Heir(req[q], a)'
    BY <2>1, <2>2, <2>3 DEF Heir
  <2> QED
    BY <2>1, <2>2, <2>4 DEF Based
<1> QED
  BY <1>10, <1>12, <1>13

(* PromoteDone moves documents and files as AssetMove and CalmMove say.    *)
LEMMA PromoteDoneMove ==
    ASSUME AssetState, NEW p \in Procs, PromoteDone(p)
    PROVE  AssetMove(p) /\ CalmMove(p) /\ Based'
<1> DEFINE k == req[p].asset
           Crowned(d) == [d EXCEPT !.base = TRUE]
<1>1. /\ pc[p] = "promote" /\ Done(p)
      /\ assets' = IF \A a \in assets : a.id # k THEN assets
                   ELSE {IF a.id = k THEN Crowned(a) ELSE a : a \in Demoted}
      /\ UNCHANGED <<part, files, drawn, jobVars, asked, torn, murky>>
  BY DEF PromoteDone
<1>2. part = "resume"
  BY <1>1, AssetSide DEF AssetState, ResumeSteps
<1>3. UNCHANGED <<jobs, postings, rows, kitOf, uploaded, recycled>>
  BY <1>1 DEF jobVars
<1>4. Requested' /\ pc'[p] = "idle" /\ req'[p] = NoReq /\ Alone(p)
  BY <1>1, <1>3, DoneFormed DEF AssetState, Alone
<1>5. /\ \A d \in Demoted : /\ d \in AssetSet /\ ~(d.resume /\ d.base)
                            /\ \E a \in assets : Twins(d, a) /\ d.resume = a.resume
      /\ \A a \in assets : \E d \in Demoted : Twins(d, a) /\ d.resume = a.resume
      /\ \A d, e \in Demoted : d.id = e.id => d = e
  BY DemotedIs DEF AssetState
<1>6. \A d \in Demoted : /\ Crowned(d) \in AssetSet /\ Twins(Crowned(d), d) /\ Crowned(d).base
                         /\ Crowned(d).resume = d.resume
  BY <1>5 DEF AssetSet, Twins
<1> HIDE DEF Crowned
<1>7. \A a \in assets : a \in AssetSet /\ Twins(a, a) /\ \A b \in assets : a.id = b.id => a = b
  BY DEF AssetState, Assets, Twins
<1>8. ASSUME ~ \A a \in assets : a.id # k
      PROVE  /\ \A b \in assets' : \E d \in Demoted : /\ Twins(b, d) /\ b.resume = d.resume
                                                      /\ b = IF d.id = k THEN Crowned(d) ELSE d
             /\ \A d \in Demoted : \E b \in assets' : /\ Twins(b, d) /\ b.resume = d.resume
                                                      /\ d.id = k => b.base
  <2>1. assets' = {IF d.id = k THEN Crowned(d) ELSE d : d \in Demoted}
    BY <1>1, <1>8
  <2>2. \A d \in Demoted : LET b == IF d.id = k THEN Crowned(d) ELSE d
                           IN  b \in assets' /\ Twins(b, d) /\ b.resume = d.resume /\ (d.id = k => b.base)
    BY <2>1, <1>6 DEF Twins
  <2>3. \A b \in assets' : \E d \in Demoted : b = IF d.id = k THEN Crowned(d) ELSE d
    BY <2>1
  <2> QED
    BY <2>2, <2>3
<1>9. \A a \in assets : \E b \in assets' : Twins(b, a) /\ b.resume = a.resume
  <2>1. CASE \A a \in assets : a.id # k
    BY <2>1, <1>1, <1>7
  <2>2. CASE ~ \A a \in assets : a.id # k
    <3> SUFFICES ASSUME NEW a \in assets PROVE \E b \in assets' : Twins(b, a) /\ b.resume = a.resume
      OBVIOUS
    <3>1. PICK d \in Demoted : Twins(d, a) /\ d.resume = a.resume
      BY <1>5
    <3>2. PICK b \in assets' : Twins(b, d) /\ b.resume = d.resume
      BY <2>2, <1>8
    <3> QED
      BY <3>1, <3>2 DEF Twins
  <2> QED
    BY <2>1, <2>2
<1>10. /\ \A b \in assets' : b \in AssetSet /\ \E a \in assets : Twins(b, a)
       /\ \A b, c \in assets' : b.id = c.id => b = c
  <2>1. CASE \A a \in assets : a.id # k
    BY <2>1, <1>1, <1>7
  <2>2. CASE ~ \A a \in assets : a.id # k
    <3>1. ASSUME NEW b \in assets' PROVE b \in AssetSet /\ \E a \in assets : Twins(b, a)
      <4>1. PICK d \in Demoted : Twins(b, d) /\ b = IF d.id = k THEN Crowned(d) ELSE d
        BY <2>2, <1>8
      <4> QED
        BY <4>1, <1>5, <1>6 DEF Twins
    <3>2. ASSUME NEW b \in assets', NEW c \in assets', b.id = c.id PROVE b = c
      <4>1. PICK d \in Demoted : Twins(b, d) /\ b = IF d.id = k THEN Crowned(d) ELSE d
        BY <2>2, <1>8
      <4>2. PICK e \in Demoted : Twins(c, e) /\ c = IF e.id = k THEN Crowned(e) ELSE e
        BY <2>2, <1>8
      <4>3. d = e
        BY <4>1, <4>2, <3>2, <1>5 DEF Twins
      <4> QED
        BY <4>1, <4>2, <4>3
    <3> QED
      BY <3>1, <3>2
  <2> QED
    BY <2>1, <2>2
<1>11. AssetsMove(p)
  BY <1>10, Rewritten DEF AssetState
<1>12. Own(pc[p], req[p]) = {} /\ Own(pc'[p], req'[p]) = {} /\ req'[p].seen = {}
  BY <1>1, <1>4, NoReqIs DEF Own
<1>13. LeftMoves(p)
  <2>1. \A a \in assets : \A f \in FilesOf(a) : \E b \in assets' : f \in FilesOf(b)
    BY <1>9 DEF Twins, FilesOf
  <2> QED
    BY <2>1, <1>1, <1>12 DEF LeftMoves
<1>14. AssetMove(p)
  BY <1>1, <1>2, <1>3, <1>4, <1>11, <1>12, <1>13, CommitMove
<1>15. CalmMove(p)
  BY <1>1, <1>4, <1>9 DEF CalmMove, Bold, Deleting
<1>16. Based'
  <2> SUFFICES ASSUME ~murky' PROVE ~murky' => Based'
    BY DEF Based
  <2>1. PICK x \in Resumes : x.id = k
    BY <1>1 DEF AssetState, Calm
  <2>2. ~ \A a \in assets : a.id # k
    BY <2>1 DEF Resumes
  <2>3. \A q \in Procs : pc[q] \notin Deleting
    BY <1>1 DEF AssetState, Calm, Bold
  <2>4. \A q \in Procs : pc'[q] \notin Deleting
    BY <2>3, <1>4 DEF Alone, Deleting
  <2>5. ASSUME NEW b \in Bases' PROVE b.id = k
    <3>1. PICK d \in Demoted : Twins(b, d) /\ b = IF d.id = k THEN Crowned(d) ELSE d
      BY <2>2, <1>8 DEF Bases, Resumes
    <3>2. b.resume /\ b.base
      BY DEF Bases, Resumes
    <3> QED
      BY <3>1, <3>2, <1>5 DEF Twins
  <2>6. \A a, b \in Bases' : a = b
    BY <2>5, <1>10 DEF Bases, Resumes
  <2>7. Bases' # {}
    <3>1. PICK d \in Demoted : Twins(d, x) /\ d.resume = x.resume
      BY <1>5 DEF Resumes
    <3>2. d.id = k
      BY <3>1, <2>1 DEF Twins
    <3>3. PICK b \in assets' : b.resume = d.resume /\ b.base
      BY <3>2, <2>2, <1>8
    <3>4. b \in Bases'
      BY <3>1, <3>3 DEF Bases, Resumes
    <3> QED
      BY <3>4
  <2> QED
    BY <2>4, <2>6, <2>7 DEF Based, Deleting
<1> QED
  BY <1>14, <1>15, <1>16

(* SourceDone moves documents and files as AssetMove and CalmMove say.     *)
LEMMA SourceDoneMove ==
    ASSUME AssetState, NEW p \in Procs, SourceDone(p)
    PROVE  AssetMove(p) /\ CalmMove(p) /\ Based'
<1> DEFINE k == req[p].asset
           src == req[p].source
           Sourced(a) == [a EXCEPT !.source = src]
<1>1. /\ pc[p] = "source" /\ Done(p)
      /\ assets' = {IF a.id = k THEN Sourced(a) ELSE a : a \in assets}
      /\ UNCHANGED <<part, files, drawn, jobVars, asked, torn, murky>>
  BY DEF SourceDone
<1>2. part = "resume"
  BY <1>1, AssetSide DEF AssetState, ResumeSteps
<1>3. UNCHANGED <<jobs, postings, rows, kitOf, uploaded, recycled>>
  BY <1>1 DEF jobVars
<1>4. Requested' /\ pc'[p] = "idle" /\ req'[p] = NoReq /\ Alone(p)
  BY <1>1, <1>3, DoneFormed DEF AssetState, Alone
<1>5. src # 0 /\ src \in Nat
  BY <1>1 DEF AssetState, Requested, Formed, ReqSet, ResumeReq
<1>6. Own(pc[p], req[p]) = {src} /\ Own(pc'[p], req'[p]) = {} /\ req'[p].seen = {}
  BY <1>1, <1>4, <1>5, NoReqIs DEF Own
<1>7. src \in files /\ \A a \in assets : src \notin FilesOf(a)
  BY <1>6 DEF AssetState, AssetFiles, OwnFresh
<1>8. \A a \in assets : /\ a \in AssetSet /\ a.file # 0 /\ a.file # a.source
                        /\ \A b \in assets : a.id = b.id => a = b
  BY DEF AssetState, Assets, AssetFiles, AssetsApart
<1>9. \A a \in assets : /\ Sourced(a) \in AssetSet /\ Sourced(a).id = a.id /\ Sourced(a).file = a.file
                        /\ Sourced(a).source = src /\ Sourced(a).resume = a.resume
                        /\ Sourced(a).base = a.base
  BY <1>5, <1>8 DEF AssetSet
<1> HIDE DEF Sourced
<1>10. \A b \in assets' : \E a \in assets : b = IF a.id = k THEN Sourced(a) ELSE a
  BY <1>1
<1>11. \A a \in assets : (IF a.id = k THEN Sourced(a) ELSE a) \in assets'
  BY <1>1
<1>12. ASSUME NEW b \in assets'
       PROVE  /\ b \in AssetSet /\ b.file # 0 /\ b.file # b.source
              /\ \E a \in assets : /\ a.id = b.id /\ b = IF a.id = k THEN Sourced(a) ELSE a
                                   /\ b.resume = a.resume /\ b.base = a.base
                                   /\ \A f \in FilesOf(b) : f \in FilesOf(a) \/ (f = src /\ b.id = k)
  <2>1. PICK a \in assets : b = IF a.id = k THEN Sourced(a) ELSE a
    BY <1>10
  <2>2. a.file \in FilesOf(a) /\ a.file # src
    BY <1>7, <1>8 DEF FilesOf
  <2>3. b \in AssetSet /\ b.id = a.id /\ b.file = a.file /\ b.resume = a.resume /\ b.base = a.base
    BY <2>1, <1>8, <1>9
  <2>4. (b.source = src /\ b.id = k) \/ b = a
    BY <2>1, <1>9
  <2>5. \A f \in FilesOf(b) : f \in FilesOf(a) \/ (f = src /\ b.id = k)
    BY <2>2, <2>3, <2>4 DEF FilesOf
  <2>6. b.file # b.source
    BY <2>2, <2>3, <2>4, <1>8
  <2> QED
    BY <2>1, <2>3, <2>5, <2>6, <1>8
<1>13. AssetsMove(p)
  <2>1. \A b, c \in assets' : b.id = c.id => b = c
    BY <1>8, <1>12
  <2>2. \A b \in assets' : \A f \in FilesOf(b) :
            \/ \E a \in assets : a.id = b.id /\ f \in FilesOf(a)
            \/ f \in Own(pc[p], req[p]) \ Own(pc'[p], req'[p]) /\ f \in files'
    BY <1>1, <1>6, <1>7, <1>12
  <2>3. \A b, c \in assets' : \A f \in Own(pc[p], req[p]) :
            f \in FilesOf(b) /\ f \in FilesOf(c) => b.id = c.id
    BY <1>6, <1>7, <1>12
  <2>4. \A b \in assets' : b \in AssetSet /\ b.file # 0 /\ b.file # b.source /\ \E a \in assets : a.id = b.id
    BY <1>12
  <2> QED
    BY <2>1, <2>2, <2>3, <2>4 DEF AssetsMove
<1>14. ~murky => /\ \E a \in assets : a.id = k /\ a.source = 0
                 /\ \A q \in Procs : pc[q] \notin Deleting
  BY <1>1 DEF AssetState, Calm, Bold
<1>15. LeftMoves(p)
  <2> SUFFICES ASSUME ~murky
               PROVE  /\ \A a \in assets : \A f \in FilesOf(a) : \E b \in assets' : f \in FilesOf(b)
                      /\ \E b \in assets' : src \in FilesOf(b)
    BY <1>1, <1>6 DEF LeftMoves
  <2>1. PICK x \in assets : x.id = k /\ x.source = 0
    BY <1>14
  <2>2. Sourced(x) \in assets' /\ FilesOf(Sourced(x)) = {x.file, src}
    BY <2>1, <1>5, <1>8, <1>9, <1>11 DEF FilesOf
  <2>3. FilesOf(x) = {x.file}
    BY <2>1, <1>8 DEF FilesOf
  <2>4. ASSUME NEW a \in assets, NEW f \in FilesOf(a) PROVE \E b \in assets' : f \in FilesOf(b)
    <3>1. CASE a.id = k
      BY <3>1, <2>1, <2>2, <2>3, <2>4, <1>8
    <3>2. CASE a.id # k
      BY <3>2, <2>4, <1>11
    <3> QED
      BY <3>1, <3>2
  <2> QED
    BY <2>2, <2>4
<1>16. AssetMove(p)
  BY <1>1, <1>2, <1>3, <1>4, <1>6, <1>13, <1>15, CommitMove
<1>17. CalmMove(p)
  <2>1. ASSUME NEW a \in assets
        PROVE  \/ \E b \in assets' : Twins(b, a) /\ b.resume = a.resume
               \/ /\ pc[p] = "source" /\ a.id = k
                  /\ \E b \in assets' : b.id = a.id /\ b.resume = a.resume
    <3>1. CASE a.id = k
      BY <3>1, <1>1, <1>9, <1>11
    <3>2. CASE a.id # k
      BY <3>2, <1>11 DEF Twins
    <3> QED
      BY <3>1, <3>2
  <2> QED
    BY <2>1, <1>1, <1>4 DEF CalmMove, Bold, Deleting
<1>18. Based'
  <2> SUFFICES ASSUME ~murky' PROVE ~murky' => Based'
    BY DEF Based
  <2>1. \A q \in Procs : pc[q] \notin Deleting /\ pc'[q] \notin Deleting
    BY <1>1, <1>4, <1>14 DEF Alone, Deleting
  <2>2. /\ \A a, b \in Bases : a = b
        /\ Resumes # {} => Bases # {} \/ \E q \in Procs : pc[q] = "succeed"
    BY <1>1 DEF AssetState, Based
  <2>3. \A b \in Bases' : \E a \in Bases : b = IF a.id = k THEN Sourced(a) ELSE a
    BY <1>12 DEF Bases, Resumes
  <2>4. ASSUME Resumes' # {} PROVE Bases' # {}
    <3>1. Resumes # {}
      BY <2>4, <1>12 DEF Resumes
    <3>2. PICK a \in Bases : TRUE
      BY <3>1, <2>1, <2>2 DEF Deleting
    <3>3. (IF a.id = k THEN Sourced(a) ELSE a) \in Bases'
      BY <3>2, <1>9, <1>11 DEF Bases, Resumes
    <3> QED
      BY <3>3
  <2> QED
    BY <2>1, <2>2, <2>3, <2>4 DEF Based, Deleting
<1> QED
  BY <1>16, <1>17, <1>18

(* The edit form: an id, a file and a source stay what they were.          *)
LEMMA EditAssetKept ==
    ASSUME AssetState, part = "resume", EditAsset
    PROVE  Assets' /\ Tables' /\ Requested' /\ AssetFiles' /\ Roomy' /\ Calm' /\ Based'
<1>1. PICK a \in assets : assets' = (assets \ {a}) \cup {[a EXCEPT !.resume = ~@]}
  BY DEF EditAsset
<1>2. UNCHANGED <<part, files, drawn, jobVars, pc, req, faults, asked, torn>> /\ murky' = TRUE
  BY DEF EditAsset
<1> DEFINE N == [a EXCEPT !.resume = ~@]
<1>3. \A b \in assets : /\ b \in AssetSet /\ b.id \in 1 .. drawn /\ b.file \in 1 .. drawn
                        /\ b.source \in 0 .. drawn
                        /\ \A c \in assets : b.id = c.id => b = c
  BY DEF AssetState, Assets
<1>4. N \in AssetSet /\ Twins(N, a)
  BY <1>3 DEF AssetSet, Twins
<1>5. assets' = (assets \ {a}) \cup {N}
  BY <1>1
<1> HIDE DEF N
<1>6. \A b \in assets' : b \in AssetSet /\ \E c \in assets : Twins(b, c) /\ FilesOf(b) = FilesOf(c)
                                                             /\ (b = c \/ (b = N /\ c = a))
  BY <1>3, <1>4, <1>5 DEF Twins, FilesOf
<1>7. \A b \in assets : \E c \in assets' : FilesOf(b) = FilesOf(c)
  BY <1>4, <1>5 DEF Twins, FilesOf
<1>8. \A b, c \in assets' : b.id = c.id => b = c
  BY <1>3, <1>4, <1>5 DEF Twins
<1>9. Assets'
  <2>1. assets' \subseteq AssetSet
    BY <1>6
  <2>2. \A b \in assets' : b.id \in 1 .. drawn' /\ b.file \in 1 .. drawn' /\ b.source \in 0 .. drawn'
    BY <1>2, <1>3, <1>6 DEF Twins
  <2> QED
    BY <2>1, <2>2, <1>8 DEF Assets
<1>10. Tables'
  BY <1>2 DEF AssetState, Tables, jobVars
<1>11. Requested'
  BY <1>2 DEF AssetState, Requested, jobVars
<1>12. OwnFresh'
  <2>1. OwnFresh
    BY DEF AssetState, AssetFiles
  <2>2. \A q \in Procs : \A f \in Own(pc[q], req[q]) : \A b \in assets' : f \notin FilesOf(b)
    BY <2>1, <1>6 DEF OwnFresh
  <2> QED
    BY <2>1, <2>2, <1>2 DEF OwnFresh
<1>13. AssetsApart'
  <2>1. AssetsApart
    BY DEF AssetState, AssetFiles
  <2>2. \A b, c \in assets' : \A f \in FilesOf(b) : f \in FilesOf(c) => b = c
    <3> SUFFICES ASSUME NEW b \in assets', NEW c \in assets', NEW f, f \in FilesOf(b), f \in FilesOf(c)
                 PROVE  b.id = c.id
      BY <1>8
    <3>1. PICK x \in assets : Twins(b, x) /\ FilesOf(b) = FilesOf(x)
      BY <1>6
    <3>2. PICK y \in assets : Twins(c, y) /\ FilesOf(c) = FilesOf(y)
      BY <1>6
    <3>3. x = y
      BY <3>1, <3>2, <2>1 DEF AssetsApart
    <3> QED
      BY <3>1, <3>2, <3>3 DEF Twins
  <2>3. \A b \in assets' : b.file # b.source
    BY <2>1, <1>6 DEF AssetsApart, Twins
  <2>4. \A q \in Procs : pc[q] \in {"unlink", "unasset"} =>
            \A f \in Held(req[q]) : \A b \in assets' : f \in FilesOf(b) => b.id = req[q].asset
    BY <2>1, <1>6 DEF AssetsApart, Twins
  <2> QED
    BY <2>2, <2>3, <2>4, <1>2 DEF AssetsApart
<1>14. AwayGone'
  BY <1>2 DEF AssetState, AssetFiles, AwayGone
<1>15. AssetsKept'
  <2>1. AssetsKept
    BY DEF AssetState, AssetFiles
  <2>2. \A b \in assets' : \A f \in FilesOf(b) :
            f \in files \cup torn \/ \E q \in Procs : f \in Away(pc[q], req[q])
    BY <2>1, <1>6 DEF AssetsKept
  <2> QED
    BY <2>2, <1>2 DEF AssetsKept
<1>16. AssetsLeft' /\ Calm' /\ Based'
  BY <1>2 DEF AssetsLeft, Calm, Based
<1>17. Roomy'
  <2>1. Coming' = Coming
    BY <1>2 DEF Coming
  <2>2. \A b \in assets' : b.id + Cardinality(Coming) <= drawn
    BY <1>6 DEF AssetState, Roomy, Twins
  <2> QED
    BY <2>1, <2>2, <1>2 DEF Roomy
<1> QED
  BY <1>9, <1>10, <1>11, <1>12, <1>13, <1>14, <1>15, <1>16, <1>17 DEF AssetFiles

(***************************************************************************)
(* The inductive invariant                                                 *)
(***************************************************************************)
IInv == /\ Sides /\ Jobs /\ Tables /\ Assets /\ Requested
        /\ part = "job" => JobFiles /\ KitsKept
        /\ part = "resume" => AssetFiles /\ Roomy /\ Calm /\ Based

(* The invariant holds at the start.                                       *)
LEMMA IInvInit ==
    ASSUME Init PROVE IInv
<1>1. /\ part \in {"job", "resume"} /\ files = {} /\ drawn = 0
      /\ jobs = [j \in 1 .. IF part = "job" THEN 2 ELSE 0 |-> [posting |-> j, kit |-> 0]]
      /\ postings = Cardinality(Live) /\ rows = {} /\ assets = {}
      /\ pc = [p \in Procs |-> "idle"] /\ req = [p \in Procs |-> NoReq]
      /\ kitOf = <<>> /\ uploaded = {} /\ asked = {} /\ torn = {}
      /\ recycled = {} /\ mixed = {} /\ murky = FALSE
  BY DEF Init
<1> DEFINE n == IF part = "job" THEN 2 ELSE 0
<1>2. n \in Nat /\ Live = 1 .. n
  BY <1>1 DEF Live
<1>3. postings = n
  <2>1. \A b \in Int : Cardinality(1 .. b) = IF 1 > b THEN 0 ELSE b - 1 + 1
    BY ONLY FS_Interval
  <2> QED
    BY <2>1, <1>1, <1>2
<1>4. DOMAIN kitOf = {} /\ 1 .. 0 = {} /\ Kits = 0
  <2>1. DOMAIN kitOf = {} /\ 1 .. 0 = {}
    BY <1>1
  <2> QED
    BY <2>1, FS_EmptySet DEF Kits
<1>5. Sides
  <2>1. part = "resume" => n = 0
    OBVIOUS
  <2>2. part = "resume" => Live = {}
    BY <2>1, <1>2, <1>4
  <2> QED
    BY <2>2, <1>1, <1>2, <1>3 DEF Sides
<1>6. Jobs
  <2> DEFINE job(j) == [posting |-> j, kit |-> 0]
  <2>1. \A j \in 1 .. n : job(j) \in [posting : Nat, kit : Nat] /\ job(j).posting = j /\ job(j).kit = 0
    BY <1>2
  <2>2. jobs = [j \in 1 .. n |-> job(j)]
    BY <1>1
  <2> HIDE DEF job
  <2>3. jobs \in [Live -> [posting : Nat, kit : Nat]]
    BY <2>1, <2>2, <1>2
  <2>4. \A j \in Live : jobs[j].posting \in 1 .. postings /\ jobs[j].kit \in {0} \cup DOMAIN kitOf
    BY <2>1, <2>2, <1>2, <1>3
  <2> QED
    BY <2>3, <2>4, <1>2, <1>3, <1>4 DEF Jobs
<1>7. Tables /\ Assets
  BY <1>1 DEF Tables, Assets
<1>8. \A p \in Procs : pc[p] = "idle" /\ req[p] = NoReq
  BY <1>1
<1>9. Requested
  <2>1. /\ pc \in [Procs -> JobSteps \cup ResumeSteps \cup {"idle"}] /\ req \in [Procs -> ReqSet]
    BY <1>1, NoReqIs
  <2>2. \A p \in Procs : Formed(pc[p], req[p], part, drawn, DOMAIN kitOf)
    BY <1>1, <1>8, IdleFormed
  <2> QED
    BY <2>1, <2>2 DEF Requested
<1>10. /\ \A p \in Procs : Claim(pc[p], req[p]) = {} /\ Dropped(pc[p], req[p]) = {}
       /\ \A p \in Procs : Own(pc[p], req[p]) = {} /\ Away(pc[p], req[p]) = {}
       /\ \A p \in Procs : ~Writing(pc[p], req[p]) /\ ~Bold(pc[p], req[p]) /\ req[p].seen = {}
  BY <1>8, NoReqIs DEF Claim, Dropped, Own, Away, Writing, Bold
<1>11. JobFiles
  BY <1>1, <1>10 DEF JobFiles, ClaimsFresh, RowsApart, DroppedGone, RowsKept, UploadsOwn, UploadsKept,
                     NoneLeft
<1>12. KitsKept
  <2>1. \A j \in Live : jobs[j].kit = 0
    BY <1>1, <1>2
  <2>2. KitOfItsPosting
    BY <2>1 DEF KitOfItsPosting
  <2>3. \A p \in Procs : ~Holds(pc[p], req[p]) /\ ~PastText(pc[p], req[p]) /\ pc[p] # "text"
    BY <1>8, <1>10 DEF Holds, PastText
  <2> QED
    BY <2>2, <2>3, <1>1, <1>10 DEF KitsKept, Placed, TextsRight, LoneWriter, OneDocument, ShownKit,
                                   WritersRight
<1>13. AssetFiles /\ Roomy
  BY <1>1, <1>8, <1>10 DEF AssetFiles, OwnFresh, AssetsApart, AwayGone, AssetsKept, AssetsLeft, Roomy
<1>14. Calm /\ Based
  BY <1>1, <1>8, <1>10 DEF Calm, Based, Deleting, Bases, Resumes
<1> QED
  BY <1>5, <1>6, <1>7, <1>9, <1>11, <1>12, <1>13, <1>14 DEF IInv

(* The steps of a side are taken on that side only.                        *)
LEMMA SideOfStep ==
    ASSUME Sides, Requested, NEW p \in Procs
    PROVE  /\ JobStep(p) => part = "job"
           /\ ResumeStep(p) => part = "resume"
<1>1. /\ pc[p] \in JobSteps => part = "job"
      /\ pc[p] \in ResumeSteps => part = "resume"
  BY StepOfSide
<1>2. JobStep(p) => part = "job"
  BY <1>1 DEF JobStep, JobSteps, Upload, UploadDone, DeleteAttachment, DeleteJob, Remove, ForgetDone,
              Compose, KitText, ReadEarlier, Unrendered, Render, AttachDone, Begin
<1>3. ResumeStep(p) => part = "resume"
  BY <1>1 DEF ResumeStep, ResumeSteps, UploadAsset, AssetDone, UploadResume, Draft, WriteDraft,
              VariantDone, SourceDone, Promote, PromoteDone, DeleteAsset, Unlink, UnassetDone,
              SucceedDone, Begin
<1> QED
  BY <1>2, <1>3

(* Every step of a request on the resume side keeps the invariant.         *)
LEMMA AssetStepKept ==
    ASSUME IInv, part = "resume", NEW p \in Procs, ResumeStep(p) \/ Abort(p) \/ CommitsNothing(p)
    PROVE  IInv'
<1>1. AssetState
  BY DEF IInv, AssetState
<1>2. AssetMove(p) /\ CalmMove(p) /\ Based'
  <2>1. CASE Abort(p) \/ CommitsNothing(p)
    BY <2>1, <1>1, AssetFaultMove
  <2>2. CASE ResumeStep(p)
    BY <2>2, <1>1, UploadAssetMove, AssetDoneMove, UploadResumeMove, DraftMove, WriteDraftMove,
       VariantDoneMove, SourceDoneMove, PromoteMove, PromoteDoneMove, DeleteAssetMove, UnlinkMove,
       UnassetDoneMove, SucceedDoneMove DEF ResumeStep
  <2> QED
    BY <2>1, <2>2
<1>3. AssetFiles' /\ Tables' /\ drawn' \in Nat
  BY <1>1, <1>2, AssetFilesKept DEF AssetState
<1>4. Roomy' /\ Assets'
  BY <1>1, <1>2, RoomyKept DEF AssetState
<1>5. Calm'
  BY <1>1, <1>2, CalmKept DEF AssetState, AssetMove
<1>6. /\ UNCHANGED <<part, jobs, postings, rows, kitOf, uploaded, recycled>> /\ Requested'
      /\ murky' \in BOOLEAN
  BY <1>2 DEF AssetMove
<1>7. Jobs' /\ Live' = Live
  BY <1>6, JobsSame DEF IInv
<1>8. Sides'
  BY <1>3, <1>6, <1>7 DEF IInv, Sides
<1> QED
  BY <1>2, <1>3, <1>4, <1>5, <1>6, <1>7, <1>8 DEF IInv

(* Every step of a request on the job side keeps the invariant.            *)
LEMMA JobStepKept ==
    ASSUME IInv, part = "job", NEW p \in Procs, JobStep(p) \/ Abort(p) \/ CommitsNothing(p)
    PROVE  IInv'
<1>1. /\ Sides /\ Jobs /\ Tables /\ Requested /\ JobFiles /\ KitsKept
  BY DEF IInv
<1>2. JobMove(p)
  BY <1>1, JobMoves
<1>3. JobFiles' /\ Tables' /\ drawn' \in Nat
  BY <1>1, <1>2, JobFilesKept
<1>4. Jobs' /\ KitsKept'
  <2>1. CASE Abort(p) \/ CommitsNothing(p)
    BY <2>1, <1>1, FaultKits
  <2>2. CASE JobStep(p)
    BY <2>2, <1>1, UploadKits, UploadDoneKits, DeleteKits, RemoveKits, ForgetDoneKits, ComposeKits,
       KitTextKits, ReadEarlierKits, UnrenderedKits, RenderKits, AttachDoneKits DEF JobStep
  <2> QED
    BY <2>1, <2>2
<1>5. Requested' /\ UNCHANGED <<part, assets>> /\ murky' \in BOOLEAN
  BY <1>2 DEF JobMove, UploadsMove
<1>6. postings' = postings
  <2>1. CASE Abort(p) \/ CommitsNothing(p)
    BY <2>1 DEF Abort, CommitsNothing, Faulty
  <2>2. CASE JobStep(p)
    BY <2>2 DEF JobStep, Upload, UploadDone, DeleteAttachment, DeleteJob, Remove, ForgetDone,
              Compose, KitText, ReadEarlier, Unrendered, Render, AttachDone, jobVars
  <2> QED
    BY <2>1, <2>2
<1>7. Sides'
  BY <1>1, <1>3, <1>5, <1>6 DEF Sides
<1>8. Assets'
  BY <1>1, <1>5 DEF Sides, Assets
<1> QED
  BY <1>3, <1>4, <1>5, <1>7, <1>8 DEF IInv

(* Tracking a job keeps the invariant.                                     *)
LEMMA TrackKept ==
    ASSUME IInv, Track
    PROVE  IInv'
<1>1. /\ part = "job" /\ postings' = postings + 1
      /\ UNCHANGED <<part, files, drawn, rows, kitOf, uploaded, recycled, mixed, assets, pc, req,
                     requests, faults, asked, torn, murky>>
  BY DEF Track
<1>2. Jobs' /\ KitsKept'
  BY <1>1, TrackKits DEF IInv
<1>3. Sides'
  BY <1>1 DEF IInv, Sides
<1>4. Tables' /\ Assets' /\ Requested'
  BY <1>1 DEF IInv, Tables, Assets, Requested
<1>5. JobFiles'
  BY <1>1 DEF IInv, JobFiles, ClaimsFresh, RowsApart, DroppedGone, RowsKept, UploadsOwn, UploadsKept,
              NoneLeft
<1> QED
  BY <1>1, <1>2, <1>3, <1>4, <1>5 DEF IInv

(* Changing a document's kind in the edit form keeps the invariant.        *)
LEMMA EditAssetKeeps ==
    ASSUME IInv, EditAsset
    PROVE  IInv'
<1>1. /\ UNCHANGED <<part, files, drawn, jobVars, pc, req, faults, asked, torn>> /\ murky' = TRUE
      /\ assets # {}
  BY DEF EditAsset
<1>2. part = "resume"
  BY <1>1 DEF IInv, Sides
<1>3. AssetState
  BY <1>2 DEF IInv, AssetState
<1>4. Assets' /\ Tables' /\ Requested' /\ AssetFiles' /\ Roomy' /\ Calm' /\ Based'
  BY <1>2, <1>3, EditAssetKept
<1>5. UNCHANGED <<jobs, postings, kitOf, rows, uploaded>>
  BY <1>1 DEF jobVars
<1>6. Jobs' /\ Live' = Live
  BY <1>5, JobsSame DEF IInv
<1>7. Sides'
  BY <1>1, <1>2, <1>5, <1>6 DEF IInv, Sides
<1> QED
  BY <1>1, <1>2, <1>4, <1>6, <1>7 DEF IInv

(* Every step keeps the invariant.                                         *)
LEMMA IInvNext ==
    ASSUME IInv, [Next]_vars PROVE IInv'
<1>1. ASSUME NEW p \in Procs, JobStep(p) \/ ResumeStep(p) \/ Abort(p) \/ CommitsNothing(p)
      PROVE  IInv'
  <2>1. /\ part \in {"job", "resume"} /\ (JobStep(p) => part = "job")
        /\ (ResumeStep(p) => part = "resume")
    BY SideOfStep DEF IInv, Sides
  <2> QED
    BY <2>1, <1>1, JobStepKept, AssetStepKept
<1>2. CASE UNCHANGED vars
  <2>1. UNCHANGED <<part, files, drawn, jobs, postings, rows, kitOf, uploaded, recycled, mixed, assets,
                    pc, req, asked, torn, murky>>
    BY <1>2 DEF vars, jobVars
  <2>2. Sides' /\ Jobs' /\ Tables' /\ Assets' /\ Requested'
    BY <2>1 DEF IInv, Sides, Jobs, Tables, Assets, Requested, Live, Kits
  <2>3. part = "job" => JobFiles' /\ KitsKept'
    <3>1. Live' = Live
      BY <2>1 DEF Live
    <3>2. Settled' = Settled /\ Past' = Past
      BY <2>1, <3>1 DEF Settled, Past
    <3> QED
      BY <2>1, <3>1, <3>2 DEF IInv, JobFiles, ClaimsFresh, RowsApart, DroppedGone, RowsKept, UploadsOwn,
              UploadsKept, NoneLeft, KitsKept, Placed, KitOfItsPosting, TextsRight, LoneWriter,
              OneDocument, ShownKit, WritersRight
  <2>4. part = "resume" => AssetFiles' /\ Roomy' /\ Calm' /\ Based'
    <3>1. Resumes' = Resumes /\ Coming' = Coming
      BY <2>1 DEF Resumes, Coming
    <3>2. Bases' = Bases /\ Newest' = Newest
      BY <3>1 DEF Bases, Newest
    <3>3. \A p \in Procs : \A a \in Bases : Heir(req[p], a)' = Heir(req[p], a)
      BY <2>1, <3>2 DEF Heir
    <3> QED
      BY <2>1, <3>1, <3>2, <3>3 DEF IInv, AssetFiles, OwnFresh, AssetsApart, AwayGone, AssetsKept,
              AssetsLeft, Roomy, Calm, Based
  <2> QED
    BY <2>1, <2>2, <2>3, <2>4 DEF IInv
<1> QED
  BY <1>1, <1>2, TrackKept, EditAssetKeeps DEF Next

(* The invariant always holds.                                             *)
LEMMA IInvHolds == Spec => []IInv
<1> QED
  BY IInvInit, IInvNext, PTL DEF Spec

(***************************************************************************)
(* Theorems                                                                *)
(***************************************************************************)
LEMMA RowsAndFilesIs ==
    ASSUME IInv PROVE RowsAndFiles
<1>1. /\ Sides /\ Jobs /\ Tables /\ Assets /\ Requested
      /\ part = "job" => JobFiles /\ KitsKept
      /\ part = "resume" => AssetFiles /\ Roomy /\ Calm /\ Based
  BY DEF IInv
<1>2. TypeOK
  <2>1. \A r \in rows : r.file \in 1 .. drawn /\ r.kind \in Kinds
    BY <1>1 DEF Tables, RowSet
  <2>2. \A p \in Procs : req[p].new \in 0 .. drawn
    BY <1>1 DEF Requested, Formed
  <2> QED
    BY <2>1, <2>2, <1>1 DEF TypeOK, Tables, Jobs, Assets
<1>3. CASE part = "job"
  <2>1. assets = {} /\ JobFiles
    BY <1>1, <1>3 DEF Sides
  <2>2. Named = {r.file : r \in rows}
    BY <2>1 DEF Named
  <2>3. RowsHaveFiles
    <3> SUFFICES ASSUME NEW r \in rows
                 PROVE  r.file \in files \cup torn \/ \E p \in Procs : r.file \in Removed(p)
      BY <2>2 DEF RowsHaveFiles
    <3>1. ASSUME NEW p \in Procs, r.file \in Dropped(pc[p], req[p]) PROVE r.file \in Removed(p)
      BY <3>1, <1>3 DEF Dropped, Removed
    <3> QED
      BY <3>1, <2>1 DEF JobFiles, RowsKept
  <2>4. FilesAreNamed
    <3>1. AllIdle => \A p \in Procs : Claim(pc[p], req[p]) = {}
      BY DEF AllIdle, Claim
    <3> QED
      BY <3>1, <2>1, <2>2 DEF FilesAreNamed, JobFiles, NoneLeft
  <2> QED
    BY <1>2, <2>1, <2>3, <2>4 DEF RowsAndFiles, JobFiles
<1>4. CASE part = "resume"
  <2>1. rows = {} /\ uploaded = {} /\ AssetFiles
    BY <1>1, <1>4 DEF Sides
  <2>2. Named = UNION {FilesOf(a) : a \in assets}
    BY <2>1 DEF Named
  <2>3. RowsHaveFiles
    <3> SUFFICES ASSUME NEW a \in assets, NEW f \in FilesOf(a)
                 PROVE  f \in files \cup torn \/ \E p \in Procs : f \in Removed(p)
      BY <2>2 DEF RowsHaveFiles
    <3>1. ASSUME NEW p \in Procs, f \in Away(pc[p], req[p]) PROVE f \in Removed(p)
      <4>1. pc[p] = "unasset" /\ f \in Held(req[p])
        BY <3>1 DEF Away
      <4>2. PICK s \in req[p].seen : f \in {s.file, s.source}
        BY <4>1 DEF Held, FilesOf
      <4> QED
        BY <4>1, <4>2, <1>4 DEF Removed
    <3> QED
      BY <3>1, <2>1 DEF AssetFiles, AssetsKept
  <2>4. FilesAreNamed
    <3>1. AllIdle => \A p \in Procs : Own(pc[p], req[p]) = {}
      BY DEF AllIdle, Own
    <3> QED
      BY <3>1, <2>1, <2>2 DEF FilesAreNamed, AssetFiles, AssetsLeft
  <2>5. UploadsKept
    BY <2>1 DEF UploadsKept
  <2> QED
    BY <1>2, <2>3, <2>4, <2>5 DEF RowsAndFiles
<1> QED
  BY <1>1, <1>3, <1>4 DEF Sides

(* Rows and the upload directory agree, whatever requests of whichever     *)
(* processes interleave and wherever they stop: every file an attachment   *)
(* or a document of the candidate names is there, but those a request is   *)
(* deleting or stopped while deleting (settings.py, jobs.py); what a user  *)
(* uploaded to a job outlives every kit that is built beside it            *)
(* (kit_export.py); and without a fault, a deletion that overlaps another, *)
(* or an edit, no file is left that no row names.                          *)
THEOREM RowsAndFilesAgree == Spec => []RowsAndFiles
<1> QED
  BY IInvHolds, RowsAndFilesIs, PTL

(* The invariant implies that a job's kit is right.                        *)
LEMMA KitRightIs ==
    ASSUME IInv PROVE KitRight
<1>1. CASE part = "job"
  <2>1. KitsKept
    BY <1>1 DEF IInv
  <2>2. AllIdle => \A p \in Procs : ~PastText(pc[p], req[p])
    BY DEF AllIdle, PastText, Writing
  <2>3. \A j \in Settled : \A r, s \in rows :
            r.job = j /\ s.job = j /\ r.kind # "upload" /\ r.kind = s.kind => r = s
    BY <2>1 DEF KitsKept, OneDocument
  <2>4. AllIdle => \A j \in Settled : \A r \in rows : r.job = j /\ r.kind = "pdf" => r.kit = jobs[j].kit
    BY <2>1, <2>2 DEF KitsKept, ShownKit
  <2>5. OneKit
    BY <2>3, <2>4 DEF OneKit, Settled
  <2> QED
    BY <2>1, <2>5 DEF KitsKept, KitRight
<1>2. CASE part = "resume"
  <2>1. Live = {}
    BY <1>2 DEF IInv, Sides
  <2> QED
    BY <2>1 DEF KitRight, OneKit, KitOfItsPosting
<1> QED
  BY <1>1, <1>2 DEF IInv, Sides

(* A kit is saved on the posting it was written for, minutes after the     *)
(* posting was read (ai.py, mcp_server.py), and once its builds are over a *)
(* job has one document of each kind and its PDF is of the kit it shows    *)
(* (kit_export.py): for any number of writers, jobs deleted and postings   *)
(* tracked meanwhile, but where SQLite gave the id again or two wrote for  *)
(* the same job at once.                                                   *)
THEOREM KitsAreRight == Spec => []KitRight
<1> QED
  BY IInvHolds, KitRightIs, PTL

(* The invariant implies that there is one base resume.                    *)
LEMMA OneBaseIs ==
    ASSUME IInv PROVE OneBase
<1> SUFFICES ASSUME part = "resume", AllIdle, ~murky, Resumes # {}
             PROVE  Cardinality({a \in Resumes : a.base}) = 1
  BY DEF OneBase
<1>1. Based
  BY DEF IInv
<1>2. \A p \in Procs : pc[p] # "succeed"
  BY DEF AllIdle
<1>3. Bases # {} /\ \A a, b \in Bases : a = b
  BY <1>1, <1>2 DEF Based
<1>4. PICK a \in Bases : Bases = {a}
  BY <1>3
<1>5. Cardinality(Bases) = 1
  BY <1>4, FS_Singleton
<1> QED
  BY <1>5 DEF Bases

(* While there are variants of the resume exactly one is the base, once    *)
(* the requests in progress are over (models.py): saves, promotions and    *)
(* one deletion at a time, of any number of processes, may overlap; two    *)
(* deletions, or one and a promotion or an upload with its original, may   *)
(* not, and no document may change its kind.                               *)
THEOREM OneBaseResume == Spec => []OneBase
<1> QED
  BY IInvHolds, OneBaseIs, PTL
=============================================================================
