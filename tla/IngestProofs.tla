---------------------------- MODULE IngestProofs ----------------------------
(***************************************************************************)
(* Theorems about Ingest, for every set of callers and every batch.  Each  *)
(* invariant is inductive together with the ones proved before it.         *)
(***************************************************************************)
EXTENDS Ingest, TLAPS

-----------------------------------------------------------------------------
(* Leaving an item, and counting it, keep the types of what they change.   *)
LEMMA AdvanceType ==
    ASSUME TypeOK, NEW c \in Callers, Advance(c)
    PROVE  pc' \in [Callers -> Live \cup Over] /\ pos' \in [Callers -> Nat \ {0}]
  BY DEF TypeOK, Advance, Live, Over

(* Counting keeps the types of the counters and of the open transaction.   *)
LEMMA CountType ==
    ASSUME TypeOK, NEW c \in Callers
    PROVE  /\ CountSkipped(c) => skipped' \in [Callers -> SUBSET (Nat \ {0})]
           /\ CountCreated(c) => created' \in [Callers -> SUBSET (Nat \ {0})]
           /\ Rollback(c) => flushed' \in [Callers -> SUBSET Rows]
  BY DEF TypeOK, CountSkipped, CountCreated, Rollback

(* The variables keep their types.                                         *)
THEOREM TypeCorrect == Spec => []TypeOK
<1>1. Init => TypeOK
  BY TransientAssumption DEF Init, TypeOK, Live, Over, Rows
<1>2. TypeOK /\ [Next]_vars => TypeOK'
  <2> SUFFICES ASSUME TypeOK, [Next]_vars PROVE TypeOK'
    OBVIOUS
  <2>1. ASSUME NEW c \in Callers, SkipItem(c) PROVE TypeOK'
    BY <2>1, AdvanceType, CountType DEF SkipItem, TypeOK
  <2>2. ASSUME NEW c \in Callers, LookupByExt(c) PROVE TypeOK'
    <3>1. CASE CountSkipped(c) /\ Advance(c)
      BY <2>2, <3>1, AdvanceType, CountType DEF LookupByExt, TypeOK
    <3>2. CASE pc' = [pc EXCEPT ![c] = "title"] /\ UNCHANGED <<pos, skipped>>
      BY <2>2, <3>2 DEF LookupByExt, TypeOK, Live
    <3> QED
      BY <2>2, <3>1, <3>2 DEF LookupByExt
  <2>3. ASSUME NEW c \in Callers, LookupByTitle(c) PROVE TypeOK'
    <3>1. CASE CountSkipped(c) /\ Advance(c)
      BY <2>3, <3>1, AdvanceType, CountType DEF LookupByTitle, TypeOK
    <3>2. CASE pc' = [pc EXCEPT ![c] = "flush"] /\ UNCHANGED <<pos, skipped>>
      BY <2>3, <3>2 DEF LookupByTitle, TypeOK, Live
    <3> QED
      BY <2>3, <3>1, <3>2 DEF LookupByTitle
  <2>4. ASSUME NEW c \in Callers, FlushRow(c) PROVE TypeOK'
    <3>1. flushed' \in [Callers -> SUBSET Rows]
      BY <2>4 DEF FlushRow, TypeOK, Row, Rows
    <3> QED
      BY <2>4, <3>1, AdvanceType, CountType DEF FlushRow, TypeOK
  <2>5. ASSUME NEW c \in Callers, FlushConflict(c) PROVE TypeOK'
    BY <2>5, AdvanceType, CountType DEF FlushConflict, TypeOK
  <2>6. ASSUME NEW c \in Callers, FlushTransient(c) PROVE TypeOK'
    BY <2>6, AdvanceType, CountType, TransientAssumption DEF FlushTransient, TypeOK
  <2>7. ASSUME NEW c \in Callers, Commit(c) PROVE TypeOK'
    BY <2>7, CountType DEF Commit, TypeOK, Over
  <2>8. ASSUME NEW c \in Callers, CommitTransient(c) PROVE TypeOK'
    BY <2>8, CountType, TransientAssumption DEF CommitTransient, TypeOK, Over
  <2>9. ASSUME NEW c \in Callers, Abort(c) PROVE TypeOK'
    BY <2>9, CountType DEF Abort, TypeOK, Over
  <2>10. CASE UNCHANGED vars
    BY <2>10 DEF vars, TypeOK
  <2> QED
    BY <2>1, <2>2, <2>3, <2>4, <2>5, <2>6, <2>7, <2>8, <2>9, <2>10
    DEF Next, Step, Fault, AllOver
<1> QED
  BY <1>1, <1>2, PTL DEF Spec

-----------------------------------------------------------------------------
(* Only one call at a time has rows that are inserted and not committed.   *)
THEOREM OneWriter == Spec => []SingleWriter
<1>1. Init => SingleWriter
  BY DEF Init, SingleWriter
<1>2. TypeOK /\ SingleWriter /\ [Next]_vars => SingleWriter'
  <2> SUFFICES ASSUME TypeOK, SingleWriter, [Next]_vars PROVE SingleWriter'
    OBVIOUS
  <2> USE DEF TypeOK, SingleWriter
  <2>1. ASSUME NEW c \in Callers, FlushRow(c) PROVE SingleWriter'
    BY <2>1 DEF FlushRow, LockFree
  <2>2. ASSUME NEW c \in Callers, Rollback(c) PROVE SingleWriter'
    BY <2>2 DEF Rollback
  <2>3. CASE UNCHANGED flushed
    BY <2>3
  <2> QED
    BY <2>1, <2>2, <2>3
    DEF Next, Step, Fault, AllOver, SkipItem, LookupByExt, LookupByTitle, FlushConflict,
        FlushTransient, Commit, CommitTransient, Abort, vars
<1> QED
  BY <1>1, <1>2, TypeCorrect, PTL DEF Spec

-----------------------------------------------------------------------------
(* A batch is a finite sequence.                                           *)
LEMMA BatchLength ==
    ASSUME TypeOK, NEW c \in Callers
    PROVE  batch[c] \in Seq(Postings) /\ Len(batch[c]) \in Nat
  BY PostingsAssumption DEF TypeOK

(* Every item behind pos[c] was counted, every row is a created posting.   *)
LEMMA ProgressHolds == Spec => []Progress
<1>1. Init => Progress
  BY PostingsAssumption DEF Init, Progress, Over
<1>2. TypeOK /\ Progress /\ [Next]_vars => Progress'
  <2> SUFFICES ASSUME TypeOK, Progress, [Next]_vars PROVE Progress'
    OBVIOUS
  <2> DEFINE P(c) ==
        /\ pos[c] <= Len(batch[c]) + 1
        /\ (pc[c] \in {"next", "title", "flush"}) => (pos[c] <= Len(batch[c]))
        /\ (pc[c] \in {"commit", "done"}) => (pos[c] = Len(batch[c]) + 1)
        /\ created[c] \cup skipped[c] = 1 .. (pos[c] - 1)
        /\ flushed[c] \subseteq {Row(c, i) : i \in created[c]}
        /\ (pc[c] \in Over) => (flushed[c] = {})
  <2>0. Progress <=> (\A c \in Callers : P(c)) /\ \A r \in table : r[2] \in created[r[1]]
    BY DEF Progress
  <2>1. ASSUME NEW c \in Callers, Step(c) \/ Fault(c)
        PROVE  \A d \in Callers \ {c} : P(d)'
    BY <2>1, <2>0 DEF TypeOK, Step, Fault, SkipItem, LookupByExt, LookupByTitle, FlushRow,
        FlushConflict, FlushTransient, Commit, CommitTransient, Abort,
        CountSkipped, CountCreated, Rollback, Advance
  <2>2. ASSUME NEW c \in Callers, SkipItem(c) PROVE P(c)'
    BY <2>2, <2>0, BatchLength DEF TypeOK, SkipItem, CountSkipped, Advance, Over
  <2>3. ASSUME NEW c \in Callers, LookupByExt(c) PROVE P(c)'
    <3>1. CASE CountSkipped(c) /\ Advance(c)
      BY <2>3, <3>1, <2>0, BatchLength DEF TypeOK, LookupByExt, CountSkipped, Advance, Over
    <3>2. CASE pc' = [pc EXCEPT ![c] = "title"] /\ UNCHANGED <<pos, skipped>>
      BY <2>3, <3>2, <2>0 DEF TypeOK, LookupByExt, Over
    <3> QED
      BY <2>3, <3>1, <3>2 DEF LookupByExt
  <2>4. ASSUME NEW c \in Callers, LookupByTitle(c) PROVE P(c)'
    <3>1. CASE CountSkipped(c) /\ Advance(c)
      BY <2>4, <3>1, <2>0, BatchLength DEF TypeOK, LookupByTitle, CountSkipped, Advance, Over
    <3>2. CASE pc' = [pc EXCEPT ![c] = "flush"] /\ UNCHANGED <<pos, skipped>>
      BY <2>4, <3>2, <2>0 DEF TypeOK, LookupByTitle, Over
    <3> QED
      BY <2>4, <3>1, <3>2 DEF LookupByTitle
  <2>5. ASSUME NEW c \in Callers, FlushRow(c) PROVE P(c)'
    BY <2>5, <2>0, BatchLength DEF TypeOK, FlushRow, CountCreated, Advance, Over
  <2>6. ASSUME NEW c \in Callers, FlushConflict(c) PROVE P(c)'
    BY <2>6, <2>0, BatchLength DEF TypeOK, FlushConflict, Rollback, CountSkipped, Advance, Over
  <2>7. ASSUME NEW c \in Callers, FlushTransient(c) PROVE P(c)'
    BY <2>7, <2>0, BatchLength DEF TypeOK, FlushTransient, Rollback, CountCreated, Advance, Over
  <2>8. ASSUME NEW c \in Callers, Commit(c) \/ CommitTransient(c) \/ Abort(c) PROVE P(c)'
    BY <2>8, <2>0 DEF TypeOK, Commit, CommitTransient, Abort, Rollback, Over
  <2>9. ASSUME NEW c \in Callers, Step(c) \/ Fault(c) PROVE \A d \in Callers : P(d)'
    BY <2>9, <2>1, <2>2, <2>3, <2>4, <2>5, <2>6, <2>7, <2>8 DEF Step, Fault
  <2>10. ASSUME NEW c \in Callers, Step(c) \/ Fault(c)
         PROVE  \A r \in table' : r[2] \in created'[r[1]]
    <3>1. \A d \in Callers : created[d] \subseteq created'[d]
      BY <2>10 DEF TypeOK, Step, Fault, SkipItem, LookupByExt, LookupByTitle, FlushRow,
          FlushConflict, FlushTransient, Commit, CommitTransient, Abort, CountCreated
    <3>2. \A r \in table \cup flushed[c] : r \in Rows /\ r[2] \in created[r[1]]
      BY <2>0 DEF TypeOK, Row
    <3>3. table' \subseteq table \cup flushed[c]
      BY <2>10 DEF Step, Fault, SkipItem, LookupByExt, LookupByTitle, FlushRow,
          FlushConflict, FlushTransient, Commit, CommitTransient, Abort
    <3> QED
      BY <3>1, <3>2, <3>3 DEF Rows
  <2>11. CASE UNCHANGED vars
    BY <2>11 DEF vars, Progress
  <2>12. CASE AllOver
    BY <2>12, <2>11 DEF AllOver
  <2> QED
    BY <2>0, <2>9, <2>10, <2>11, <2>12 DEF Next, Progress
<1> QED
  BY <1>1, <1>2, TypeCorrect, PTL DEF Spec

-----------------------------------------------------------------------------
(* Rows that are visible to a call are postings of some batch.             *)
LEMMA VisiblePosting ==
    ASSUME TypeOK, Progress, NEW c \in Callers, NEW r \in Visible(c)
    PROVE  r[1] \in Callers /\ r[2] \in 1 .. Len(batch[r[1]]) /\ Posting(r) \in Postings
<1>1. r \in Rows /\ r[2] \in created[r[1]]
  BY DEF TypeOK, Progress, Visible, Row
<1>2. r[1] \in Callers /\ r[2] \in Nat \ {0}
  BY <1>1 DEF Rows
<1>3. created[r[1]] \subseteq 1 .. (pos[r[1]] - 1) /\ pos[r[1]] <= Len(batch[r[1]]) + 1
  BY <1>2 DEF Progress
<1>4. r[2] \in 1 .. Len(batch[r[1]])
  BY <1>1, <1>2, <1>3, BatchLength DEF TypeOK
<1> QED
  BY <1>2, <1>4, BatchLength DEF Posting

(* What a step changes for the calls that do not take it: nothing, except  *)
(* that a commit may add rows while they have none of their own.           *)
LEMMA OthersSee ==
    ASSUME TypeOK, SingleWriter, NEW c \in Callers, Step(c) \/ Fault(c),
           NEW d \in Callers \ {c}
    PROVE  /\ pc'[d] = pc[d] /\ pos'[d] = pos[d] /\ batch' = batch
           /\ created'[d] = created[d] /\ skipped'[d] = skipped[d]
           /\ flushed'[d] = flushed[d]
           /\ Visible(d) \subseteq Visible(d)'
           /\ Visible(d)' = Visible(d) \/ (flushed[d] = {} /\ Visible(d)' = Visible(c))
<1>1. /\ pc'[d] = pc[d] /\ pos'[d] = pos[d] /\ batch' = batch
      /\ created'[d] = created[d] /\ skipped'[d] = skipped[d]
      /\ flushed'[d] = flushed[d]
  BY DEF TypeOK, Step, Fault, SkipItem, LookupByExt, LookupByTitle, FlushRow,
      FlushConflict, FlushTransient, Commit, CommitTransient, Abort,
      CountSkipped, CountCreated, Rollback, Advance
<1>2. table' = table \/ table' = table \cup flushed[c]
  BY DEF Step, Fault, SkipItem, LookupByExt, LookupByTitle, FlushRow,
      FlushConflict, FlushTransient, Commit, CommitTransient, Abort
<1>3. flushed[c] = {} \/ flushed[d] = {}
  BY DEF SingleWriter
<1> QED
  BY <1>1, <1>2, <1>3 DEF Visible

(* What a call itself sees after its step.                                 *)
LEMMA SelfSees ==
    ASSUME TypeOK, NEW c \in Callers, Step(c) \/ Fault(c)
    PROVE  \/ Visible(c)' = Visible(c)
           \/ FlushRow(c) /\ Visible(c)' = Visible(c) \cup {Row(c, pos[c])}
           \/ FlushConflict(c) \/ FlushTransient(c) \/ CommitTransient(c) \/ Abort(c)
<1>1. CASE UNCHANGED <<table, flushed>>
  BY <1>1 DEF Visible
<1>2. CASE FlushRow(c)
  BY <1>2 DEF FlushRow, Visible, TypeOK
<1>3. CASE Commit(c)
  BY <1>3 DEF Commit, Rollback, Visible, TypeOK
<1> QED
  BY <1>1, <1>2, <1>3 DEF Step, Fault, SkipItem, LookupByExt, LookupByTitle

(* Two rows with one external id are never visible together, so never      *)
(* committed together.                                                     *)
LEMMA UniqueVisibleHolds == Spec => []UniqueVisible
<1>1. Init => UniqueVisible
  BY DEF Init, UniqueVisible, Visible
<1>2. TypeOK /\ SingleWriter /\ UniqueVisible /\ [Next]_vars => UniqueVisible'
  <2> SUFFICES ASSUME TypeOK, SingleWriter, UniqueVisible, [Next]_vars
               PROVE  UniqueVisible'
    OBVIOUS
  <2> DEFINE U(rows) == \A r, s \in rows : r # s => ~SameExt(Posting(r), Posting(s))
  <2>1. \A d \in Callers : U(Visible(d))
    BY DEF UniqueVisible
  <2>2. ASSUME NEW c \in Callers, Step(c) \/ Fault(c)
        PROVE  \A d \in Callers : U(Visible(d)')
    <3>1. ASSUME NEW d \in Callers \ {c} PROVE U(Visible(d)')
      BY <2>1, <2>2, <3>1, OthersSee
    <3>2. CASE Visible(c)' \subseteq Visible(c)
      BY <2>1, <3>1, <3>2
    <3>3. CASE FlushRow(c) /\ Visible(c)' = Visible(c) \cup {Row(c, pos[c])}
      <4>1. Posting(Row(c, pos[c])) = Item(c)
        BY DEF Posting, Row, Item
      <4>2. \A r \in Visible(c) : ~SameExt(Posting(r), Item(c))
        BY <3>3 DEF FlushRow, Conflicts
      <4>3. \A r \in Visible(c) : ~SameExt(Item(c), Posting(r))
        BY <4>2 DEF SameExt
      <4>4. U(Visible(c) \cup {Row(c, pos[c])})
        BY <2>1, <4>1, <4>2, <4>3
      <4> QED
        BY <3>1, <3>3, <4>4
    <3>4. CASE FlushConflict(c) \/ FlushTransient(c) \/ CommitTransient(c) \/ Abort(c)
      <4>1. Visible(c)' \subseteq Visible(c)
        BY <3>4 DEF TypeOK, Visible, FlushConflict, FlushTransient, CommitTransient, Abort,
            Rollback
      <4> QED
        BY <3>2, <4>1
    <3> QED
      BY <2>2, <3>2, <3>3, <3>4, SelfSees
  <2>3. CASE UNCHANGED vars
    BY <2>3 DEF vars, UniqueVisible, Visible, Posting
  <2>4. ASSUME NEW c \in Callers, Step(c) \/ Fault(c) PROVE UniqueVisible'
    <3>1. batch' = batch
      BY <2>4 DEF Step, Fault, SkipItem, LookupByExt, LookupByTitle, FlushRow,
          FlushConflict, FlushTransient, Commit, CommitTransient, Abort
    <3> QED
      BY <2>2, <2>4, <3>1 DEF UniqueVisible, Posting
  <2> QED
    BY <2>3, <2>4 DEF Next, AllOver
<1> QED
  BY <1>1, <1>2, TypeCorrect, OneWriter, PTL DEF Spec

(* No two committed rows have the same source and external id.             *)
THEOREM ExternalIdsUnique == Spec => []UniqueExternal
<1>1. TypeOK /\ UniqueVisible => UniqueExternal
  <2> SUFFICES ASSUME TypeOK, UniqueVisible, NEW r \in table, NEW s \in table, r # s
               PROVE  ~SameExt(Posting(r), Posting(s))
    BY DEF UniqueExternal
  <2>1. PICK c \in Callers : r[1] = c
    BY DEF TypeOK, Rows
  <2> QED
    BY <2>1 DEF UniqueVisible, Visible
<1> QED
  BY <1>1, TypeCorrect, UniqueVisibleHolds, PTL

-----------------------------------------------------------------------------
(* Once a call holds the write lock, what its look-up saw stays true.      *)
LEMMA LookupStaysTrue == Spec => []LookupHolds
<1>1. Init => LookupHolds
  BY DEF Init, LookupHolds
<1>2. TypeOK /\ SingleWriter /\ LookupHolds /\ [Next]_vars => LookupHolds'
  <2> SUFFICES ASSUME TypeOK, SingleWriter, LookupHolds, [Next]_vars
               PROVE  LookupHolds'
    OBVIOUS
  <2> DEFINE Clear(d) == \A r \in Visible(d) : ~SameExt(Posting(r), Item(d))
             L(d) == (pc[d] \in {"title", "flush"} /\ flushed[d] # {}) => Clear(d)
  <2>1. \A d \in Callers : L(d)
    BY DEF LookupHolds, Conflicts
  <2>2. ASSUME NEW c \in Callers, Step(c) \/ Fault(c), NEW d \in Callers \ {c}
        PROVE  L(d)'
    BY <2>1, <2>2, OthersSee DEF Posting, Item
  <2>3. ASSUME NEW c \in Callers, LookupByExt(c) PROVE L(c)'
    <3>1. CASE FoundByExt(c) /\ CountSkipped(c) /\ Advance(c)
      BY <2>3, <3>1 DEF LookupByExt, Advance, TypeOK
    <3>2. CASE ~FoundByExt(c) /\ UNCHANGED <<pos, skipped>>
      <4>1. Clear(c)
        BY <3>2 DEF FoundByExt
      <4> QED
        BY <2>3, <3>2, <4>1 DEF LookupByExt, Visible, Posting, Item
    <3> QED
      BY <2>3, <3>1, <3>2 DEF LookupByExt
  <2>4. ASSUME NEW c \in Callers, LookupByTitle(c) PROVE L(c)'
    <3>1. CASE CountSkipped(c) /\ Advance(c)
      BY <2>4, <3>1 DEF LookupByTitle, Advance, TypeOK
    <3>2. CASE UNCHANGED <<pos, skipped>>
      BY <2>1, <2>4, <3>2 DEF LookupByTitle, Visible, Posting, Item
    <3> QED
      BY <2>4, <3>1, <3>2 DEF LookupByTitle
  <2>5. ASSUME NEW c \in Callers, Step(c) \/ Fault(c), ~LookupByExt(c), ~LookupByTitle(c)
        PROVE  L(c)'
    BY <2>5 DEF TypeOK, Step, Fault, SkipItem, FlushRow, FlushConflict, FlushTransient,
        Commit, CommitTransient, Abort, Advance
  <2>6. ASSUME NEW c \in Callers, Step(c) \/ Fault(c) PROVE \A d \in Callers : L(d)'
    BY <2>2, <2>3, <2>4, <2>5, <2>6
  <2>7. CASE UNCHANGED vars
    BY <2>1, <2>7 DEF vars, LookupHolds, Conflicts, Visible, Posting, Item
  <2> QED
    BY <2>6, <2>7 DEF Next, AllOver, LookupHolds, Conflicts
<1> QED
  BY <1>1, <1>2, TypeCorrect, OneWriter, PTL DEF Spec

(* An IntegrityError rolls back no other row of its call.                  *)
THEOREM ConflictIsHarmless == Spec => ConflictCostsNothing
<1>1. LookupHolds => \A c \in Callers : FlushConflict(c) => flushed[c] = {}
  BY DEF LookupHolds, FlushConflict
<1> QED
  BY <1>1, LookupStaysTrue, PTL DEF ConflictCostsNothing

-----------------------------------------------------------------------------
(* A larger set of rows represents at least as much.                       *)
LEMMA RepresentedMonotone ==
    ASSUME NEW rows, NEW more, rows \subseteq more, NEW c, NEW i,
           RepresentedIn(rows, c, i)
    PROVE  RepresentedIn(more, c, i)
  BY DEF RepresentedIn

(* Without transient errors nothing a call reports is ever taken from it.  *)
LEMMA NothingIsLost == Spec => []NothingLost
<1>1. Init => NothingLost
  BY DEF Init, NothingLost
<1>2. TypeOK /\ SingleWriter /\ Progress /\ LookupHolds /\ NothingLost /\ [Next]_vars
        => NothingLost'
  <2> SUFFICES ASSUME TypeOK, SingleWriter, Progress, LookupHolds, NothingLost,
                      [Next]_vars, MaxTransient = 0
               PROVE  NothingLost'
    BY DEF NothingLost
  <2> DEFINE Cr(d) == \A i \in created[d] : Row(d, i) \in Visible(d)
             Sk(d) == \A i \in skipped[d] :
                          batch[d][i].blank \/ RepresentedIn(Visible(d), d, i)
             N(d) == (pc[d] # "failed") => Cr(d) /\ Sk(d)
  <2>1. \A d \in Callers : N(d)
    BY DEF NothingLost
  <2>2. ASSUME NEW c \in Callers, Step(c) \/ Fault(c), NEW d \in Callers \ {c}
        PROVE  N(d)'
    <3>1. (pc[d] # "failed") => Cr(d)'
      BY <2>1, <2>2, OthersSee DEF Row
    <3>2. ASSUME pc[d] # "failed" PROVE Sk(d)'
      <4>1. Visible(d) \subseteq Visible(d)' /\ skipped'[d] = skipped[d] /\ batch' = batch
        BY <2>2, OthersSee
      <4> QED
        BY <2>1, <3>2, <4>1 DEF RepresentedIn, Posting
    <3> QED
      BY <2>2, <3>1, <3>2, OthersSee
  <2>3. ASSUME NEW c \in Callers, Step(c), pc[c] # "failed" PROVE Visible(c) \subseteq Visible(c)'
    <3>1. CASE FlushConflict(c)
      <4>1. flushed[c] = {}
        BY <3>1 DEF LookupHolds, FlushConflict
      <4> QED
        BY <3>1, <4>1 DEF FlushConflict, Visible, Rollback, TypeOK
    <3> QED
      BY <2>3, <3>1, SelfSees DEF Step, FlushConflict, FlushTransient, CommitTransient, Abort,
          SkipItem, LookupByExt, LookupByTitle, FlushRow, Commit, Visible, Rollback, TypeOK
  <2>4. ASSUME NEW c \in Callers, Step(c) PROVE N(c)'
    <3>1. pc[c] # "failed" /\ Cr(c) /\ Sk(c)
      BY <2>1, <2>4 DEF Step, SkipItem, LookupByExt, LookupByTitle, FlushRow, FlushConflict,
          Commit
    <3>2. Visible(c) \subseteq Visible(c)' /\ batch' = batch
      BY <2>3, <2>4, <3>1 DEF Step, SkipItem, LookupByExt, LookupByTitle, FlushRow,
          FlushConflict, Commit
    <3>3. Cr(c)'
      <4>1. CASE FlushRow(c)
        <5>1. created'[c] = created[c] \cup {pos[c]} /\ Row(c, pos[c]) \in Visible(c)'
          BY <4>1 DEF FlushRow, CountCreated, Visible, TypeOK
        <5> QED
          BY <3>1, <3>2, <5>1 DEF Row
      <4>2. CASE created' = created
        BY <3>1, <3>2, <4>2 DEF Row
      <4> QED
        BY <2>4, <4>1, <4>2 DEF Step, SkipItem, LookupByExt, LookupByTitle, FlushConflict,
            Commit
    <3>4. \A i \in skipped[c] : batch[c][i].blank \/ RepresentedIn(Visible(c)', c, i)
      BY <3>1, <3>2, RepresentedMonotone
    <3>5. ASSUME skipped'[c] # skipped[c]
          PROVE  /\ skipped'[c] = skipped[c] \cup {pos[c]}
                 /\ Item(c).blank \/ RepresentedIn(Visible(c)', c, pos[c])
      <4>0. /\ CountSkipped(c)
            /\ \/ SkipItem(c)
               \/ LookupByExt(c) /\ FoundByExt(c)
               \/ LookupByTitle(c) /\ FoundByTitle(c)
               \/ FlushConflict(c) /\ Conflicts(c)
        BY <2>4, <3>5 DEF Step, SkipItem, LookupByExt, LookupByTitle, FlushRow,
            FlushConflict, Commit
      <4>1. skipped'[c] = skipped[c] \cup {pos[c]}
        BY <4>0 DEF CountSkipped, TypeOK
      <4>2. pos[c] \in 1 .. pos[c] /\ pos[c] <= Len(batch[c])
        BY <4>0, BatchLength DEF TypeOK, Progress, SkipItem, LookupByExt, LookupByTitle,
            FlushConflict
      <4>3. ASSUME \E r \in Visible(c) : \/ SameExt(Posting(r), Item(c))
                                          \/ SameName(Posting(r), Item(c))
            PROVE  RepresentedIn(Visible(c)', c, pos[c])
        BY <3>2, <4>2, <4>3 DEF RepresentedIn, Item
      <4>4. CASE FoundByExt(c) \/ Conflicts(c)
        BY <4>1, <4>3, <4>4 DEF FoundByExt, Conflicts
      <4>5. CASE FoundByTitle(c)
        <5>1. PICK r \in Visible(c) : DbLower[Posting(r).name] = Norm[Item(c).name]
          BY <4>5 DEF FoundByTitle
        <5>2. Posting(r).name \in Names
          BY VisiblePosting DEF Postings
        <5>3. Item(c) \in Postings
          BY <4>2, BatchLength DEF Item, TypeOK
        <5>4. Item(c).name \in Names
          BY <5>3 DEF Postings
        <5>5. SameName(Posting(r), Item(c))
          BY <5>1, <5>2, <5>4, PostingsAssumption DEF SameName
        <5> QED
          BY <4>1, <4>3, <5>5
      <4>6. CASE SkipItem(c)
        <5>1. CASE Item(c).blank
          BY <4>1, <5>1
        <5>2. CASE Seen(c, pos[c])
          <6>1. PICK j \in 1 .. (pos[c] - 1) :
                    /\ ~batch[c][j].blank
                    /\ BatchKey(batch[c][j]) = BatchKey(batch[c][pos[c]])
            BY <5>2 DEF Seen
          <6>2. j \in created[c] \cup skipped[c] /\ j \in 1 .. pos[c]
            BY <6>1 DEF Progress, TypeOK
          <6>3. CASE j \in created[c]
            <7>1. Row(c, j) \in Visible(c) /\ Posting(Row(c, j)) = batch[c][j]
              BY <3>1, <6>3 DEF Posting, Row
            <7>2. SameName(Posting(Row(c, j)), batch[c][j])
              BY <7>1 DEF SameName
            <7>3. RepresentedIn(Visible(c)', c, pos[c])
              BY <3>2, <6>1, <6>2, <7>1, <7>2 DEF RepresentedIn
            <7> QED
              BY <4>1, <7>3
          <6>4. CASE j \in skipped[c]
            <7>1. RepresentedIn(Visible(c)', c, j)
              BY <3>4, <6>1, <6>4
            <7>2. PICK k \in 1 .. j :
                      /\ BatchKey(batch[c][k]) = BatchKey(batch[c][j])
                      /\ \E r \in Visible(c)' : \/ SameExt(Posting(r), batch[c][k])
                                               \/ SameName(Posting(r), batch[c][k])
              BY <7>1 DEF RepresentedIn
            <7>3. k \in 1 .. pos[c]
              BY <6>2, <7>2 DEF TypeOK
            <7>4. RepresentedIn(Visible(c)', c, pos[c])
              BY <6>1, <7>2, <7>3 DEF RepresentedIn
            <7> QED
              BY <4>1, <7>4
          <6> QED
            BY <6>2, <6>3, <6>4
        <5> QED
          BY <4>6, <5>1, <5>2 DEF SkipItem
      <4> QED
        BY <4>0, <4>4, <4>5, <4>6
    <3>6. Sk(c)'
      <4>1. \A i \in skipped'[c] : batch[c][i].blank \/ RepresentedIn(Visible(c)', c, i)
        BY <3>4, <3>5 DEF Item
      <4> QED
        BY <3>2, <4>1 DEF RepresentedIn, Posting
    <3> QED
      BY <3>3, <3>6
  <2>5. ASSUME NEW c \in Callers, Fault(c) PROVE N(c)'
    BY <2>5 DEF Fault, FlushTransient, CommitTransient, Abort, TypeOK
  <2>6. ASSUME NEW c \in Callers, Step(c) \/ Fault(c) PROVE \A d \in Callers : N(d)'
    BY <2>2, <2>4, <2>5, <2>6
  <2>7. CASE UNCHANGED vars
    BY <2>1, <2>7 DEF vars, NothingLost, Visible, RepresentedIn, Posting
  <2> QED
    BY <2>6, <2>7 DEF Next, AllOver, NothingLost
<1> QED
  BY <1>1, <1>2, TypeCorrect, OneWriter, ProgressHolds, LookupStaysTrue, PTL DEF Spec

(* What a call reports as created is committed when it returns, provided   *)
(* no error is transient.                                                  *)
THEOREM CreatedIsDurable ==
    ASSUME MaxTransient = 0
    PROVE  Spec => []CreatedDurable
<1>1. Progress /\ NothingLost => CreatedDurable
  BY DEF NothingLost, Progress, CreatedDurable, Visible, Over
<1> QED
  BY <1>1, ProgressHolds, NothingIsLost, PTL

(* What a call skips is represented in the table when it returns, provided *)
(* no error is transient.                                                  *)
THEOREM SkippedIsRepresented ==
    ASSUME MaxTransient = 0
    PROVE  Spec => []SkippedRepresented
<1>1. Progress /\ NothingLost => SkippedRepresented
  <2> SUFFICES ASSUME Progress, NothingLost, NEW c \in Callers, pc[c] = "done"
               PROVE  \A i \in skipped[c] : batch[c][i].blank \/ RepresentedIn(table, c, i)
    BY DEF SkippedRepresented
  <2>1. Visible(c) = table
    BY DEF Progress, Visible, Over
  <2> QED
    BY <2>1 DEF NothingLost
<1> QED
  BY <1>1, ProgressHolds, NothingIsLost, PTL

-----------------------------------------------------------------------------
(* Without transient errors every call takes effect at one moment and its  *)
(* answer tells the truth: the specification of JobStore.                  *)
THEOREM ImplementsJobStore ==
    ASSUME MaxTransient = 0
    PROVE  Spec => StoreSpec
<1> DEFINE answer == [c \in Callers |-> Answer(c)]
<1>1. Init => Store!Init
  BY DEF Init, Store!Init, Answer, Store!Pending
<1>2. /\ TypeOK /\ Progress /\ NothingLost /\ UniqueExternal'
      /\ [Next]_vars
      => [Store!Next]_<<batch, table, answer>>
  <2> SUFFICES ASSUME TypeOK, Progress, NothingLost, UniqueExternal', [Next]_vars
               PROVE  [Store!Next]_<<batch, table, answer>>
    OBVIOUS
  <2>1. ASSUME NEW c \in Callers, pc[c] \in Live, pc'[c] \in Live, table' = table,
               Step(c) \/ Fault(c)
        PROVE  UNCHANGED <<batch, table, answer>>
    <3>1. /\ batch' = batch
          /\ \A d \in Callers \ {c} : pc'[d] = pc[d] /\ created'[d] = created[d]
      BY <2>1 DEF TypeOK, Step, Fault, SkipItem, LookupByExt, LookupByTitle, FlushRow,
          FlushConflict, FlushTransient, Commit, CommitTransient, Abort, CountCreated, Advance
    <3>2. \A d \in Callers : Answer(d)' = Answer(d)
      BY <2>1, <3>1 DEF Answer, Live
    <3> QED
      BY <2>1, <3>1, <3>2
  <2>2. ASSUME NEW c \in Callers, SkipItem(c) \/ LookupByExt(c) \/ LookupByTitle(c)
                                 \/ FlushRow(c) \/ FlushConflict(c)
        PROVE  UNCHANGED <<batch, table, answer>>
    <3>1. pc[c] \in Live /\ pc'[c] \in Live /\ table' = table
      BY <2>2 DEF TypeOK, SkipItem, LookupByExt, LookupByTitle, FlushRow, FlushConflict,
          Advance, Live
    <3> QED
      BY <2>1, <2>2, <3>1 DEF Step
  <2>3. ASSUME NEW c \in Callers, Commit(c) PROVE Store!Answer(c, created[c])
    <3>1. table' = table \cup flushed[c] /\ batch' = batch /\ created' = created
          /\ pc[c] = "commit" /\ pc' = [pc EXCEPT ![c] = "done"]
      BY <2>3 DEF Commit
    <3>2. Visible(c) = table' /\ Indices(c) = created[c] \cup skipped[c]
      BY <3>1, BatchLength DEF Visible, Progress, Indices, TypeOK
    <3>3. table' = table \cup {Row(c, i) : i \in created[c]}
      BY <3>1, <3>2 DEF NothingLost, Progress
    <3>4. Store!UniqueIn(table')
      BY <3>1 DEF UniqueExternal, Store!UniqueIn, Posting, Store!Posting, SameExt, Store!SameExt
    <3>5. \A i \in Store!Indices(c) \ created[c] :
              batch[c][i].blank \/ Store!RepresentedIn(table', c, i)
      <4>1. \A i \in skipped[c] : batch[c][i].blank \/ RepresentedIn(table', c, i)
        BY <3>1, <3>2 DEF NothingLost
      <4>2. ASSUME NEW i, RepresentedIn(table', c, i) PROVE Store!RepresentedIn(table', c, i)
        <5>1. PICK j \in 1 .. i, r \in table' :
                  /\ BatchKey(batch[c][j]) = BatchKey(batch[c][i])
                  /\ SameExt(Posting(r), batch[c][j]) \/ SameName(Posting(r), batch[c][j])
          BY <4>2 DEF RepresentedIn
        <5>2. Store!BatchKey(batch[c][j]) = Store!BatchKey(batch[c][i])
          BY <5>1 DEF BatchKey, Store!BatchKey
        <5>3. \/ Store!SameExt(Store!Posting(r), batch[c][j])
              \/ Store!SameName(Store!Posting(r), batch[c][j])
          BY <5>1 DEF Posting, Store!Posting, SameExt, Store!SameExt, SameName, Store!SameName
        <5> QED
          BY <5>2, <5>3 DEF Store!RepresentedIn
      <4>3. Store!Indices(c) \ created[c] \subseteq skipped[c]
        BY <3>2 DEF Store!Indices, Indices
      <4> QED
        BY <4>1, <4>2, <4>3
    <3>6. answer[c] = Store!Pending
      BY <3>1 DEF Answer, Store!Pending
    <3>7. answer' = [answer EXCEPT ![c] = Store!Done(created[c])]
      BY <3>1 DEF Answer, Store!Done, TypeOK
    <3> QED
      BY <3>1, <3>3, <3>4, <3>5, <3>6, <3>7 DEF Store!Answer, Row, Store!Row
  <2>4. ASSUME NEW c \in Callers, Abort(c) PROVE Store!Fail(c)
    <3>1. answer[c] = Store!Pending
      BY <2>4 DEF Abort, Answer, Store!Pending, Live
    <3>2. answer' = [answer EXCEPT ![c] = Store!Failed]
      BY <2>4 DEF Abort, Answer, Store!Failed, TypeOK
    <3> QED
      BY <2>4, <3>1, <3>2 DEF Abort, Store!Fail
  <2>5. ASSUME NEW c \in Callers, Step(c) \/ Fault(c)
        PROVE  [Store!Next]_<<batch, table, answer>>
    <3>1. ~FlushTransient(c) /\ ~CommitTransient(c)
      BY DEF FlushTransient, CommitTransient, TypeOK
    <3>2. created[c] \in SUBSET Store!Indices(c) \/ ~Commit(c)
      BY BatchLength DEF Progress, Store!Indices, Commit, TypeOK
    <3> QED
      BY <2>2, <2>3, <2>4, <2>5, <3>1, <3>2 DEF Step, Fault, Store!Next
  <2>6. CASE UNCHANGED vars
    BY <2>6 DEF vars, Answer
  <2> QED
    BY <2>5, <2>6 DEF Next, AllOver
<1> QED
  BY <1>1, <1>2, TypeCorrect, ProgressHolds, NothingIsLost, ExternalIdsUnique, PTL
  DEF Spec, StoreSpec, Store!Spec, Store!storeVars

-----------------------------------------------------------------------------
(* The rows of one call a call can see: only its own steps change them.    *)
Own(c) == {r \in Visible(c) : r[1] = c}

(* A name SQLite folds as Python does. *)
Folds(n) == DbLower[n] = Norm[n]

(* A call between its look-up by name and its flush has no row of the name *)
(* it looked for, and no two rows of one name.                             *)
NameClear(c) ==
    pc[c] = "flush" => \A r \in Own(c) : DbLower[Posting(r).name] # Norm[Item(c).name]

NamesApart(c) ==
    \A r, s \in Own(c) :
        (r # s /\ Folds(Posting(r).name) /\ Folds(Posting(s).name))
        => ~SameName(Posting(r), Posting(s))

NamesKept == \A c \in Callers : NameClear(c) /\ NamesApart(c)

(* A step of another call changes none of these rows. *)
LEMMA OwnOfOthers ==
    ASSUME TypeOK, Progress, NEW c \in Callers, Step(c) \/ Fault(c), NEW d \in Callers \ {c}
    PROVE  Own(d)' = Own(d) /\ pc'[d] = pc[d] /\ pos'[d] = pos[d] /\ batch' = batch
<1>1. /\ pc'[d] = pc[d] /\ pos'[d] = pos[d] /\ batch' = batch /\ flushed'[d] = flushed[d]
  BY DEF TypeOK, Step, Fault, SkipItem, LookupByExt, LookupByTitle, FlushRow,
      FlushConflict, FlushTransient, Commit, CommitTransient, Abort,
      CountSkipped, CountCreated, Rollback, Advance
<1>2. table' = table \/ table' = table \cup flushed[c]
  BY DEF Step, Fault, SkipItem, LookupByExt, LookupByTitle, FlushRow,
      FlushConflict, FlushTransient, Commit, CommitTransient, Abort
<1>3. \A r \in flushed[c] : r[1] = c
  BY DEF Progress, Row
<1> QED
  BY <1>1, <1>2, <1>3 DEF Own, Visible

(* A step of its own changes them when a row is flushed, or undone. *)
LEMMA OwnOfItself ==
    ASSUME TypeOK, NEW c \in Callers, Step(c) \/ Fault(c), ~FlushRow(c)
    PROVE  Own(c)' \subseteq Own(c) /\ batch' = batch
<1>1. batch' = batch
  BY DEF Step, Fault, SkipItem, LookupByExt, LookupByTitle, FlushRow, FlushConflict,
      FlushTransient, Commit, CommitTransient, Abort
<1>2. Visible(c)' \subseteq Visible(c)
  <2>1. CASE FlushConflict(c) \/ FlushTransient(c) \/ CommitTransient(c) \/ Abort(c)
    BY <2>1 DEF TypeOK, Visible, FlushConflict, FlushTransient, CommitTransient, Abort, Rollback
  <2> QED
    BY <2>1, SelfSees
<1> QED
  BY <1>1, <1>2 DEF Own

(* No call has two rows of one name, nor one of the name it is about to    *)
(* insert.                                                                 *)
LEMMA NamesAreKept == Spec => []NamesKept
<1>1. Init => NamesKept
  BY DEF Init, NamesKept, NameClear, NamesApart, Own, Visible
<1>2. TypeOK /\ Progress /\ NamesKept /\ [Next]_vars => NamesKept'
  <2> SUFFICES ASSUME TypeOK, Progress, NamesKept, [Next]_vars PROVE NamesKept'
    OBVIOUS
  <2>1. ASSUME NEW c \in Callers, Step(c) \/ Fault(c), NEW d \in Callers \ {c}
        PROVE  NameClear(d)' /\ NamesApart(d)'
    <3>1. /\ Own(d)' = Own(d) /\ pc'[d] = pc[d] /\ pos'[d] = pos[d] /\ batch' = batch
      BY <2>1, OwnOfOthers
    <3>2. \A r : Posting(r)' = Posting(r)
      BY <3>1 DEF Posting
    <3>3. Item(d)' = Item(d)
      BY <3>1 DEF Item
    <3> QED
      BY <3>1, <3>2, <3>3 DEF NamesKept, NameClear, NamesApart
  <2>2. ASSUME NEW c \in Callers, FlushRow(c) PROVE NameClear(c)' /\ NamesApart(c)'
    <3>1. /\ batch' = batch /\ pc[c] = "flush" /\ pc'[c] # "flush"
      BY <2>2 DEF FlushRow, Advance, TypeOK
    <3>2. Own(c)' = Own(c) \cup {Row(c, pos[c])}
      <4>1. Visible(c)' = Visible(c) \cup {Row(c, pos[c])}
        BY <2>2 DEF FlushRow, Visible, TypeOK
      <4> QED
        BY <4>1 DEF Own, Row
    <3>3. \A r : Posting(r)' = Posting(r)
      BY <3>1 DEF Posting
    <3>4. Posting(Row(c, pos[c])) = Item(c)
      BY DEF Posting, Row, Item
    <3>5. \A r \in Own(c) : Folds(Posting(r).name) => Norm[Posting(r).name] # Norm[Item(c).name]
      BY <3>1 DEF NamesKept, NameClear, Folds
    <3>6. NamesApart(c)'
      <4> SUFFICES ASSUME NEW r \in Own(c) \cup {Row(c, pos[c])},
                          NEW s \in Own(c) \cup {Row(c, pos[c])},
                          r # s, Folds(Posting(r).name), Folds(Posting(s).name)
                   PROVE  Norm[Posting(r).name] # Norm[Posting(s).name]
        BY <3>2, <3>3 DEF NamesApart, Folds, SameName
      <4>1. CASE r \in Own(c) /\ s \in Own(c)
        BY <4>1 DEF NamesKept, NamesApart, SameName
      <4>2. CASE r = Row(c, pos[c]) \/ s = Row(c, pos[c])
        BY <3>4, <3>5, <4>2
      <4> QED
        BY <4>1, <4>2
    <3> QED
      BY <3>1, <3>6 DEF NameClear
  <2>3. ASSUME NEW c \in Callers, Step(c) \/ Fault(c), ~FlushRow(c)
        PROVE  NameClear(c)' /\ NamesApart(c)'
    <3>1. Own(c)' \subseteq Own(c) /\ batch' = batch
      BY <2>3, OwnOfItself
    <3>2. \A r : Posting(r)' = Posting(r)
      BY <3>1 DEF Posting
    <3>3. NamesApart(c)'
      BY <3>1, <3>2 DEF NamesKept, NamesApart
    <3>4. NameClear(c)'
      <4> SUFFICES ASSUME pc'[c] = "flush"
                   PROVE  \A r \in Own(c)' : DbLower[Posting(r).name] # Norm[Item(c)'.name]
        BY <3>2 DEF NameClear
      <4>1. LookupByTitle(c) /\ ~FoundByTitle(c) /\ pos' = pos
        BY <2>3 DEF Step, Fault, SkipItem, LookupByExt, LookupByTitle, FlushConflict,
            FlushTransient, Commit, CommitTransient, Abort, Advance, TypeOK
      <4>2. Item(c)' = Item(c)
        BY <3>1, <4>1 DEF Item
      <4> QED
        BY <3>1, <4>1, <4>2 DEF FoundByTitle, Own
    <3> QED
      BY <3>3, <3>4
  <2>4. CASE UNCHANGED vars
    BY <2>4 DEF vars, NamesKept, NameClear, NamesApart, Own, Visible, Posting, Item
  <2>5. ASSUME NEW c \in Callers, Step(c) \/ Fault(c) PROVE NamesKept'
    BY <2>1, <2>2, <2>3, <2>5 DEF NamesKept
  <2> QED
    BY <2>4, <2>5 DEF Next, AllOver
<1> QED
  BY <1>1, <1>2, TypeCorrect, ProgressHolds, PTL DEF Spec

(* One call never stores two rows of a company and title, for names both   *)
(* languages fold alike, with any number of faults (models.py:139-140).    *)
THEOREM OneCallOneName == Spec => []NameGuard
<1>1. TypeOK /\ NamesKept => NameGuard
  <2> SUFFICES ASSUME TypeOK, NamesKept, NEW r \in table, NEW s \in table,
                      r # s, r[1] = s[1], Folds(Posting(r).name), Folds(Posting(s).name)
               PROVE  ~SameName(Posting(r), Posting(s))
    BY DEF NameGuard, Folds
  <2>1. r[1] \in Callers
    BY DEF TypeOK, Rows
  <2>2. r \in Own(r[1]) /\ s \in Own(r[1])
    BY DEF Own, Visible
  <2> QED
    BY <2>1, <2>2 DEF NamesKept, NamesApart
<1> QED
  BY <1>1, TypeCorrect, NamesAreKept, PTL
=============================================================================
