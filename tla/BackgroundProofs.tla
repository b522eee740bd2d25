-------------------------- MODULE BackgroundProofs --------------------------
(***************************************************************************)
(* Theorems about the work behind the requests of the web application: the *)
(* search runs (SearchRun) and the background tasks with their status      *)
(* files (TaskStatus).                                                     *)
(***************************************************************************)
EXTENDS SearchRun, TaskStatus, SequenceTheorems, FiniteSetTheorems, TLAPS

-----------------------------------------------------------------------------
(* Search runs, for every set of runs and pulls, every list of providers,  *)
(* and any number of faults, but for the last two, which say what they     *)
(* leave out.                                                              *)

(* A dictionary that is loaded, or counted up, is a dictionary.            *)
LEMMA Loaded ==
    ASSUME TypeOK
    PROVE  LoadCooldowns \in Deadlines /\ LoadDailyRuns \in Counts
  BY DEF TypeOK, LoadCooldowns, LoadDailyRuns, NoCooldowns, NoRuns, Deadlines, Counts

(* The day is a number. *)
LEMMA TodayNat == ASSUME TypeOK PROVE Today \in Nat
<1>1. DayLength \in Nat \ {0} /\ now \in Nat
  BY SearchRunAssumption DEF TypeOK
<1> QED
  BY <1>1 DEF Today

(* A count with one run more is a count.                                   *)
LEMMA Incremented ==
    ASSUME TypeOK, NEW counts \in Counts, NEW p \in Providers
    PROVE  IncrementRuns(counts, p) \in Counts
<1>1. RunsToday(counts, p) \in Nat
  BY DEF RunsToday, Counts
<1> QED
  BY <1>1, TodayNat DEF IncrementRuns, Counts

(* A final status is a status.  A thread without a row changes none.       *)
LEMMA Finalised ==
    ASSUME TypeOK, NEW a \in Actors, NEW outcome \in {"ok", "error"}, Finalise(a, outcome)
    PROVE  rows' \in Seq({"running", "ok", "error"}) /\ Len(rows') = Len(rows)
<1>1. CASE row[a] \in 1 .. Len(rows)
  <2> DEFINE S == {"running", "ok", "error"}
  <2>1. rows \in Seq(S) /\ outcome \in S
    BY DEF TypeOK
  <2> HIDE DEF S
  <2>2. /\ [rows EXCEPT ![row[a]] = outcome] \in Seq(S)
        /\ Len([rows EXCEPT ![row[a]] = outcome]) = Len(rows)
    BY <1>1, <2>1, ExceptSeq
  <2>3. row[a] # 0
    BY <1>1
  <2> QED
    BY <2>2, <2>3 DEF Finalise, S
<1>2. CASE row[a] \notin 1 .. Len(rows)
  <2>1. [rows EXCEPT ![row[a]] = outcome] = rows
    BY <1>2 DEF TypeOK
  <2> QED
    BY <2>1 DEF TypeOK, Finalise
<1> QED
  BY <1>1, <1>2

(* A file that is truncated stays a file, whatever is in it. *)
LEMMA Truncated ==
    ASSUME NEW M, NEW f \in [whole : BOOLEAN, map : M]
    PROVE  [f EXCEPT !.whole = FALSE] \in [whole : BOOLEAN, map : M]
  OBVIOUS

(* The counters of faults keep to their bounds. *)
LEMMA OneMore ==
    ASSUME NEW t \in Nat, NEW c \in Nat, NEW h \in Nat,
           NEW f \in [transient : 0 .. t, crash : 0 .. c, uncaught : 0 .. h]
    PROVE  /\ f.transient < t => [f EXCEPT !.transient = @ + 1]
                                 \in [transient : 0 .. t, crash : 0 .. c, uncaught : 0 .. h]
           /\ f.crash < c => [f EXCEPT !.crash = @ + 1]
                             \in [transient : 0 .. t, crash : 0 .. c, uncaught : 0 .. h]
           /\ f.uncaught < h => [f EXCEPT !.uncaught = @ + 1]
                               \in [transient : 0 .. t, crash : 0 .. c, uncaught : 0 .. h]
  OBVIOUS

(* The variables keep their types, and the threads their labels.           *)
THEOREM TypeCorrect == Spec => [](TypeOK /\ Labels)
<1> USE DEF Actors
<1>1. Init => TypeOK /\ Labels
  BY SearchRunAssumption
  DEF Init, TypeOK, Labels, RunLabels, PullLabels, Deadlines, Counts, NoCooldowns, NoRuns
<1>2. TypeOK /\ Labels /\ [Next]_vars => TypeOK' /\ Labels'
  <2> SUFFICES ASSUME TypeOK, Labels, [Next]_vars PROVE TypeOK' /\ Labels'
    OBVIOUS
  <2>0. /\ Runners \cap Pulls = {}
        /\ MaxTransient \in Nat /\ MaxCrashes \in Nat /\ MaxUncaught \in Nat
    BY SearchRunAssumption
  <2> USE <2>0 DEF TypeOK, Labels, RunLabels, PullLabels, Goto
  <2>1. ASSUME NEW r \in Runners, TakeLock(r) \/ NothingToDo(r) \/ ReleaseLock(r)
        PROVE  TypeOK' /\ Labels'
    <3>1. CASE TakeLock(r)
      BY <3>1 DEF TakeLock, files, memory, ghosts
    <3>2. CASE NothingToDo(r)
      BY <3>2 DEF NothingToDo, files, memory, ghosts
    <3>3. CASE ReleaseLock(r)
      BY <3>3 DEF ReleaseLock, files, memory, ghosts
    <3> QED
      BY <2>1, <3>1, <3>2, <3>3
  <2>2. ASSUME NEW r \in Runners, StartRun(r) PROVE TypeOK' /\ Labels'
    BY <2>2 DEF StartRun, files, memory, ghosts
  <2>3. ASSUME NEW r \in Runners, LoadFiles(r) PROVE TypeOK' /\ Labels'
    BY <2>3, Loaded DEF LoadFiles, files, ghosts
  <2>4. ASSUME NEW r \in Runners, SkipProvider(r) \/ CallProvider(r) PROVE TypeOK' /\ Labels'
    <3>1. CASE SkipProvider(r)
      BY <3>1, SMTT(30) DEF SkipProvider, files, memory, ghosts
    <3>2. CASE CallProvider(r)
      <4>1. idx[r] <= Len(Enabled)
        BY <3>2 DEF CallProvider
      <4> QED
        BY <3>2, <4>1 DEF CallProvider, files, memory, ghosts
    <3> QED
      BY <2>4, <3>1, <3>2
  <2>5. ASSUME NEW r \in Runners, NEW outcome \in Outcomes, ProviderAnswers(r, outcome)
        PROVE  TypeOK' /\ Labels'
    <3> DEFINE p == Enabled[idx[r]]
    <3>1. p \in Providers
      BY <2>5, SearchRunAssumption DEF ProviderAnswers
    <3>2. runs' \in [Runners -> Counts]
      BY <2>5, <3>1, Incremented DEF ProviderAnswers
    <3>3. cool' \in [Actors -> Deadlines]
      <4>1. now + CooldownTime \in Nat
        BY SearchRunAssumption
      <4> QED
        BY <2>5, <4>1 DEF ProviderAnswers, Deadlines
    <3>4. dirty' \in [Runners -> [cool : BOOLEAN, runs : BOOLEAN]]
      BY <2>5, <3>1 DEF ProviderAnswers
    <3> QED
      BY <2>5, <3>2, <3>3, <3>4, SMTT(30) DEF ProviderAnswers, files
  <2>6. ASSUME NEW r \in Runners, LoopEnds(r) \/ IngestResults(r) \/ RunRaises(r) \/ SaveFails(r)
        PROVE  TypeOK' /\ Labels'
    BY <2>6, ZenonT(60) DEF LoopEnds, IngestResults, RunRaises, SaveFails, files, memory, ghosts
  <2>7. ASSUME NEW r \in Runners, SaveCooldowns(r) \/ SaveDailyRuns(r) PROVE TypeOK' /\ Labels'
    <3>1. coolFile' \in [whole : BOOLEAN, map : Deadlines]
      <4>1. CASE coolFile' = [coolFile EXCEPT !.whole = FALSE]
        BY <4>1, Truncated
      <4>2. CASE coolFile' = [whole |-> TRUE, map |-> cool[r]]
        BY <4>2
      <4> QED
        BY <2>7, <4>1, <4>2 DEF SaveCooldowns, SaveDailyRuns
    <3>2. runsFile' \in [whole : BOOLEAN, map : Counts]
      <4>1. CASE runsFile' = [runsFile EXCEPT !.whole = FALSE]
        BY <4>1, Truncated
      <4>2. CASE runsFile' = [whole |-> TRUE, map |-> runs[r]]
        BY <4>2
      <4> QED
        BY <2>7, <4>1, <4>2 DEF SaveCooldowns, SaveDailyRuns
    <3> QED
      BY <2>7, <3>1, <3>2, ZenonT(60) DEF SaveCooldowns, SaveDailyRuns, memory, ghosts
  <2>8. ASSUME NEW r \in Runners, FinishRun(r) \/ HandleError(r) PROVE TypeOK' /\ Labels'
    <3>1. rows' \in Seq({"running", "ok", "error"})
      BY <2>8, Finalised DEF FinishRun, HandleError
    <3> QED
      BY <2>8, <3>1 DEF FinishRun, HandleError, files, memory, ghosts
  <2>9. ASSUME NEW u \in Pulls, StartPull(u) PROVE TypeOK' /\ Labels'
    BY <2>9 DEF StartPull, files, memory, ghosts
  <2>10. ASSUME NEW u \in Pulls,
                PullEnters(u) \/ PullAnswers(u) \/ PullIngests(u) \/ PullRaises(u)
         PROVE  TypeOK' /\ Labels'
    BY <2>10 DEF PullEnters, PullAnswers, PullIngests, PullRaises, files, memory, ghosts
  <2>11. ASSUME NEW u \in Pulls, PullLoads(u) PROVE TypeOK' /\ Labels'
    <3>1. cool' \in [Actors -> Deadlines]
      BY <2>11, Loaded DEF PullLoads, Deadlines
    <3> QED
      BY <2>11, <3>1 DEF PullLoads, files, ghosts
  <2>12. ASSUME NEW u \in Pulls, PullSaves(u) PROVE TypeOK' /\ Labels'
    <3>1. coolFile' \in [whole : BOOLEAN, map : Deadlines]
      <4>1. CASE coolFile' = [coolFile EXCEPT !.whole = FALSE]
        BY <4>1, Truncated
      <4>2. CASE coolFile' = [whole |-> TRUE, map |-> cool[u]]
        BY <4>2
      <4> QED
        BY <2>12, <4>1, <4>2 DEF PullSaves
    <3>2. /\ pc' \in [Actors -> RunLabels \cup PullLabels]
          /\ Labels'
      BY <2>12, ZenonT(60) DEF PullSaves, memory
    <3> QED
      BY <2>12, <3>1, <3>2 DEF PullSaves, memory
  <2>13. ASSUME NEW u \in Pulls, FinishPull(u) PROVE TypeOK' /\ Labels'
    <3>1. rows' \in Seq({"running", "ok", "error"})
      BY <2>13, Finalised DEF FinishPull
    <3> QED
      BY <2>13, <3>1 DEF FinishPull, EndPull, files, memory, ghosts
  <2>14. ASSUME NEW a \in Actors, HandlerRaises(a) \/ PullNeverStarts(a)
         PROVE  TypeOK' /\ Labels'
    <3>1. faults' \in [transient : 0 .. MaxTransient, crash : 0 .. MaxCrashes,
                      uncaught : 0 .. MaxUncaught]
      <4>1. faults.uncaught < MaxUncaught /\ faults' = [faults EXCEPT !.uncaught = @ + 1]
        BY <2>14, Zenon DEF HandlerRaises, PullNeverStarts
      <4> QED
        BY <4>1, OneMore
    <3>2. row' \in [Actors -> Nat] /\ pc' \in [Actors -> RunLabels \cup PullLabels]
      <4>1. CASE Goto(a, "release") /\ row' = row
        BY <4>1
      <4>2. CASE EndPull(a)
        BY <4>2 DEF EndPull
      <4> QED
        BY <2>14, <4>1, <4>2 DEF HandlerRaises, PullNeverStarts
    <3>3. Labels'
      BY <2>14 DEF HandlerRaises, PullNeverStarts, EndPull, memory
    <3> QED
      BY <2>14, <3>1, <3>2, <3>3 DEF HandlerRaises, PullNeverStarts, files, memory, ghosts
  <2>15. ASSUME NEW a \in Actors, CommitLost(a) PROVE TypeOK' /\ Labels'
    <3>1. faults' \in [transient : 0 .. MaxTransient, crash : 0 .. MaxCrashes,
                      uncaught : 0 .. MaxUncaught]
      BY <2>15, OneMore DEF CommitLost
    <3>2. row' \in [Actors -> Nat] /\ pc' \in [Actors -> RunLabels \cup PullLabels]
      <4>1. CASE row' = row /\ \E label \in {"load", "release", "pullThread"} : Goto(a, label)
        BY <4>1
      <4>2. CASE EndPull(a)
        BY <4>2 DEF EndPull
      <4> QED
        BY <2>15, <4>1, <4>2 DEF CommitLost
    <3>3. Labels'
      BY <2>15, ZenonT(60) DEF CommitLost, EndPull, memory
    <3> QED
      BY <2>15, <3>1, <3>2, <3>3 DEF CommitLost, files, memory, ghosts
  <2>16. ASSUME NEW a \in Actors, Crash(a) PROVE TypeOK' /\ Labels'
    <3>1. faults' \in [transient : 0 .. MaxTransient, crash : 0 .. MaxCrashes,
                      uncaught : 0 .. MaxUncaught]
      BY <2>16, OneMore DEF Crash
    <3>2. row' \in [Actors -> Nat] /\ pc' \in [Actors -> RunLabels \cup PullLabels]
      BY <2>16 DEF Crash
    <3>3. Labels'
      BY <2>16 DEF Crash, memory
    <3> QED
      BY <2>16, <3>1, <3>2, <3>3 DEF Crash, files, memory, ghosts
  <2>17. CASE Tick
    BY <2>17 DEF Tick, files, memory, ghosts
  <2>18. CASE UNCHANGED vars
    BY <2>18 DEF vars
  <2> QED
    BY <2>1, <2>2, <2>3, <2>4, <2>5, <2>6, <2>7, <2>8, <2>9, <2>10, <2>11, <2>12, <2>13,
       <2>14, <2>15, <2>16, <2>17, <2>18
    DEF Next, RunStep, PullStep, Fault
<1> QED
  BY <1>1, <1>2, PTL DEF Spec

-----------------------------------------------------------------------------
(* Runs never overlap: who is not idle holds the lock. *)
THEOREM RunsExclude == Spec => []OneRun
<1>1. Init => OneRun
  BY DEF Init, OneRun, Actors
<1>2. TypeOK /\ Labels /\ OneRun /\ [Next]_vars => OneRun'
  <2> SUFFICES ASSUME TypeOK, Labels, OneRun, [Next]_vars PROVE OneRun'
    OBVIOUS
  <2>0. Runners \cap Pulls = {} /\ NoOne \notin Actors
    BY SearchRunAssumption
  <2>t. pc \in [Actors -> RunLabels \cup PullLabels]
    BY DEF TypeOK
  <2> USE <2>0, <2>t DEF OneRun, Actors, Goto
  <2>1. ASSUME NEW r \in Runners, TakeLock(r) PROVE OneRun'
    BY <2>1 DEF TakeLock
  <2>2. ASSUME NEW r \in Runners, ReleaseLock(r) PROVE OneRun'
    BY <2>2 DEF ReleaseLock
  <2>3. ASSUME NEW a \in Actors, Crash(a) PROVE OneRun'
    BY <2>3 DEF Crash
  \* Every other step of a run is taken by one that was not idle before it.
  <2>4. ASSUME NEW r \in Runners, pc[r] # "idle", lock' = lock,
               NEW label \in RunLabels, pc' = [pc EXCEPT ![r] = label] \/ pc' = pc
        PROVE  OneRun'
    BY <2>4
  <2>5. ASSUME NEW r \in Runners, RunStep(r), ~ReleaseLock(r) PROVE OneRun'
    <3>1. pc[r] # "idle" /\ lock' = lock
      BY <2>5 DEF RunStep, NothingToDo, StartRun, LoadFiles, SkipProvider, CallProvider,
                  ProviderAnswers, LoopEnds, SaveCooldowns, SaveDailyRuns, IngestResults,
                  FinishRun, HandleError
    <3>2. pc' = pc \/ \E label \in RunLabels : pc' = [pc EXCEPT ![r] = label]
      BY <2>5 DEF RunStep, NothingToDo, StartRun, LoadFiles, SkipProvider, CallProvider,
                  ProviderAnswers, LoopEnds, SaveCooldowns, SaveDailyRuns, IngestResults,
                  FinishRun, HandleError, RunLabels
    <3> QED
      BY <2>4, <3>1, <3>2 DEF RunLabels
  <2>6. ASSUME NEW r \in Runners, RunRaises(r) \/ SaveFails(r) PROVE OneRun'
    BY <2>6 DEF RunRaises, SaveFails
  \* A step of a pull moves no run, and leaves the lock alone.
  <2>7. ASSUME NEW u \in Pulls, StartPull(u) \/ PullStep(u) \/ PullRaises(u) PROVE OneRun'
    <3>1. lock' = lock
      BY <2>7 DEF StartPull, PullStep, PullEnters, PullAnswers, PullLoads, PullSaves, PullIngests,
                  FinishPull, PullRaises
    <3>2. \A r \in Runners : pc'[r] = pc[r]
      BY <2>7 DEF StartPull, PullStep, PullEnters, PullAnswers, PullLoads, PullSaves, PullIngests,
                  FinishPull, EndPull, PullRaises
    <3> QED
      BY <3>1, <3>2
  <2>8. ASSUME NEW a \in Actors,
             HandlerRaises(a) \/ PullNeverStarts(a) \/ CommitLost(a)
      PROVE  OneRun'
    BY <2>8 DEF HandlerRaises, PullNeverStarts, CommitLost, EndPull, Labels, RunLabels, PullLabels
  <2>9. CASE Tick \/ UNCHANGED vars
    BY <2>9 DEF Tick, vars
  <2> QED
    BY <2>1, <2>2, <2>3, <2>5, <2>6, <2>7, <2>8, <2>9 DEF Next, Fault
<1> QED
  BY <1>1, <1>2, TypeCorrect, PTL DEF Spec

-----------------------------------------------------------------------------
(* What a step may do to the table and to who has which row.  It keeps     *)
(* OwnRow, and the final statuses, if it does one of four things.          *)
Settled == \A i \in 1 .. Len(rows) : rows[i] # "running" => rows'[i] = rows[i]

(* It leaves both alone, and nobody leaves "release" with a row.           *)
LEMMA Kept ==
    ASSUME TypeOK, OwnRow, rows' = rows, row' = row,
           \A a \in Actors : pc'[a] # "release" => pc[a] # "release"
    PROVE  OwnRow' /\ Settled
  BY DEF TypeOK, OwnRow, Settled

(* A thread lets its row go. *)
LEMMA LetGo ==
    ASSUME TypeOK, OwnRow, NEW a \in Actors, rows' = rows, row' = [row EXCEPT ![a] = 0],
           NEW label, pc' = [pc EXCEPT ![a] = label]
    PROVE  OwnRow' /\ Settled
  BY DEF TypeOK, OwnRow, Settled

(* A thread appends a row, which becomes its own.                          *)
LEMMA Inserted ==
    ASSUME TypeOK, OwnRow, NEW a \in Actors, rows' = Append(rows, "running"),
           row' = [row EXCEPT ![a] = Len(rows) + 1],
           NEW label, pc' = [pc EXCEPT ![a] = label]
    PROVE  OwnRow' /\ Settled
<1> DEFINE S == {"running", "ok", "error"}
<1>1. rows \in Seq(S) /\ "running" \in S
  BY DEF TypeOK
<1> HIDE DEF S
<1>2. /\ Len(rows') = Len(rows) + 1 /\ Len(rows) \in Nat
      /\ \A i \in 1 .. Len(rows) : rows'[i] = rows[i]
      /\ rows'[Len(rows) + 1] = "running"
  BY <1>1, AppendProperties
<1> QED
  BY <1>2 DEF TypeOK, OwnRow, Settled

(* A thread gives its row the final status, and lets it go at once, or at  *)
(* "release".                                                              *)
LEMMA RunEnded ==
    ASSUME TypeOK, OwnRow, NEW a \in Actors, NEW outcome \in {"ok", "error"},
           Finalise(a, outcome), pc[a] # "release",
           NEW label, pc' = [pc EXCEPT ![a] = label],
           (row' = row /\ label = "release") \/ row' = [row EXCEPT ![a] = 0]
    PROVE  OwnRow' /\ Settled
<1>1. CASE row[a] = 0
  BY <1>1 DEF Finalise, TypeOK, OwnRow, Settled
<1>2. CASE row[a] # 0
  <2> DEFINE S == {"running", "ok", "error"}
  <2>1. rows \in Seq(S) /\ outcome \in S
    BY DEF TypeOK
  <2>2. row[a] \in 1 .. Len(rows) /\ rows[row[a]] = "running"
    BY <1>2 DEF OwnRow
  <2> HIDE DEF S
  <2>3. /\ Len(rows') = Len(rows)
        /\ \A i \in 1 .. Len(rows) : i # row[a] => rows'[i] = rows[i]
    BY <1>2, <2>1, <2>2, ExceptSeq DEF Finalise
  <2> QED
    BY <1>2, <2>2, <2>3 DEF TypeOK, OwnRow, Settled
<1> QED
  BY <1>1, <1>2

(* Every step does one of the four. *)
LEMMA RowStep ==
    ASSUME TypeOK, Labels, OwnRow, [Next]_vars
    PROVE  OwnRow' /\ Settled
<1>0. Runners \cap Pulls = {} /\ pc \in [Actors -> RunLabels \cup PullLabels]
  BY SearchRunAssumption DEF TypeOK
<1> USE <1>0 DEF Actors, Goto
<1>1. ASSUME NEW r \in Runners, StartRun(r) PROVE OwnRow' /\ Settled
  BY <1>1, Inserted DEF StartRun
<1>2. ASSUME NEW r \in Runners, FinishRun(r) \/ HandleError(r) PROVE OwnRow' /\ Settled
  BY <1>2, RunEnded DEF FinishRun, HandleError
<1>3. ASSUME NEW r \in Runners, ReleaseLock(r) PROVE OwnRow' /\ Settled
  BY <1>3, LetGo DEF ReleaseLock
<1>4. ASSUME NEW r \in Runners,
             TakeLock(r) \/ RunStep(r) \/ RunRaises(r) \/ SaveFails(r),
             ~StartRun(r), ~FinishRun(r), ~HandleError(r), ~ReleaseLock(r)
      PROVE  OwnRow' /\ Settled
  <2>1. rows' = rows /\ row' = row
    BY <1>4 DEF TakeLock, RunStep, NothingToDo, LoadFiles, SkipProvider, CallProvider,
                ProviderAnswers, LoopEnds, SaveCooldowns, SaveDailyRuns, IngestResults,
                RunRaises, SaveFails
  <2>2. pc[r] # "release" /\ (pc' = pc \/ \E label : pc' = [pc EXCEPT ![r] = label])
    BY <1>4 DEF TakeLock, RunStep, NothingToDo, LoadFiles, SkipProvider, CallProvider,
                ProviderAnswers, LoopEnds, SaveCooldowns, SaveDailyRuns, IngestResults,
                RunRaises, SaveFails
  <2> QED
    BY <2>1, <2>2, Kept
<1>5. ASSUME NEW u \in Pulls, StartPull(u) PROVE OwnRow' /\ Settled
  BY <1>5, Inserted DEF StartPull
<1>6. ASSUME NEW u \in Pulls, FinishPull(u) PROVE OwnRow' /\ Settled
  BY <1>6, RunEnded DEF FinishPull, EndPull
<1>7. ASSUME NEW u \in Pulls, PullStep(u) \/ PullRaises(u), ~FinishPull(u)
      PROVE  OwnRow' /\ Settled
  <2>1. rows' = rows /\ row' = row
    BY <1>7 DEF PullStep, PullEnters, PullAnswers, PullLoads, PullSaves, PullIngests, PullRaises
  <2>2. pc[u] # "release" /\ \E label : pc' = [pc EXCEPT ![u] = label]
    BY <1>7 DEF PullStep, PullEnters, PullAnswers, PullLoads, PullSaves, PullIngests, PullRaises
  <2> QED
    BY <2>1, <2>2, Kept
<1>8. ASSUME NEW a \in Actors,
             HandlerRaises(a) \/ PullNeverStarts(a) \/ CommitLost(a)
      PROVE  OwnRow' /\ Settled
  <2>1. rows' = rows
    BY <1>8 DEF HandlerRaises, PullNeverStarts, CommitLost
  <2>2. CASE EndPull(a)
    BY <2>1, <2>2, LetGo DEF EndPull
  <2>3. CASE ~EndPull(a)
    <3>1. row' = row /\ pc[a] # "release" /\ \E label : pc' = [pc EXCEPT ![a] = label]
      BY <1>8, <2>3 DEF HandlerRaises, PullNeverStarts, CommitLost
    <3> QED
      BY <2>1, <3>1, Kept
  <2> QED
    BY <2>2, <2>3
<1>9. ASSUME NEW a \in Actors, Crash(a) PROVE OwnRow' /\ Settled
  BY <1>9, LetGo DEF Crash
<1>10. CASE Tick \/ UNCHANGED vars
  BY <1>10, Kept DEF Tick, vars
<1> QED
  BY <1>1, <1>2, <1>3, <1>4, <1>5, <1>6, <1>7, <1>8, <1>9, <1>10 DEF Next, Fault

(* Nobody writes another's row. *)
THEOREM RowsAreOwn == Spec => []OwnRow
<1>1. Init => OwnRow
  BY DEF Init, OwnRow
<1> QED
  BY <1>1, RowStep, TypeCorrect, PTL DEF Spec

(* A final status stays, whatever other runs and pulls do. *)
THEOREM FinalStatusStays == Spec => FinalIsFinal
<1>1. TypeOK /\ Labels /\ OwnRow /\ [Next]_vars =>
        [\A i \in 1 .. Len(rows) : rows[i] # "running" => rows'[i] = rows[i]]_vars
  BY RowStep DEF Settled
<1> QED
  BY <1>1, TypeCorrect, RowsAreOwn, PTL DEF Spec, FinalIsFinal

-----------------------------------------------------------------------------
(* The rows nobody will finish: nobody has them, or who has them is past   *)
(* its last chance.  Every one is the fault of a lost commit, a failing    *)
(* handler or a crash, counted in Losses.                                  *)
Abandoned ==
    {i \in 1 .. Len(rows) : /\ rows[i] = "running"
                            /\ \A a \in Actors : row[a] = i => pc[a] = "release"}

Losses == faults.transient + faults.uncaught + faults.crash

Accounted == Cardinality(Abandoned) <= Losses

(* A thread has no row before it inserts one. *)
NoRowYet == \A a \in Actors : pc[a] \in {"idle", "locked"} => row[a] = 0

(* A step that abandons no row, and one that abandons the row of a.        *)
NoneLost == NoRowYet' /\ faults' = faults /\ Abandoned' \subseteq Abandoned
OneLost == /\ NoRowYet'
           /\ Losses' = Losses + 1
           /\ \E a \in Actors : Abandoned' \subseteq Abandoned \cup {row[a]}

(* One fault of any kind is one loss more.                                 *)
LEMMA OneLossMore ==
    ASSUME TypeOK,
           \/ faults' = [faults EXCEPT !.transient = @ + 1]
           \/ faults' = [faults EXCEPT !.crash = @ + 1]
           \/ faults' = [faults EXCEPT !.uncaught = @ + 1]
    PROVE  Losses' = Losses + 1
<1>1. MaxTransient \in Nat /\ MaxCrashes \in Nat /\ MaxUncaught \in Nat
  BY SearchRunAssumption
<1>2. faults \in [transient : 0 .. MaxTransient, crash : 0 .. MaxCrashes,
                  uncaught : 0 .. MaxUncaught]
  BY DEF TypeOK
<1> QED
  BY <1>1, <1>2 DEF Losses

(* A thread whose row is not its last word steps on. *)
LEMMA StepsOn ==
    ASSUME TypeOK, NoRowYet, rows' = rows, row' = row, faults' = faults,
           NEW a \in Actors, NEW label, pc' = pc \/ pc' = [pc EXCEPT ![a] = label],
           label \in {"idle", "locked", "release"} => row[a] = 0
    PROVE  NoneLost
  BY DEF TypeOK, NoRowYet, NoneLost, Abandoned

(* It inserts one. *)
LEMMA Adds ==
    ASSUME TypeOK, NoRowYet, NEW a \in Actors, pc[a] \in {"idle", "locked"},
           rows' = Append(rows, "running"), row' = [row EXCEPT ![a] = Len(rows) + 1],
           faults' = faults,
           NEW label, pc' = [pc EXCEPT ![a] = label], label \notin {"idle", "locked", "release"}
    PROVE  NoneLost
<1> DEFINE S == {"running", "ok", "error"}
<1>1. rows \in Seq(S) /\ "running" \in S
  BY DEF TypeOK
<1> HIDE DEF S
<1>2. /\ Len(rows') = Len(rows) + 1 /\ Len(rows) \in Nat
      /\ \A i \in 1 .. Len(rows) : rows'[i] = rows[i]
  BY <1>1, AppendProperties
<1>3. row[a] = 0
  BY DEF NoRowYet
<1> QED
  BY <1>2, <1>3 DEF TypeOK, NoRowYet, NoneLost, Abandoned

(* It gives its row the final status. *)
LEMMA Finishes ==
    ASSUME TypeOK, OwnRow, NoRowYet, NEW a \in Actors, NEW outcome \in {"ok", "error"},
           Finalise(a, outcome), pc[a] # "release", faults' = faults,
           NEW label, pc' = [pc EXCEPT ![a] = label],
           (row' = row /\ label = "release") \/ row' = [row EXCEPT ![a] = 0]
    PROVE  NoneLost
<1>1. NoRowYet'
  BY DEF TypeOK, NoRowYet
<1>2. CASE row[a] = 0
  BY <1>1, <1>2 DEF Finalise, TypeOK, NoneLost, Abandoned
<1>3. CASE row[a] # 0
  <2> DEFINE S == {"running", "ok", "error"}
  <2>1. rows \in Seq(S) /\ outcome \in S
    BY DEF TypeOK
  <2>2. row[a] \in 1 .. Len(rows)
    BY <1>3 DEF OwnRow
  <2> HIDE DEF S
  <2>3. /\ Len(rows') = Len(rows)
        /\ rows'[row[a]] = outcome
        /\ \A i \in 1 .. Len(rows) : i # row[a] => rows'[i] = rows[i]
    BY <1>3, <2>1, <2>2, ExceptSeq DEF Finalise
  <2> QED
    BY <1>1, <1>3, <2>2, <2>3 DEF TypeOK, NoneLost, Abandoned
<1> QED
  BY <1>2, <1>3

(* Its row is lost: to a fault. *)
LEMMA Loses ==
    ASSUME TypeOK, NoRowYet, NEW a \in Actors, rows' = rows, Losses' = Losses + 1,
           NEW label, pc' = [pc EXCEPT ![a] = label],
           \/ row' = [row EXCEPT ![a] = 0]
           \/ row' = row /\ (label \in {"idle", "locked"} => row[a] = 0)
    PROVE  OneLost
<1>1. NoRowYet'
  BY DEF TypeOK, NoRowYet
<1>2. Abandoned' \subseteq Abandoned \cup {row[a]}
  BY DEF TypeOK, Abandoned
<1> QED
  BY <1>1, <1>2 DEF OneLost

(* A step abandons no row, or one row, and then it is a fault.             *)
LEMMA LossStep ==
    ASSUME TypeOK, Labels, OwnRow, NoRowYet, [Next]_vars
    PROVE  NoneLost \/ OneLost
<1>0. /\ Runners \cap Pulls = {} /\ pc \in [Actors -> RunLabels \cup PullLabels]
      /\ MaxTransient \in Nat /\ MaxCrashes \in Nat /\ MaxUncaught \in Nat
  BY SearchRunAssumption DEF TypeOK
<1> USE <1>0 DEF Actors, Goto
<1>1. ASSUME NEW r \in Runners, StartRun(r) PROVE NoneLost
  BY <1>1, Adds DEF StartRun, ghosts, memory, files
<1>2. ASSUME NEW r \in Runners, FinishRun(r) \/ HandleError(r) PROVE NoneLost
  BY <1>2, Finishes DEF FinishRun, HandleError
<1>3. ASSUME NEW r \in Runners, ReleaseLock(r) PROVE NoneLost
  BY <1>3 DEF ReleaseLock, TypeOK, NoRowYet, NoneLost, Abandoned
<1>4. ASSUME NEW r \in Runners,
             TakeLock(r) \/ RunStep(r) \/ RunRaises(r) \/ SaveFails(r),
             ~StartRun(r), ~FinishRun(r), ~HandleError(r), ~ReleaseLock(r)
      PROVE  NoneLost
  <2>1. rows' = rows /\ row' = row /\ faults' = faults
    BY <1>4 DEF TakeLock, RunStep, NothingToDo, LoadFiles, SkipProvider, CallProvider,
                ProviderAnswers, LoopEnds, SaveCooldowns, SaveDailyRuns, IngestResults,
                RunRaises, SaveFails
  <2>2. \/ pc' = pc
        \/ \E label \in {"load", "provider", "searching", "cool1", "cool2", "runs1", "runs2",
                         "ingest", "finish", "handler"} : pc' = [pc EXCEPT ![r] = label]
        \/ pc[r] \in {"idle", "locked"} /\ \E label : pc' = [pc EXCEPT ![r] = label]
    BY <1>4 DEF TakeLock, RunStep, NothingToDo, LoadFiles, SkipProvider, CallProvider,
                ProviderAnswers, LoopEnds, SaveCooldowns, SaveDailyRuns, IngestResults,
                RunRaises, SaveFails
  <2>3. pc[r] \in {"idle", "locked"} => row[r] = 0
    BY DEF NoRowYet
  <2> QED
    BY <2>1, <2>2, <2>3, StepsOn
<1>5. ASSUME NEW u \in Pulls, StartPull(u) PROVE NoneLost
  BY <1>5, Adds DEF StartPull
<1>6. ASSUME NEW u \in Pulls, FinishPull(u) PROVE NoneLost
  BY <1>6, Finishes DEF FinishPull, EndPull
<1>7. ASSUME NEW u \in Pulls, PullStep(u) \/ PullRaises(u), ~FinishPull(u)
      PROVE  NoneLost
  <2>1. rows' = rows /\ row' = row /\ faults' = faults
    BY <1>7 DEF PullStep, PullEnters, PullAnswers, PullLoads, PullSaves, PullIngests, PullRaises
  <2>2. \E label \in {"pull", "pullLoad", "pullError", "pullSave1", "pullSave2", "pullIngest",
                      "pullFinish", "pullHandler"} : pc' = [pc EXCEPT ![u] = label]
    BY <1>7 DEF PullStep, PullEnters, PullAnswers, PullLoads, PullSaves, PullIngests, PullRaises
  <2> QED
    BY <2>1, <2>2, StepsOn
<1>8. ASSUME NEW a \in Actors, HandlerRaises(a) \/ PullNeverStarts(a) \/ CommitLost(a)
                                \/ Crash(a)
      PROVE  OneLost
  <2>1. rows' = rows
    BY <1>8 DEF HandlerRaises, PullNeverStarts, CommitLost, Crash
  <2>2. Losses' = Losses + 1
    <3>1. \/ faults' = [faults EXCEPT !.transient = @ + 1]
          \/ faults' = [faults EXCEPT !.crash = @ + 1]
          \/ faults' = [faults EXCEPT !.uncaught = @ + 1]
      BY <1>8, Zenon DEF HandlerRaises, PullNeverStarts, CommitLost, Crash
    <3> QED
      BY <3>1, OneLossMore, Zenon
  <2>3. \/ \E label : pc' = [pc EXCEPT ![a] = label] /\ row' = [row EXCEPT ![a] = 0]
        \/ \E label \in {"release", "load", "pullThread"} :
              pc' = [pc EXCEPT ![a] = label] /\ row' = row
    BY <1>8 DEF HandlerRaises, PullNeverStarts, CommitLost, Crash, EndPull
  <2>4. OneLost
    <3>1. CASE \E label : pc' = [pc EXCEPT ![a] = label] /\ row' = [row EXCEPT ![a] = 0]
      BY <2>1, <2>2, <3>1, Loses
    <3>2. CASE \E label \in {"release", "load", "pullThread"} :
                 pc' = [pc EXCEPT ![a] = label] /\ row' = row
      BY <2>1, <2>2, <3>2, Loses
    <3> QED
      BY <2>3, <3>1, <3>2
  <2> QED
    BY <2>4
<1>9. CASE Tick \/ UNCHANGED vars
  BY <1>9 DEF Tick, vars, NoRowYet, NoneLost, Abandoned
<1> QED
  BY <1>1, <1>2, <1>3, <1>4, <1>5, <1>6, <1>7, <1>8, <1>9 DEF Next, Fault

(* Some of the rows are finitely many of them. *)
LEMMA AbandonedFinite ==
    ASSUME TypeOK
    PROVE  /\ IsFiniteSet(Abandoned) /\ Cardinality(Abandoned) \in Nat
           /\ Stranded \subseteq Abandoned
<1>1. Len(rows) \in Nat
  BY DEF TypeOK
<1>2. IsFiniteSet(1 .. Len(rows))
  BY <1>1, FS_Interval
<1>3. IsFiniteSet(Abandoned)
  BY <1>2, FS_Subset DEF Abandoned
<1>4. Stranded \subseteq Abandoned
  BY DEF Stranded, Abandoned
<1> QED
  BY <1>3, <1>4, FS_CardinalityType

(* Rows stay "running" only through the faults that NoRunStranded counts,  *)
(* whatever exceptions the runs and pulls meet.                            *)
THEOREM RowsAreFinished == Spec => []NoRunStranded
<1> DEFINE IInv == NoRowYet /\ Accounted
<1>1. Init => IInv
  <2> SUFFICES ASSUME Init PROVE IInv
    OBVIOUS
  <2>1. NoRowYet
    BY DEF Init, NoRowYet
  <2>2. Abandoned = {}
    BY DEF Init, Abandoned
  <2>3. Losses = 0
    BY DEF Init, Losses
  <2> QED
    BY <2>1, <2>2, <2>3, FS_EmptySet DEF Accounted
<1>2. TypeOK /\ TypeOK' /\ Labels /\ OwnRow /\ IInv /\ [Next]_vars => IInv'
  <2> SUFFICES ASSUME TypeOK, TypeOK', Labels, OwnRow, IInv, [Next]_vars PROVE IInv'
    OBVIOUS
  <2>1. /\ IsFiniteSet(Abandoned) /\ Cardinality(Abandoned) \in Nat
        /\ IsFiniteSet(Abandoned') /\ Cardinality(Abandoned') \in Nat
    <3>1. IsFiniteSet(Abandoned) /\ Cardinality(Abandoned) \in Nat
      BY AbandonedFinite
    <3>2. IsFiniteSet(1 .. Len(rows'))
      <4>1. Len(rows') \in Nat
        BY DEF TypeOK
      <4> QED
        BY <4>1, FS_Interval
    <3>3. Abandoned' \subseteq 1 .. Len(rows')
      BY DEF Abandoned
    <3>4. IsFiniteSet(Abandoned')
      BY <3>2, <3>3, FS_Subset
    <3> QED
      BY <3>1, <3>4, FS_CardinalityType
  <2>2. Losses \in Nat
    <3>1. MaxTransient \in Nat /\ MaxCrashes \in Nat /\ MaxUncaught \in Nat
      BY SearchRunAssumption
    <3> QED
      BY <3>1, SMTT(30) DEF TypeOK, Losses
  <2>3. CASE NoneLost
    <3>1. Cardinality(Abandoned') <= Cardinality(Abandoned)
      BY <2>1, <2>3, FS_Subset DEF NoneLost
    <3>2. Losses' = Losses
      BY <2>3 DEF NoneLost, Losses
    <3> QED
      BY <2>1, <2>2, <2>3, <3>1, <3>2 DEF NoneLost, Accounted
  <2>4. CASE OneLost
    <3>1. PICK a \in Actors : Abandoned' \subseteq Abandoned \cup {row[a]}
      BY <2>4 DEF OneLost
    <3>2. /\ IsFiniteSet(Abandoned \cup {row[a]})
          /\ Cardinality(Abandoned \cup {row[a]}) <= Cardinality(Abandoned) + 1
      <4> DEFINE n == Cardinality(Abandoned \cup {row[a]})
      <4>1. /\ IsFiniteSet(Abandoned \cup {row[a]})
            /\ n = IF row[a] \in Abandoned THEN Cardinality(Abandoned)
                   ELSE Cardinality(Abandoned) + 1
        BY <2>1, FS_AddElement
      <4> HIDE DEF n
      <4>2. n <= Cardinality(Abandoned) + 1
        BY <2>1, <4>1
      <4> QED
        BY <4>1, <4>2 DEF n
    <3>3. Cardinality(Abandoned') <= Cardinality(Abandoned \cup {row[a]})
      BY <3>1, <3>2, FS_Subset
    <3>4. Cardinality(Abandoned \cup {row[a]}) \in Nat
      BY <3>2, FS_CardinalityType
    <3> QED
      BY <2>1, <2>2, <2>4, <3>2, <3>3, <3>4 DEF OneLost, Accounted
  <2> QED
    BY <2>3, <2>4, LossStep
<1>3. TypeOK /\ IInv => NoRunStranded
  <2> SUFFICES ASSUME TypeOK, IInv PROVE NoRunStranded
    OBVIOUS
  <2>1. Cardinality(Stranded) <= Cardinality(Abandoned) /\ Cardinality(Stranded) \in Nat
    BY AbandonedFinite, FS_Subset, FS_CardinalityType
  <2>2. Losses \in Nat
    <3>1. MaxTransient \in Nat /\ MaxCrashes \in Nat /\ MaxUncaught \in Nat
      BY SearchRunAssumption
    <3> QED
      BY <3>1 DEF TypeOK, Losses
  <2>3. Cardinality(Abandoned) \in Nat
    BY AbandonedFinite
  <2>4. Cardinality(Stranded) <= Losses
    BY <2>1, <2>2, <2>3 DEF Accounted
  <2> QED
    BY <2>4 DEF NoRunStranded, Losses
<1> QED
  BY <1>1, <1>2, <1>3, TypeCorrect, RowsAreOwn, PTL DEF Spec

-----------------------------------------------------------------------------
(* Where a run holds the counts it loaded, and has not saved yet. *)
Counting == {"provider", "searching", "cool1", "cool2", "runs1", "runs2"}

Searches(r, p) == pc[r] = "searching" /\ Enabled[idx[r]] = p
Holds(r, p) == pc[r] \in Counting /\ (dirty[r].runs \/ Searches(r, p))

Days == 0 .. (MaxTime \div DayLength)
UsedToday(p) == IF Today \in Days THEN used[p][Today] ELSE 0

(* The calls of today are in the counts of the run in progress, but for    *)
(* the one it is making, and, when it has nothing to save, in the file.    *)
Counted(p) ==
    /\ \A r \in Runners : pc[r] \in Counting =>
          UsedToday(p) <= RunsToday(runs[r], p) + (IF Searches(r, p) THEN 1 ELSE 0)
    /\ (\A r \in Runners : ~Holds(r, p)) => UsedToday(p) <= RunsToday(runsFile.map, p)

WithinLimit(p) ==
    /\ \A d \in Days : used[p][d] <= MaxRunsPerDay[p]
    /\ \A d \in Days : d > Today => used[p][d] = 0

LimitInv ==
    /\ used \in [Providers -> [Days -> Nat]]
    /\ ~runsFile.whole => \E r \in Runners : pc[r] = "runs2"
    /\ \A r \in Runners : pc[r] \in {"runs1", "runs2"} => dirty[r].runs
    /\ \A p \in Providers : MaxRunsPerDay[p] > 0 => WithinLimit(p) /\ Counted(p)

(* The runs counted today are a number.                                    *)
LEMMA CountsAreNat ==
    ASSUME TypeOK, NEW counts \in Counts, NEW p \in Providers
    PROVE  RunsToday(counts, p) \in Nat
  BY DEF RunsToday, Counts

(* The runs really made today are a number.                                *)
LEMMA UsedIsNat ==
    ASSUME TypeOK, LimitInv, NEW p \in Providers
    PROVE  UsedToday(p) \in Nat
  BY DEF UsedToday, LimitInv

(* A step among other places than the loop and the saving keeps LimitInv,  *)
(* and so does every step of a pull.                                       *)
LEMMA Elsewhere ==
    ASSUME TypeOK, LimitInv, now' = now, runsFile' = runsFile, runs' = runs, idx' = idx,
           dirty' = dirty, used' = used,
           \A r \in Runners : pc'[r] = pc[r] \/ (pc[r] \notin Counting /\ pc'[r] \notin Counting)
    PROVE  LimitInv'
<1>1. \A p \in Providers : WithinLimit(p) => WithinLimit(p)'
  BY DEF WithinLimit, Today
<1>2. \A p \in Providers : Counted(p) => Counted(p)'
  BY DEF Counted, Holds, Searches, Counting, UsedToday, RunsToday, Today
<1> QED
  BY <1>1, <1>2 DEF LimitInv, Counting

(* The clock ticks, perhaps to a day without calls. *)
LEMMA DayGoesOn ==
    ASSUME NEW n \in Nat, NEW k \in Nat \ {0}
    PROVE  n \div k \in Nat /\ (n + 1) \div k \in Nat /\ (n + 1) \div k >= n \div k
  OBVIOUS

(* The clock keeps the invariant of the daily limit.                       *)
LEMMA TickKeepsLimit ==
    ASSUME TypeOK, LimitInv, Tick
    PROVE  LimitInv'
<1>1. Today \in Nat /\ Today' \in Nat /\ Today' >= Today
  BY SearchRunAssumption, DayGoesOn DEF TypeOK, Tick, Today
<1>2. /\ runsFile' = runsFile /\ runs' = runs /\ idx' = idx /\ dirty' = dirty /\ used' = used
      /\ pc' = pc
  BY DEF Tick, files, memory, ghosts
<1>3. ASSUME NEW p \in Providers, MaxRunsPerDay[p] > 0 PROVE WithinLimit(p)' /\ Counted(p)'
  <2>1. WithinLimit(p) /\ Counted(p)
    BY <1>3 DEF LimitInv
  <2>2. WithinLimit(p)'
    BY <1>1, <1>2, <2>1 DEF WithinLimit, Days
  <2>3. /\ \A r \in Runners : RunsToday(runs[r], p)' \in Nat
        /\ RunsToday(runsFile.map, p)' \in Nat
    BY <1>1, <1>2 DEF TypeOK, Counts, RunsToday
  <2>4. CASE Today' = Today
    BY <1>2, <2>1, <2>2, <2>4 DEF Counted, Holds, Searches, UsedToday, RunsToday
  <2>5. CASE Today' # Today
    <3>1. UsedToday(p)' = 0
      BY <1>1, <1>2, <2>1, <2>5 DEF UsedToday, WithinLimit
    <3> QED
      BY <1>2, <2>2, <2>3, <3>1 DEF Counted
  <2> QED
    BY <2>2, <2>4, <2>5
<1> QED
  BY <1>2, <1>3 DEF LimitInv

(* The run loads what the file says: the file is whole, as nobody writes it. *)
LEMMA LoadKeepsLimit ==
    ASSUME TypeOK, OneRun, LimitInv, NEW r \in Runners, LoadFiles(r)
    PROVE  LimitInv'
<1>0. /\ pc[r] = "load" /\ pc' = [pc EXCEPT ![r] = "provider"]
      /\ runs' = [runs EXCEPT ![r] = LoadDailyRuns]
      /\ dirty' = [dirty EXCEPT ![r] = [cool |-> FALSE, runs |-> FALSE]]
      /\ now' = now /\ runsFile' = runsFile /\ used' = used
  BY DEF LoadFiles, Goto, files, ghosts
<1>1. \A s \in Runners \ {r} : pc[s] = "idle"
  BY <1>0 DEF OneRun
<1>2. runsFile.whole
  BY <1>0, <1>1 DEF LimitInv
<1>3. runs'[r] = runsFile.map /\ pc'[r] = "provider" /\ \A s \in Runners \ {r} : pc'[s] = "idle"
  BY <1>0, <1>1, <1>2 DEF LoadDailyRuns, TypeOK, Actors
<1>4. ASSUME NEW p \in Providers, MaxRunsPerDay[p] > 0 PROVE WithinLimit(p)' /\ Counted(p)'
  <2>1. WithinLimit(p) /\ Counted(p)
    BY <1>4 DEF LimitInv
  <2>2. WithinLimit(p)'
    BY <1>0, <2>1 DEF WithinLimit, Today
  <2>3. UsedToday(p) <= RunsToday(runsFile.map, p)
    BY <1>0, <1>1, <2>1 DEF Counted, Holds, Counting
  <2>4. UsedToday(p)' <= RunsToday(runsFile.map, p)'
    BY <1>0, <2>3 DEF UsedToday, RunsToday, Today
  <2>5. RunsToday(runsFile.map, p)' = RunsToday(runs[r], p)'
    BY <1>0, <1>3 DEF RunsToday, Today
  <2>6. ~Searches(r, p)' /\ RunsToday(runs[r], p)' \in Nat
    <3>1. RunsToday(runsFile.map, p) \in Nat
      BY CountsAreNat DEF TypeOK
    <3> QED
      BY <1>0, <1>3, <2>5, <3>1 DEF Searches, RunsToday, Today
  <2> QED
    BY <1>3, <2>2, <2>4, <2>5, <2>6 DEF Counted, Counting
<1> QED
  BY <1>0, <1>2, <1>3, <1>4 DEF LimitInv

(* A function with one value increased is one still.                       *)
LEMMA OneUp ==
    ASSUME NEW S, NEW g \in [S -> Nat], NEW x
    PROVE  [g EXCEPT ![x] = @ + 1] \in [S -> Nat]
<1>1. CASE x \in S
  BY <1>1
<1>2. CASE x \notin S
  BY <1>2
<1> QED
  BY <1>1, <1>2

(* A call is one more, below the limit. *)
LEMMA CallKeepsLimit ==
    ASSUME TypeOK, OneRun, LimitInv, NEW r \in Runners, CallProvider(r)
    PROVE  LimitInv'
<1> DEFINE q == Enabled[idx[r]]
<1>0. /\ pc[r] = "provider" /\ pc' = [pc EXCEPT ![r] = "searching"]
      /\ idx[r] <= Len(Enabled) /\ ~LimitReached(r, q)
      /\ used' = [used EXCEPT ![q][Today] = @ + 1]
      /\ now' = now /\ runsFile' = runsFile /\ runs' = runs /\ dirty' = dirty /\ idx' = idx
  BY DEF CallProvider, Goto, Skips, files, memory
<1>1. \A s \in Runners \ {r} : pc[s] = "idle"
  BY <1>0 DEF OneRun
<1>2. pc'[r] = "searching" /\ \A s \in Runners \ {r} : pc'[s] = "idle"
  BY <1>0, <1>1 DEF TypeOK, Actors
<1>3. q \in Providers
  BY <1>0, SearchRunAssumption DEF TypeOK
<1> HIDE DEF q
<1>4. used' \in [Providers -> [Days -> Nat]]
  <2>1. used \in [Providers -> [Days -> Nat]]
    BY DEF LimitInv
  <2>2. [used[q] EXCEPT ![Today] = @ + 1] \in [Days -> Nat]
    BY <1>3, <2>1, OneUp
  <2>3. used' = [used EXCEPT ![q] = [used[q] EXCEPT ![Today] = @ + 1]]
    BY <1>0
  <2> QED
    BY <2>1, <2>2, <2>3
<1>5. Today \in Nat /\ Today' = Today
  BY <1>0, TodayNat DEF Today
<1>6. ASSUME NEW p \in Providers, MaxRunsPerDay[p] > 0 PROVE WithinLimit(p)' /\ Counted(p)'
  <2>1. WithinLimit(p) /\ Counted(p) /\ UsedToday(p) \in Nat /\ RunsToday(runs[r], p) \in Nat
    BY <1>6, UsedIsNat, CountsAreNat DEF LimitInv, TypeOK
  <2>2. UsedToday(p) <= RunsToday(runs[r], p)
    BY <1>0, <2>1 DEF Counted, Counting, Searches
  <2>3. CASE p # q
    <3>1. used'[p] = used[p]
      BY <1>0, <2>3 DEF LimitInv
    <3>2. Searches(r, p)' <=> FALSE
      BY <1>0, <2>3 DEF Searches, q
    <3>3. UsedToday(p)' = UsedToday(p)
      BY <1>5, <3>1 DEF UsedToday
    <3>4. /\ RunsToday(runs[r], p)' = RunsToday(runs[r], p)
          /\ RunsToday(runsFile.map, p)' = RunsToday(runsFile.map, p)
      BY <1>0, <1>5 DEF RunsToday
    <3>5. (\A s \in Runners : ~Holds(s, p)') => \A s \in Runners : ~Holds(s, p)
      BY <1>0, <1>1, <1>2 DEF Holds, Counting, Searches
    <3>6. Counted(p)'
      BY <1>2, <2>1, <2>2, <3>2, <3>3, <3>4, <3>5 DEF Counted, Counting
    <3> QED
      BY <1>5, <2>1, <3>1, <3>6 DEF WithinLimit
  <2>4. CASE p = q
    <3>1. MaxRunsPerDay[p] \in Nat /\ RunsToday(runs[r], p) < MaxRunsPerDay[p]
      BY <1>0, <1>6, <2>1, <2>4, SearchRunAssumption DEF LimitReached
    <3>2. used'[p] = [used[p] EXCEPT ![Today] = @ + 1]
      BY <1>0, <2>4 DEF LimitInv
    <3>3. UsedToday(p)' <= UsedToday(p) + 1
      BY <1>5, <2>1, <3>2 DEF UsedToday, LimitInv
    <3>4. WithinLimit(p)'
      <4>1. \A d \in Days : d # Today => used'[p][d] = used[p][d]
        BY <3>2 DEF LimitInv
      <4>2. Today \in Days => used'[p][Today] = UsedToday(p) + 1
        BY <3>2 DEF LimitInv, UsedToday
      <4> QED
        BY <1>5, <2>1, <2>2, <3>1, <4>1, <4>2 DEF WithinLimit
    <3>5. Searches(r, p)'
      BY <1>0, <1>2, <2>4 DEF Searches, q
    <3>6. RunsToday(runs[r], p)' = RunsToday(runs[r], p)
      BY <1>0, <1>5 DEF RunsToday
    <3>7. UsedToday(p)' \in Nat
      BY <1>4 DEF UsedToday
    <3> QED
      BY <1>2, <2>1, <2>2, <3>3, <3>4, <3>5, <3>6, <3>7 DEF Counted, Holds, Counting
  <2> QED
    BY <2>3, <2>4
<1> QED
  BY <1>0, <1>2, <1>4, <1>6 DEF LimitInv

(* The answer is counted by a limited provider, and marks the counts. *)
LEMMA AnswerKeepsLimit ==
    ASSUME TypeOK, Labels, OneRun, LimitInv, NEW r \in Runners, NEW outcome \in Outcomes,
           ProviderAnswers(r, outcome)
    PROVE  LimitInv'
<1> DEFINE q == Enabled[idx[r]]
<1>0. /\ pc[r] = "searching" /\ pc' = [pc EXCEPT ![r] = "provider"]
      /\ runs' = IF MaxRunsPerDay[q] > 0
                 THEN [runs EXCEPT ![r] = IncrementRuns(@, q)] ELSE runs
      /\ dirty' = [dirty EXCEPT ![r] = [cool |-> @.cool \/ outcome = "503",
                                        runs |-> @.runs \/ MaxRunsPerDay[q] > 0]]
      /\ now' = now /\ runsFile' = runsFile /\ used' = used
  BY DEF ProviderAnswers, Goto, files
<1>1. \A s \in Runners \ {r} : pc[s] = "idle"
  BY <1>0 DEF OneRun
<1>2. pc'[r] = "provider" /\ \A s \in Runners \ {r} : pc'[s] = "idle"
  BY <1>0, <1>1 DEF TypeOK, Actors
<1>3. q \in Providers
  BY <1>0, SearchRunAssumption DEF TypeOK, Labels
<1>4. dirty'[r].runs <=> dirty[r].runs \/ MaxRunsPerDay[q] > 0
  <2> DEFINE x == dirty[r].cool \/ outcome = "503"
             y == dirty[r].runs \/ MaxRunsPerDay[q] > 0
  <2>1. dirty'[r] = [cool |-> x, runs |-> y]
    BY <1>0 DEF TypeOK
  <2> HIDE DEF x, y
  <2>2. dirty'[r].runs = y
    BY <2>1
  <2> QED
    BY <2>2, Zenon DEF y
<1>5. \A p \in Providers : Searches(r, p) <=> p = q
  BY <1>0 DEF Searches
<1>6. runs'[r] = IF MaxRunsPerDay[q] > 0 THEN IncrementRuns(runs[r], q) ELSE runs[r]
  BY <1>0 DEF TypeOK
<1> HIDE DEF q
<1>7. Today' = Today
  BY <1>0 DEF Today
<1>8. ASSUME NEW p \in Providers, MaxRunsPerDay[p] > 0 PROVE WithinLimit(p)' /\ Counted(p)'
  <2>1. WithinLimit(p) /\ Counted(p) /\ UsedToday(p) \in Nat
    BY <1>8, UsedIsNat DEF LimitInv
  <2>2. WithinLimit(p)'
    BY <1>0, <1>7, <2>1 DEF WithinLimit
  <2>3. UsedToday(p)' = UsedToday(p)
    BY <1>0, <1>7 DEF UsedToday
  <2>4. UsedToday(p) <= RunsToday(runs[r], p) + (IF p = q THEN 1 ELSE 0)
    BY <1>0, <1>5, <2>1 DEF Counted, Counting
  <2>5. /\ RunsToday(runs[r], p)' \in Nat
        /\ RunsToday(runs[r], p) + (IF p = q THEN 1 ELSE 0) <= RunsToday(runs[r], p)'
    <3>1. runs[r] \in Counts /\ RunsToday(runs[r], p) \in Nat /\ RunsToday(runs[r], q) \in Nat
      BY <1>3, CountsAreNat DEF TypeOK
    <3>2. CASE p = q
      <4>1. runs'[r][p] = [date |-> Today, count |-> RunsToday(runs[r], q) + 1]
        BY <1>6, <1>8, <3>1, <3>2 DEF IncrementRuns, Counts
      <4>2. RunsToday(runs[r], p)' = RunsToday(runs[r], p) + 1
        BY <1>7, <3>2, <4>1 DEF RunsToday
      <4> QED
        BY <3>1, <3>2, <4>2
    <3>3. CASE p # q
      <4>1. runs'[r][p] = runs[r][p]
        BY <1>6, <3>1, <3>3 DEF IncrementRuns, Counts
      <4>2. RunsToday(runs[r], p)' = RunsToday(runs[r], p)
        BY <1>7, <4>1 DEF RunsToday
      <4> QED
        BY <3>1, <3>3, <4>2
    <3> QED
      BY <3>2, <3>3
  <2>6. UsedToday(p)' <= RunsToday(runs[r], p)'
    <3>1. RunsToday(runs[r], p) \in Nat
      BY CountsAreNat DEF TypeOK
    <3> HIDE DEF q
    <3> QED
      BY <2>1, <2>3, <2>4, <2>5, <3>1
  <2>7. ~Searches(r, p)'
    BY <1>2 DEF Searches
  <2>8. RunsToday(runsFile.map, p)' = RunsToday(runsFile.map, p)
    BY <1>0, <1>7 DEF RunsToday
  <2>9. (\A s \in Runners : ~Holds(s, p)') => \A s \in Runners : ~Holds(s, p)
    <3> SUFFICES ASSUME \A s \in Runners : ~Holds(s, p)' PROVE ~Holds(r, p)
      BY <1>1 DEF Holds, Counting
    <3>1. ~dirty'[r].runs
      BY <1>2 DEF Holds, Counting
    <3> QED
      BY <1>4, <1>5, <1>8, <3>1 DEF Holds
  <2>10. Counted(p)'
    <3>1. \A s \in Runners : pc'[s] \in Counting => s = r
      BY <1>2 DEF Counting
    <3> QED
      BY <2>1, <2>3, <2>5, <2>6, <2>7, <2>8, <2>9, <3>1 DEF Counted
  <2> QED
    BY <2>2, <2>10
<1> QED
  <2>1. used' \in [Providers -> [Days -> Nat]]
    BY <1>0 DEF LimitInv
  <2>2. ~runsFile'.whole => \E s \in Runners : pc'[s] = "runs2"
    BY <1>0, <1>1 DEF LimitInv
  <2>3. \A s \in Runners : pc'[s] \in {"runs1", "runs2"} => dirty'[s].runs
    BY <1>2
  <2> QED
    BY <1>8, <2>1, <2>2, <2>3 DEF LimitInv

(* The loop ends, or a file is saved, by the one run there is.             *)
LEMMA SavingKeepsLimit ==
    ASSUME TypeOK, OneRun, LimitInv, NEW r \in Runners,
           SkipProvider(r) \/ LoopEnds(r) \/ SaveCooldowns(r) \/ SaveDailyRuns(r)
    PROVE  LimitInv'
<1>0. /\ pc[r] \in {"provider", "cool1", "cool2", "runs1", "runs2"}
      /\ runs' = runs /\ dirty' = dirty /\ now' = now /\ used' = used
  BY DEF SkipProvider, LoopEnds, SaveCooldowns, SaveDailyRuns, files, memory, ghosts
<1>1. /\ \A s \in Runners \ {r} : pc[s] = "idle" /\ pc'[s] = "idle"
      /\ pc'[r] \in (Counting \ {"searching"}) \cup {"ingest"}
      /\ pc'[r] \in {"runs1", "runs2"} => dirty[r].runs
  <2>1. \A s \in Runners \ {r} : pc[s] = "idle"
    BY <1>0 DEF OneRun
  <2>2. pc \in [Actors -> RunLabels \cup PullLabels] /\ r \in Actors
    BY DEF TypeOK, Actors
  <2> QED
    BY <1>0, <2>1, <2>2
    DEF SkipProvider, LoopEnds, SaveCooldowns, SaveDailyRuns, Goto, Counting, LimitInv, Actors
<1>2. \/ runsFile' = runsFile /\ pc[r] # "runs2"
         /\ (pc'[r] = "ingest" => ~dirty[r].runs)
      \/ /\ runsFile' = [runsFile EXCEPT !.whole = FALSE]
         /\ pc[r] = "runs1" /\ pc'[r] = "runs2"
      \/ /\ runsFile' = [whole |-> TRUE, map |-> runs[r]]
         /\ pc[r] = "runs2" /\ pc'[r] = "ingest"
  BY <1>0 DEF SkipProvider, LoopEnds, SaveCooldowns, SaveDailyRuns, Goto, files, TypeOK, Actors
<1>3. Today' = Today
  BY <1>0 DEF Today
<1>4. ASSUME NEW p \in Providers, MaxRunsPerDay[p] > 0 PROVE WithinLimit(p)' /\ Counted(p)'
  <2>1. WithinLimit(p) /\ Counted(p) /\ UsedToday(p) \in Nat /\ RunsToday(runs[r], p) \in Nat
    BY <1>4, UsedIsNat, CountsAreNat DEF LimitInv, TypeOK
  <2>2. WithinLimit(p)'
    BY <1>0, <1>3, <2>1 DEF WithinLimit
  <2>3. /\ UsedToday(p)' = UsedToday(p)
        /\ RunsToday(runs[r], p)' = RunsToday(runs[r], p)
    BY <1>0, <1>3 DEF UsedToday, RunsToday
  <2>4. UsedToday(p) <= RunsToday(runs[r], p)
    BY <1>0, <2>1 DEF Counted, Counting, Searches
  <2>5. ~Searches(r, p)'
    BY <1>1 DEF Searches, Counting
  <2>6. ~dirty[r].runs => UsedToday(p) <= RunsToday(runsFile.map, p)
    BY <1>0, <1>1, <2>1 DEF Counted, Holds, Counting, Searches
  <2>7. (\A s \in Runners : ~Holds(s, p)') =>
           UsedToday(p)' <= RunsToday(runsFile.map, p)'
    <3> SUFFICES ASSUME \A s \in Runners : ~Holds(s, p)'
                 PROVE  UsedToday(p)' <= RunsToday(runsFile.map, p)'
      OBVIOUS
    <3>1. pc'[r] = "ingest" \/ ~dirty[r].runs
      BY <1>0, <1>1 DEF Holds
    <3>2. CASE runsFile' = runsFile /\ (pc'[r] = "ingest" => ~dirty[r].runs)
      BY <1>3, <2>3, <2>6, <3>1, <3>2 DEF RunsToday
    <3>3. CASE /\ runsFile' = [runsFile EXCEPT !.whole = FALSE]
               /\ pc[r] = "runs1" /\ pc'[r] = "runs2"
      BY <1>1, <3>1, <3>3
    <3>4. CASE runsFile' = [whole |-> TRUE, map |-> runs[r]]
      <4>1. runsFile'.map = runs[r]
        BY <3>4
      <4> QED
        BY <1>3, <2>3, <2>4, <4>1 DEF RunsToday
    <3> QED
      BY <1>2, <3>2, <3>3, <3>4
  <2>8. Counted(p)'
    <3>1. \A s \in Runners : pc'[s] \in Counting => s = r
      BY <1>1 DEF Counting
    <3> QED
      BY <2>1, <2>3, <2>4, <2>5, <2>7, <3>1 DEF Counted
  <2> QED
    BY <2>2, <2>8
<1> QED
  <2>1. used' \in [Providers -> [Days -> Nat]]
    BY <1>0 DEF LimitInv
  <2>2. ~runsFile'.whole => \E s \in Runners : pc'[s] = "runs2"
    BY <1>1, <1>2 DEF LimitInv
  <2>3. \A s \in Runners : pc'[s] \in {"runs1", "runs2"} => dirty'[s].runs
    BY <1>0, <1>1
  <2> QED
    BY <1>4, <2>1, <2>2, <2>3 DEF LimitInv

(* Without exceptions inside the runs, which lose the counts in memory,    *)
(* and without crashes, no provider is called more often than its limit:   *)
(* whatever the schedule, at midnight too, and whatever the pulls and the  *)
(* transient errors do.                                                    *)
THEOREM LimitsAreKept ==
    ASSUME ~Raises, MaxCrashes = 0
    PROVE  Spec => []DailyLimit
<1>1. Init => LimitInv
  <2> SUFFICES ASSUME Init PROVE LimitInv
    OBVIOUS
  <2>1. used = [p \in Providers |-> [d \in Days |-> 0]]
    BY DEF Init, Days
  <2>2. /\ runsFile = [whole |-> TRUE, map |-> NoRuns]
        /\ \A r \in Runners : pc[r] = "idle"
    BY DEF Init, Actors
  <2>3. Today \in Nat
    BY SearchRunAssumption DEF Init, Today
  <2>4. ASSUME NEW p \in Providers, MaxRunsPerDay[p] > 0 PROVE WithinLimit(p) /\ Counted(p)
    <3>1. UsedToday(p) = 0
      BY <2>1 DEF UsedToday
    <3>2. RunsToday(runsFile.map, p) = 0
      BY <2>2 DEF RunsToday, NoRuns
    <3>3. MaxRunsPerDay[p] \in Nat
      BY SearchRunAssumption
    <3> QED
      BY <2>1, <2>2, <2>4, <3>1, <3>2, <3>3 DEF WithinLimit, Counted, Counting
  <2>5. used \in [Providers -> [Days -> Nat]]
    BY <2>1
  <2> QED
    BY <2>2, <2>4, <2>5 DEF LimitInv
<1>2. TypeOK /\ Labels /\ OneRun /\ LimitInv /\ [Next]_vars => LimitInv'
  <2> SUFFICES ASSUME TypeOK, Labels, OneRun, LimitInv, [Next]_vars PROVE LimitInv'
    OBVIOUS
  <2>0. Runners \cap Pulls = {} /\ pc \in [Actors -> RunLabels \cup PullLabels]
    BY SearchRunAssumption DEF TypeOK
  <2> USE <2>0 DEF Actors, Goto
  <2>1. ASSUME NEW r \in Runners, TakeLock(r) \/ RunStep(r) PROVE LimitInv'
    <3>1. ASSUME \/ TakeLock(r) \/ NothingToDo(r) \/ StartRun(r) \/ IngestResults(r)
                 \/ FinishRun(r) \/ HandleError(r) \/ ReleaseLock(r)
          PROVE  LimitInv'
      BY <3>1, Elsewhere
      DEF TakeLock, NothingToDo, StartRun, IngestResults, FinishRun, HandleError, ReleaseLock,
          files, memory, ghosts, Counting
    <3> QED
      BY <2>1, <3>1, LoadKeepsLimit, CallKeepsLimit, AnswerKeepsLimit, SavingKeepsLimit
      DEF RunStep
  <2>2. ASSUME NEW u \in Pulls, StartPull(u) \/ PullStep(u) PROVE LimitInv'
    BY <2>2, Elsewhere
    DEF StartPull, PullStep, PullEnters, PullAnswers, PullLoads, PullSaves, PullIngests,
        FinishPull, EndPull,
        files, memory, ghosts
  <2>3. ASSUME NEW a \in Actors,
             HandlerRaises(a) \/ PullNeverStarts(a) \/ CommitLost(a)
      PROVE  LimitInv'
    BY <2>3, Elsewhere
    DEF HandlerRaises, PullNeverStarts, CommitLost, EndPull, files, memory, ghosts, Counting
  <2>4. Fault => \E a \in Actors : HandlerRaises(a) \/ PullNeverStarts(a) \/ CommitLost(a)
    <3>1. ASSUME NEW a \in Actors, Crash(a) PROVE FALSE
      BY <3>1 DEF Crash, TypeOK
    <3> QED
      BY <3>1 DEF Fault, RunRaises, SaveFails, PullRaises
  <2>5. CASE UNCHANGED vars
    BY <2>5, Elsewhere DEF vars, files, memory, ghosts
  <2> QED
    BY <2>1, <2>2, <2>3, <2>4, <2>5, TickKeepsLimit DEF Next
<1>3. LimitInv => DailyLimit
  <2> SUFFICES ASSUME LimitInv, NEW p \in Providers, MaxRunsPerDay[p] > 0
               PROVE  \A d \in DOMAIN used[p] : used[p][d] <= MaxRunsPerDay[p]
    BY DEF DailyLimit
  <2>1. DOMAIN used[p] = Days /\ WithinLimit(p)
    BY DEF LimitInv
  <2> QED
    BY <2>1 DEF WithinLimit
<1> QED
  BY <1>1, <1>2, <1>3, TypeCorrect, RunsExclude, PTL DEF Spec

-----------------------------------------------------------------------------
(* Where a run holds the cooldowns it loaded, and has not saved yet. *)
Cooling == {"provider", "searching", "cool1", "cool2"}

(* The run in progress knows every cooldown, and so does the file, when    *)
(* that run has nothing to save.                                           *)
Known(p) ==
    /\ \A r \in Runners : pc[r] \in Cooling => outage[p] <= cool[r][p]
    /\ (\A r \in Runners : pc[r] \in Cooling => ~dirty[r].cool) => outage[p] <= coolFile.map[p]

CoolInv ==
    /\ outage \in Deadlines
    /\ ~coolFile.whole => \E r \in Runners : pc[r] = "cool2"
    /\ \A r \in Runners : pc[r] \in {"cool1", "cool2"} => dirty[r].cool
    /\ \A p \in Providers : Known(p)

(* A step outside the loop and the saving of the cooldowns. *)
LEMMA Apart ==
    ASSUME CoolInv, coolFile' = coolFile, cool' = cool, dirty' = dirty, outage' = outage,
           \A r \in Runners : pc'[r] = pc[r] \/ (pc[r] \notin Cooling /\ pc'[r] \notin Cooling)
    PROVE  CoolInv'
  BY DEF CoolInv, Known, Cooling

(* A run that loads its files keeps the invariant of the cooldowns.        *)
LEMMA LoadKeepsCooldowns ==
    ASSUME TypeOK, OneRun, CoolInv, NEW r \in Runners, LoadFiles(r)
    PROVE  CoolInv'
<1>0. /\ pc[r] = "load" /\ pc' = [pc EXCEPT ![r] = "provider"]
      /\ cool' = [cool EXCEPT ![r] = LoadCooldowns]
      /\ coolFile' = coolFile /\ outage' = outage
  BY DEF LoadFiles, Goto, files, ghosts
<1>1. \A s \in Runners \ {r} : pc[s] = "idle"
  BY <1>0 DEF OneRun
<1>2. coolFile.whole
  BY <1>0, <1>1 DEF CoolInv
<1>3. /\ cool'[r] = coolFile.map /\ pc'[r] = "provider"
      /\ \A s \in Runners \ {r} : pc'[s] = "idle"
  BY <1>0, <1>1, <1>2 DEF LoadCooldowns, TypeOK, Actors
<1>4. \A p \in Providers : outage[p] <= coolFile.map[p]
  BY <1>0, <1>1 DEF CoolInv, Known, Cooling
<1> QED
  BY <1>0, <1>2, <1>3, <1>4 DEF CoolInv, Known, Cooling

(* A provider's answer keeps the invariant of the cooldowns.               *)
LEMMA AnswerKeepsCooldowns ==
    ASSUME TypeOK, Labels, OneRun, CoolInv, NEW r \in Runners, NEW outcome \in Outcomes,
           ProviderAnswers(r, outcome)
    PROVE  CoolInv'
<1> DEFINE q == Enabled[idx[r]]
           until == now + CooldownTime
<1>0. /\ pc[r] = "searching" /\ pc' = [pc EXCEPT ![r] = "provider"]
      /\ cool' = IF outcome = "503" THEN [cool EXCEPT ![r][q] = until] ELSE cool
      /\ outage' = IF outcome = "503" THEN [outage EXCEPT ![q] = until] ELSE outage
      /\ dirty' = [dirty EXCEPT ![r] = [cool |-> @.cool \/ outcome = "503",
                                        runs |-> @.runs \/ MaxRunsPerDay[q] > 0]]
      /\ coolFile' = coolFile
  BY DEF ProviderAnswers, Goto, files
<1>1. \A s \in Runners \ {r} : pc[s] = "idle"
  BY <1>0 DEF OneRun
<1>2. pc'[r] = "provider" /\ \A s \in Runners \ {r} : pc'[s] = "idle"
  BY <1>0, <1>1 DEF TypeOK, Actors
<1>3. dirty'[r].cool <=> dirty[r].cool \/ outcome = "503"
  <2> DEFINE x == dirty[r].cool \/ outcome = "503"
             y == dirty[r].runs \/ MaxRunsPerDay[q] > 0
  <2>1. dirty'[r] = [cool |-> x, runs |-> y]
    BY <1>0 DEF TypeOK
  <2> HIDE DEF x, y
  <2>2. dirty'[r].cool = x
    BY <2>1
  <2> QED
    BY <2>2, Zenon DEF x
<1>4. until \in Nat /\ r \in Actors
  BY SearchRunAssumption DEF TypeOK, Actors
<1> HIDE DEF q, until
<1>5. outage' \in Deadlines
  BY <1>0, <1>4 DEF CoolInv, Deadlines
<1>6. \A p \in Providers : outage[p] <= cool[r][p]
  BY <1>0 DEF CoolInv, Known, Cooling
<1>7. \A p \in Providers : outage'[p] <= cool'[r][p]
  <2> SUFFICES ASSUME NEW p \in Providers PROVE outage'[p] <= cool'[r][p]
    OBVIOUS
  <2>1. /\ outage \in [Providers -> Nat] /\ cool[r] \in [Providers -> Nat]
        /\ cool \in [Actors -> Deadlines]
    BY <1>4 DEF CoolInv, Deadlines, TypeOK
  <2>2. CASE outcome = "503" /\ p = q
    <3>1. outage'[p] = until /\ cool'[r][p] = until
      BY <1>0, <1>4, <2>1, <2>2
    <3> QED
      BY <1>4, <3>1
  <2>3. CASE outcome # "503" \/ p # q
    <3>1. outage'[p] = outage[p] /\ cool'[r][p] = cool[r][p]
      BY <1>0, <1>4, <2>1, <2>3
    <3> QED
      BY <1>6, <3>1
  <2> QED
    BY <2>2, <2>3
<1>8. ASSUME \A s \in Runners : pc'[s] \in Cooling => ~dirty'[s].cool
      PROVE  \A p \in Providers : outage'[p] <= coolFile'.map[p]
  <2>1. ~dirty[r].cool /\ outcome # "503"
    BY <1>2, <1>3, <1>8 DEF Cooling
  <2> QED
    BY <1>0, <1>1, <2>1 DEF CoolInv, Known, Cooling
<1>9. \A p \in Providers : Known(p)'
  BY <1>2, <1>7, <1>8 DEF Known, Cooling
<1>10. ~coolFile'.whole => \E s \in Runners : pc'[s] = "cool2"
  BY <1>0, <1>1 DEF CoolInv
<1>11. \A s \in Runners : pc'[s] \in {"cool1", "cool2"} => dirty'[s].cool
  BY <1>2
<1> QED
  BY <1>5, <1>9, <1>10, <1>11 DEF CoolInv

(* A run that skips or calls a provider, or that saves, keeps the          *)
(* invariant of the cooldowns.                                             *)
LEMMA SavingKeepsCooldowns ==
    ASSUME TypeOK, OneRun, CoolInv, NEW r \in Runners,
           SkipProvider(r) \/ CallProvider(r) \/ LoopEnds(r) \/ SaveCooldowns(r)
    PROVE  CoolInv'
<1>0. /\ pc[r] \in {"provider", "cool1", "cool2"}
      /\ cool' = cool /\ dirty' = dirty /\ outage' = outage
  BY DEF SkipProvider, CallProvider, LoopEnds, SaveCooldowns, files, memory, ghosts
<1>1. /\ \A s \in Runners \ {r} : pc[s] = "idle" /\ pc'[s] = "idle"
      /\ pc'[r] \in Cooling \cup {"runs1", "ingest"}
      /\ pc'[r] \in {"cool1", "cool2"} => dirty[r].cool
  <2>1. \A s \in Runners \ {r} : pc[s] = "idle"
    BY <1>0 DEF OneRun
  <2>2. pc \in [Actors -> RunLabels \cup PullLabels] /\ r \in Actors
    BY DEF TypeOK, Actors
  <2> QED
    BY <1>0, <2>1, <2>2
    DEF SkipProvider, CallProvider, LoopEnds, SaveCooldowns, Goto, Cooling, CoolInv, Actors
<1>2. \/ coolFile' = coolFile /\ pc[r] # "cool2" /\ (pc'[r] \notin Cooling => ~dirty[r].cool)
      \/ /\ coolFile' = [coolFile EXCEPT !.whole = FALSE]
         /\ pc[r] = "cool1" /\ pc'[r] = "cool2"
      \/ /\ coolFile' = [whole |-> TRUE, map |-> cool[r]]
         /\ pc[r] = "cool2" /\ pc'[r] \notin Cooling
  BY <1>0
  DEF SkipProvider, CallProvider, LoopEnds, SaveCooldowns, Goto, files, TypeOK, Actors, Cooling
<1>3. ASSUME NEW p \in Providers PROVE Known(p)'
  <2>1. outage[p] <= cool[r][p]
    BY <1>0 DEF CoolInv, Known, Cooling
  <2>2. ~dirty[r].cool => outage[p] <= coolFile.map[p]
    BY <1>0, <1>1 DEF CoolInv, Known, Cooling
  <2>3. ASSUME \A s \in Runners : pc'[s] \in Cooling => ~dirty'[s].cool
        PROVE  outage'[p] <= coolFile'.map[p]
    <3>1. CASE coolFile' = coolFile /\ (pc'[r] \notin Cooling => ~dirty[r].cool)
      BY <1>0, <2>2, <2>3, <3>1
    <3>2. CASE coolFile' = [coolFile EXCEPT !.whole = FALSE] /\ pc'[r] = "cool2"
      BY <1>0, <1>1, <2>3, <3>2 DEF Cooling
    <3>3. CASE coolFile' = [whole |-> TRUE, map |-> cool[r]]
      BY <1>0, <2>1, <3>3
    <3> QED
      BY <1>2, <3>1, <3>2, <3>3
  <2> QED
    BY <1>0, <1>1, <2>1, <2>3 DEF Known, Cooling
<1>4. ~coolFile'.whole => \E s \in Runners : pc'[s] = "cool2"
  BY <1>1, <1>2 DEF CoolInv
<1>5. \A s \in Runners : pc'[s] \in {"cool1", "cool2"} => dirty'[s].cool
  BY <1>0, <1>1
<1> QED
  BY <1>0, <1>3, <1>4, <1>5 DEF CoolInv

(* Without pulls, exceptions inside the runs and crashes no run calls a    *)
(* provider in its cooldown, whichever run met the 503.                    *)
THEOREM CooldownsAreRespected ==
    ASSUME Pulls = {}, ~Raises, MaxCrashes = 0
    PROVE  Spec => CooldownRespected
<1>1. Init => CoolInv
  <2> SUFFICES ASSUME Init PROVE CoolInv
    OBVIOUS
  <2>1. /\ \A r \in Runners : pc[r] = "idle"
        /\ outage = NoCooldowns /\ coolFile = [whole |-> TRUE, map |-> NoCooldowns]
    BY DEF Init, Actors
  <2> QED
    BY <2>1 DEF CoolInv, Known, Cooling, NoCooldowns, Deadlines
<1>2. TypeOK /\ Labels /\ OneRun /\ CoolInv /\ [Next]_vars => CoolInv'
  <2> SUFFICES ASSUME TypeOK, Labels, OneRun, CoolInv, [Next]_vars PROVE CoolInv'
    OBVIOUS
  <2>0. pc \in [Actors -> RunLabels \cup PullLabels]
    BY DEF TypeOK
  <2> USE <2>0 DEF Actors, Goto
  <2>1. ASSUME NEW r \in Runners, TakeLock(r) \/ RunStep(r) PROVE CoolInv'
    <3>1. ASSUME \/ TakeLock(r) \/ NothingToDo(r) \/ StartRun(r) \/ IngestResults(r)
                 \/ FinishRun(r) \/ HandleError(r) \/ ReleaseLock(r)
          PROVE  CoolInv'
      BY <3>1, Apart
      DEF TakeLock, NothingToDo, StartRun, IngestResults, FinishRun, HandleError, ReleaseLock,
          files, memory, ghosts, Cooling
    <3>2. ASSUME SaveDailyRuns(r) PROVE CoolInv'
      BY <3>2, Apart DEF SaveDailyRuns, memory, ghosts, Cooling
    <3> QED
      BY <2>1, <3>1, <3>2, LoadKeepsCooldowns, AnswerKeepsCooldowns, SavingKeepsCooldowns
      DEF RunStep
  <2>2. ASSUME NEW a \in Actors,
             HandlerRaises(a) \/ PullNeverStarts(a) \/ CommitLost(a)
      PROVE  CoolInv'
    BY <2>2, Apart
    DEF HandlerRaises, PullNeverStarts, CommitLost, EndPull, files, memory, ghosts, Cooling
  <2>3. Fault => \E a \in Actors : HandlerRaises(a) \/ PullNeverStarts(a) \/ CommitLost(a)
    <3>1. ASSUME NEW a \in Actors, Crash(a) PROVE FALSE
      BY <3>1 DEF Crash, TypeOK
    <3> QED
      BY <3>1 DEF Fault, RunRaises, SaveFails, PullRaises
  <2>4. CASE Tick \/ UNCHANGED vars
    BY <2>4, Apart DEF Tick, vars, files, memory, ghosts
  <2> QED
    BY <2>1, <2>2, <2>3, <2>4 DEF Next
<1>3. TypeOK /\ CoolInv => \A r \in Runners : CallProvider(r) => now >= outage[Enabled[idx[r]]]
  <2> SUFFICES ASSUME TypeOK, CoolInv, NEW r \in Runners, CallProvider(r)
               PROVE  now >= outage[Enabled[idx[r]]]
    OBVIOUS
  <2> DEFINE q == Enabled[idx[r]]
  <2>1. q \in Providers
    BY SearchRunAssumption DEF CallProvider, TypeOK
  <2>2. ~InCooldown(cool[r], q) /\ pc[r] = "provider"
    BY DEF CallProvider, Skips
  <2> HIDE DEF q
  <2>3. outage[q] <= cool[r][q] /\ outage[q] \in Nat
    BY <2>1, <2>2 DEF CoolInv, Known, Cooling, Deadlines
  <2>4. cool[r][q] \in Nat /\ now \in Nat
    BY <2>1 DEF TypeOK, Deadlines, Actors
  <2> QED
    BY <2>2, <2>3, <2>4 DEF InCooldown, q
<1> QED
  BY <1>1, <1>2, <1>3, TypeCorrect, RunsExclude, PTL DEF Spec, CooldownRespected

-----------------------------------------------------------------------------
(* Background tasks, for every number of tasks and tabs, every number of   *)
(* log calls and any crashes: a page shows the outcome of its own task     *)
(* whatever other threads write meanwhile, and, while no two tasks         *)
(* overlap, status files are cleaned up and the level of the logger is put *)
(* back.                                                                   *)

TaskLabels == Ended \cup {"prior", "add", "set", "work", "write", "emit", "emitWrite",
                      "final", "finalWrite", "remove", "restore"}
Before == {"off", "prior", "add", "set", "work", "write", "emit", "emitWrite"}
After == {"remove", "restore", "over", "dead"}
Attached == {"set", "work", "write", "emit", "emitWrite", "final", "finalWrite", "remove"}

Outs == [to : Tasks \cup {NoTask}, what : {"none", "running"} \cup Final]

(* What a thread has serialised is for a task while it is about to write.  *)
Typed ==
    /\ TaskTypeOK
    /\ out \in [Tasks -> Outs]
    /\ \A t \in Tasks : at[t] \in Writing => out[t].to \in Tasks

USE TaskStatusAssumption

(* A task that goes on moves no other.                                     *)
LEMMA Moves ==
    ASSUME at \in [Tasks -> TaskLabels], NEW t \in Tasks, NEW label \in TaskLabels,
           Continue(t, label)
    PROVE  /\ at' \in [Tasks -> TaskLabels] /\ at'[t] = label
           /\ \A u \in Tasks : u # t => at'[u] = at[u]
  BY DEF Continue

(* A task that writes out a status writes what that status is.             *)
LEMMA Serialises ==
    ASSUME Typed, NEW t \in Tasks, NEW u \in Tasks, Serialise(t, u)
    PROVE  /\ out' \in [Tasks -> Outs] /\ out'[t] = [to |-> u, what |-> status[u]]
           /\ out'[t].to = u /\ out'[t].what = status[u]
           /\ \A w \in Tasks : w # t => out'[w] = out[w]
<1> DEFINE text == [to |-> u, what |-> status[u]]
<1>1. text \in Outs /\ text.to = u /\ text.what = status[u]
  BY DEF Typed, TaskTypeOK, Outs
<1>2. out' = [out EXCEPT ![t] = text] /\ out \in [Tasks -> Outs]
  BY DEF Typed, Serialise
<1> HIDE DEF text
<1>3. /\ out' \in [Tasks -> Outs] /\ out'[t] = text
      /\ \A w \in Tasks : w # t => out'[w] = out[w]
  BY <1>1, <1>2
<1> QED
  BY <1>1, <1>3 DEF text

(* Where a write goes if it succeeds, and where the thread goes on. *)
LEMMA Writes ==
    ASSUME Typed, NEW t \in Tasks, Flush(t)
    PROVE  /\ out[t].to \in Tasks /\ out[t].what \in {"none", "running"} \cup Final
           /\ file' \in {file, [file EXCEPT ![out[t].to] = out[t].what]}
           /\ at[t] \in Writing /\ AfterWrite(t) \in {"work", "emit", "remove"}
           /\ at' \in [Tasks -> TaskLabels] /\ at'[t] = AfterWrite(t)
           /\ \A u \in Tasks : u # t => at'[u] = at[u]
           /\ at[t] = "write" => at'[t] = "work"
           /\ at[t] = "emitWrite" => at'[t] = "emit"
           /\ at[t] = "finalWrite" => at'[t] = "remove"
           /\ out' \in [Tasks -> Outs] /\ \A u \in Tasks : u # t => out'[u] = out[u]
           /\ failed \subseteq failed' /\ failed' \subseteq failed \cup {<<t, "final">>}
           /\ UNCHANGED <<status, prior, logs, handlers, level, todo, page, reply, lost,
                          crashes, overlapped>>
<1>1. at[t] \in Writing
  BY DEF Flush, Replace, WriteFails
<1>2. out[t] \in Outs /\ out[t].to \in Tasks
  BY <1>1 DEF Typed
<1>3. /\ AfterWrite(t) \in {"work", "emit", "remove"}
      /\ at[t] = "write" => AfterWrite(t) = "work"
      /\ at[t] = "emitWrite" => AfterWrite(t) = "emit"
      /\ at[t] = "finalWrite" => AfterWrite(t) = "remove"
  <2>1. at[t] = "write" => AfterWrite(t) = "work"
    BY DEF AfterWrite
  <2>2. at[t] = "emitWrite" => AfterWrite(t) = "emit"
    BY DEF AfterWrite
  <2>3. at[t] = "finalWrite" => AfterWrite(t) = "remove"
    BY DEF AfterWrite
  <2> QED
    BY <1>1, <2>1, <2>2, <2>3 DEF Writing
<1>4. /\ at' \in [Tasks -> TaskLabels] /\ at'[t] = AfterWrite(t)
      /\ \A u \in Tasks : u # t => at'[u] = at[u]
  <2>1. at \in [Tasks -> TaskLabels] /\ AfterWrite(t) \in TaskLabels /\ Continue(t, AfterWrite(t))
    BY <1>3 DEF Flush, Replace, WriteFails, Leave, Typed, TaskTypeOK, TaskLabels
  <2> QED
    BY <2>1, Moves
<1>5. out' \in [Tasks -> Outs] /\ \A u \in Tasks : u # t => out'[u] = out[u]
  <2>1. Nothing \in Outs /\ out' = [out EXCEPT ![t] = Nothing] /\ out \in [Tasks -> Outs]
    BY DEF Flush, Replace, WriteFails, Leave, Typed, Nothing, Outs
  <2> QED
    BY <2>1
<1>6. file' \in {file, [file EXCEPT ![out[t].to] = out[t].what]}
  BY DEF Flush, Replace, WriteFails
<1>7. failed \subseteq failed' /\ failed' \subseteq failed \cup {<<t, "final">>}
  BY DEF Flush, Replace, WriteFails, Fails
<1>8. UNCHANGED <<status, prior, logs, handlers, level, todo, page, reply, lost, crashes,
                  overlapped>>
  BY DEF Flush, Replace, WriteFails, Leave, thread, logger, browser
<1> QED
  BY <1>1, <1>2, <1>3, <1>4, <1>5, <1>6, <1>7, <1>8 DEF Outs

(* What the first write leaves, whether it succeeds or not. *)
LEMMA FirstWrites ==
    ASSUME Typed, NEW t \in Tasks, FirstWrite(t)
    PROVE  /\ file' \in [Tasks -> {"none", "running"} \cup Final]
           /\ \A u \in Tasks : u # t => file'[u] = file[u]
           /\ file'[t] = "running" \/ (file'[t] = file[t] /\ <<t, "first">> \in failed')
           /\ failed \subseteq failed' /\ failed' \subseteq failed \cup {<<t, "first">>}
  BY DEF FirstWrite, Fails, Typed, TaskTypeOK

(* What an unlink leaves, whether it succeeds or not. *)
LEMMA Unlinks ==
    ASSUME Typed, NEW v \in Tabs, Unlink(v)
    PROVE  /\ file' \in [Tasks -> {"none", "running"} \cup Final]
           /\ \A t \in Tasks : file'[t] \in {"none", file[t]}
           /\ \A t \in Tasks : file'[t] # file[t] => t = TaskOf[v] /\ reply[v] \in Final
           /\ reply[v] \in Final =>
                 file'[TaskOf[v]] = "none" \/ <<TaskOf[v], "unlink">> \in failed'
           /\ failed \subseteq failed' /\ failed' \subseteq failed \cup {<<TaskOf[v], "unlink">>}
<1>1. TaskOf[v] \in Tasks
  OBVIOUS
<1>2. CASE file' = Unlinked(v) /\ UNCHANGED failed
  BY <1>1, <1>2 DEF Unlinked, Typed, TaskTypeOK
<1>3. CASE reply[v] \in Final /\ Fails(TaskOf[v], "unlink") /\ UNCHANGED file
  BY <1>1, <1>3 DEF Fails, Typed, TaskTypeOK
<1> QED
  BY <1>2, <1>3 DEF Unlink

(* What may be among the failures. *)
LEMMA FailuresTyped ==
    ASSUME TaskTypeOK, NEW t \in Tasks, NEW what \in {"first", "final", "unlink"},
           failed' \subseteq failed \cup {<<t, what>>}
    PROVE  failed' \subseteq Tasks \X {"first", "final", "unlink"}
<1>1. <<t, what>> \in Tasks \X {"first", "final", "unlink"}
  OBVIOUS
<1> QED
  BY <1>1 DEF TaskTypeOK

(* A failure that happened has happened. *)
LEMMA FailedStays == ASSUME Typed, [TaskNext]_taskVars PROVE failed \subseteq failed'
<1>1. ASSUME NEW t \in Tasks, Launch(t) \/ Flush(t) PROVE failed \subseteq failed'
  BY <1>1, Writes, FirstWrites DEF Launch
<1>2. ASSUME NEW v \in Tabs, Respond(v) \/ LoseAnswer(v) PROVE failed \subseteq failed'
  BY <1>2, Unlinks DEF Respond, LoseAnswer
<1>3. ASSUME ~ \E t \in Tasks : Launch(t) \/ Flush(t), ~ \E v \in Tabs : Respond(v) \/ LoseAnswer(v)
      PROVE  UNCHANGED failed
  BY <1>3 DEF TaskNext, Step, ReadLevel, AddHandler, ForceLevel, LogDirectly, LogRecord,
              Emit, Emitted, Finish, FlushFinal, RemoveHandler, RestoreLevel, OpenTab,
              Poll, ReadFails, ProcessDies, history, taskVars
<1> QED
  BY <1>1, <1>2, <1>3

(* The types hold at the start.                                            *)
LEMMA InitTyped == TaskInit => Typed
<1> SUFFICES ASSUME TaskInit PROVE Typed
  OBVIOUS
<1>1. TaskTypeOK
  BY DEF TaskInit, TaskTypeOK, Ended, Final
<1>2. Nothing \in Outs
  BY DEF Outs, Nothing
<1>3. out \in [Tasks -> Outs]
  BY <1>2 DEF TaskInit
<1> QED
  BY <1>1, <1>3 DEF TaskInit, Typed, Writing

(* Every step keeps the types.                                             *)
LEMMA NextTyped == ASSUME Typed, [TaskNext]_taskVars PROVE Typed'
<1> USE DEF Typed
<1> at \in [Tasks -> TaskLabels]
  BY DEF TaskTypeOK, TaskLabels
<1>1. ASSUME NEW t \in Tasks,
             \/ ReadLevel(t) \/ AddHandler(t) \/ ForceLevel(t) \/ LogRecord(t)
             \/ Emitted(t) \/ (\E outcome \in Final : Finish(t, outcome))
             \/ RemoveHandler(t) \/ RestoreLevel(t)
      PROVE  Typed'
  <2>1. \E label \in TaskLabels \ Writing : Continue(t, label)
    BY <1>1 DEF ReadLevel, AddHandler, ForceLevel, LogRecord, Emitted, Finish,
                RemoveHandler, RestoreLevel, TaskLabels, Writing, Ended
  <2>2. at' \in [Tasks -> TaskLabels] /\ \A u \in Tasks : at'[u] \in Writing => at[u] \in Writing
    BY <2>1, Moves
  <2>3. UNCHANGED out
    BY <1>1 DEF ReadLevel, AddHandler, ForceLevel, LogRecord, Emitted, Finish,
                RemoveHandler, RestoreLevel, records, thread, logger
  <2>4. TaskTypeOK'
    BY <1>1, <2>2 DEF Launch, ReadLevel, AddHandler, ForceLevel, LogRecord, Emitted, Finish,
                RemoveHandler, RestoreLevel, TaskTypeOK, TaskLabels, thread, logger, records,
                browser, history
  <2> QED
    BY <2>2, <2>3, <2>4
<1>2. ASSUME NEW t \in Tasks, NEW u \in Tasks,
             \/ Emit(t, u)
             \/ u = t /\ (LogDirectly(t) \/ FlushFinal(t))
      PROVE  Typed'
  <2>1. Serialise(t, u) /\ \E label \in Writing : Continue(t, label)
    BY <1>2 DEF Emit, LogDirectly, FlushFinal, Writing
  <2>2. at' \in [Tasks -> TaskLabels] /\ \A w \in Tasks : w # t => at'[w] = at[w]
    BY <2>1, Moves DEF Writing, TaskLabels
  <2>3. out' \in [Tasks -> Outs] /\ out'[t].to = u /\ \A w \in Tasks : w # t => out'[w] = out[w]
    BY <2>1, Serialises
  <2>4. emitting' \in [Tasks -> Tasks \cup {NoTask}] /\ todo' \in [Tasks -> SUBSET Tasks]
    BY <1>2 DEF Emit, LogDirectly, FlushFinal, TaskTypeOK, records
  <2>5. UNCHANGED <<status, file, handlers, level, prior, page, reply, failed>>
    BY <1>2 DEF Emit, LogDirectly, FlushFinal, thread, logger, browser, history
  <2>6. TaskTypeOK'
    BY <2>2, <2>4, <2>5 DEF TaskTypeOK, TaskLabels
  <2> QED
    BY <2>2, <2>3, <2>6
<1>3. ASSUME NEW t \in Tasks, Flush(t) PROVE Typed'
  <2>1. file' \in [Tasks -> {"none", "running"} \cup Final]
    BY <1>3, Writes DEF TaskTypeOK
  <2>2. at' \in [Tasks -> TaskLabels] /\ \A u \in Tasks : at'[u] \in Writing => at[u] \in Writing
    <3>1. at'[t] \notin Writing
      BY <1>3, Writes DEF Writing
    <3> QED
      BY <1>3, <3>1, Writes
  <2>3. emitting' \in [Tasks -> Tasks \cup {NoTask}]
    BY <1>3 DEF Flush, Replace, WriteFails, Leave, TaskTypeOK
  <2>4. UNCHANGED <<status, prior, handlers, level, todo, page, reply>> /\ out' \in [Tasks -> Outs]
    BY <1>3, Writes
  <2>5. failed' \subseteq Tasks \X {"first", "final", "unlink"}
    BY <1>3, Writes, FailuresTyped
  <2>6. \A u \in Tasks : at'[u] \in Writing => out'[u].to \in Tasks
    <3>1. at'[t] \notin Writing /\ \A u \in Tasks : u # t => out'[u] = out[u]
      BY <1>3, Writes DEF Writing
    <3> QED
      BY <2>2, <3>1
  <2> QED
    BY <2>1, <2>2, <2>3, <2>4, <2>5, <2>6 DEF TaskTypeOK, TaskLabels
<1>4. ASSUME NEW v \in Tabs, OpenTab(v) \/ Poll(v) \/ ReadFails(v) \/ Respond(v) \/ LoseAnswer(v)
      PROVE  Typed'
  <2>1. UNCHANGED <<at, status, prior, handlers, level, emitting, todo, out>>
    BY <1>4 DEF OpenTab, Poll, ReadFails, Respond, LoseAnswer, thread, logger, records
  <2>2. TaskOf[v] \in Tasks
    OBVIOUS
  <2>3. /\ file' \in [Tasks -> {"none", "running"} \cup Final]
        /\ failed' \subseteq Tasks \X {"first", "final", "unlink"}
    <3>1. CASE OpenTab(v) \/ Poll(v) \/ ReadFails(v)
      BY <3>1 DEF OpenTab, Poll, ReadFails, history, TaskTypeOK
    <3>2. CASE Respond(v) \/ LoseAnswer(v)
      <4>1. Unlink(v)
        BY <3>2 DEF Respond, LoseAnswer
      <4>2. /\ file' \in [Tasks -> {"none", "running"} \cup Final]
            /\ failed' \subseteq failed \cup {<<TaskOf[v], "unlink">>}
        BY <4>1, Unlinks
      <4> QED
        BY <2>2, <4>2, FailuresTyped
    <3> QED
      BY <1>4, <3>1, <3>2
  <2>4. page' \in [Tabs -> {"none", "polling", "not_found"} \cup Final]
    BY <1>4 DEF OpenTab, Poll, ReadFails, Respond, LoseAnswer, TaskTypeOK
  <2>5. reply' \in [Tabs -> {"none", "not_found"} \cup Final]
    <3>1. CASE Poll(v)
      BY <2>2, <3>1 DEF Poll, TaskTypeOK
    <3>2. CASE OpenTab(v) \/ ReadFails(v) \/ Respond(v) \/ LoseAnswer(v)
      BY <3>2 DEF OpenTab, ReadFails, Respond, LoseAnswer, TaskTypeOK
    <3> QED
      BY <1>4, <3>1, <3>2
  <2> QED
    BY <2>1, <2>3, <2>4, <2>5 DEF TaskTypeOK
<1>5. CASE ProcessDies
  <2>1. at' \in [Tasks -> TaskLabels] /\ \A u \in Tasks : at'[u] \in Writing => at[u] \in Writing
    BY <1>5 DEF ProcessDies, TaskLabels, Ended, Writing
  <2>2. handlers' = {} /\ level' = "unset" /\ UNCHANGED <<status, prior, file, out, page, failed>>
    BY <1>5 DEF ProcessDies, thread
  <2>3. /\ emitting' \in [Tasks -> Tasks \cup {NoTask}] /\ todo' \in [Tasks -> SUBSET Tasks]
        /\ reply' \in [Tabs -> {"none", "not_found"} \cup Final]
    BY <1>5 DEF ProcessDies
  <2> QED
    BY <2>1, <2>2, <2>3 DEF TaskTypeOK, TaskLabels
<1>6. CASE UNCHANGED taskVars
  BY <1>6 DEF taskVars, TaskTypeOK
<1>7. ASSUME NEW t \in Tasks, Launch(t) PROVE Typed'
  <2>1. Continue(t, "prior") /\ "prior" \in TaskLabels \ Writing /\ FirstWrite(t)
    BY <1>7 DEF Launch, TaskLabels, Writing
  <2>2. at' \in [Tasks -> TaskLabels] /\ \A u \in Tasks : at'[u] \in Writing => at[u] \in Writing
    BY <2>1, Moves
  <2>3. UNCHANGED <<status, prior, handlers, level, emitting, todo, out, page, reply>>
    BY <1>7 DEF Launch, records, thread, logger, browser
  <2>4. /\ file' \in [Tasks -> {"none", "running"} \cup Final]
        /\ failed' \subseteq Tasks \X {"first", "final", "unlink"}
    <3>1. /\ file' \in [Tasks -> {"none", "running"} \cup Final]
          /\ failed' \subseteq failed \cup {<<t, "first">>}
      BY <2>1, FirstWrites
    <3> QED
      BY <3>1, FailuresTyped
  <2> QED
    BY <2>2, <2>3, <2>4 DEF TaskTypeOK, TaskLabels
<1> QED
  BY <1>1, <1>2, <1>3, <1>4, <1>5, <1>6, <1>7 DEF TaskNext, Step

(* The types always hold.                                                  *)
LEMMA AlwaysTyped == TaskSpec => []Typed
  BY InitTyped, NextTyped, PTL DEF TaskSpec

-----------------------------------------------------------------------------
(* What a page shows.  A status changes once, when the task finishes, and  *)
(* until then it says "running"; so whatever was serialised, whenever it   *)
(* is written, says "running" or the outcome.                              *)

Truth ==
    /\ \A t \in Tasks : at[t] \in Before => status[t] = "running"
    /\ \A t \in Tasks : at[t] \in Writing => out[t].what \in {"running", status[out[t].to]}
    /\ \A t \in Tasks : file[t] \in {"none", "running", status[t]}
    /\ \A v \in Tabs : reply[v] \in {"none", "not_found", status[TaskOf[v]]}
    /\ \A v \in Tabs : page[v] \in {"none", "polling", "not_found", status[TaskOf[v]]}
    /\ \A v \in Tabs : page[v] \in Final \/ reply[v] \in Final => status[TaskOf[v]] \in Final

(* What the statuses say is true at the start.                             *)
LEMMA InitTruth == TaskInit => Truth
  BY DEF TaskInit, Truth, Before, Writing, Final

(* What the statuses say stays true.                                       *)
LEMMA NextTruth == ASSUME Typed, Truth, [TaskNext]_taskVars PROVE Truth'
<1> USE DEF Truth
<1> at \in [Tasks -> TaskLabels]
  BY DEF Typed, TaskTypeOK, TaskLabels
<1>1. ASSUME NEW t \in Tasks,
             \/ ReadLevel(t) \/ AddHandler(t) \/ ForceLevel(t) \/ LogRecord(t)
             \/ Emitted(t) \/ RemoveHandler(t) \/ RestoreLevel(t)
      PROVE  Truth'
  <2>1. \E label \in TaskLabels \ Writing :
            Continue(t, label) /\ (label \in Before => at[t] \in Before)
    BY <1>1 DEF ReadLevel, AddHandler, ForceLevel, LogRecord, Emitted,
                RemoveHandler, RestoreLevel, TaskLabels, Writing, Ended, Before
  <2>2. \A u \in Tasks : /\ at'[u] \in Writing => at[u] \in Writing
                         /\ at'[u] \in Before => at[u] \in Before
    BY <2>1, Moves
  <2>3. UNCHANGED <<status, file, out, page, reply>>
    BY <1>1 DEF ReadLevel, AddHandler, ForceLevel, LogRecord, Emitted,
                RemoveHandler, RestoreLevel, records, thread, logger, browser
  <2> QED
    BY <2>2, <2>3
<1>2. ASSUME NEW t \in Tasks, Launch(t) PROVE Truth'
  <2>1. at[t] = "off" /\ Continue(t, "prior")
    BY <1>2 DEF Launch
  <2>2. \A u \in Tasks : /\ at'[u] \in Writing => at[u] \in Writing
                         /\ at'[u] \in Before => at[u] \in Before
    BY <2>1, Moves DEF TaskLabels, Writing, Before
  <2>3. /\ UNCHANGED <<status, out, page, reply>>
        /\ \A u \in Tasks : file'[u] \in {file[u], "running"}
    BY <1>2, FirstWrites DEF Launch, thread, browser
  <2> QED
    BY <2>2, <2>3 DEF Typed, TaskTypeOK
<1>3. ASSUME NEW t \in Tasks, NEW u \in Tasks,
             \/ Emit(t, u)
             \/ u = t /\ (LogDirectly(t) \/ FlushFinal(t))
      PROVE  Truth'
  <2>1. /\ Serialise(t, u)
        /\ \E label \in Writing : Continue(t, label) /\ (label \in Before => at[t] \in Before)
    BY <1>3 DEF Emit, LogDirectly, FlushFinal, Writing, Before
  <2>2. /\ \A w \in Tasks : w # t => at'[w] = at[w]
        /\ at'[t] \in Before => at[t] \in Before
    BY <2>1, Moves DEF Writing, TaskLabels
  <2>3. /\ out'[t].to = u /\ out'[t].what = status[u]
        /\ \A w \in Tasks : w # t => out'[w] = out[w]
    BY <2>1, Serialises
  <2>4. UNCHANGED <<status, file, page, reply>>
    BY <1>3 DEF Emit, LogDirectly, FlushFinal, thread, browser
  <2> QED
    BY <2>2, <2>3, <2>4
<1>4. ASSUME NEW t \in Tasks, NEW outcome \in Final, Finish(t, outcome) PROVE Truth'
  <2>1. at[t] = "work" /\ Continue(t, "final") /\ status' = [status EXCEPT ![t] = outcome]
        /\ UNCHANGED <<file, out, page, reply>>
    BY <1>4 DEF Finish, records, browser
  <2>2. /\ at'[t] = "final" /\ \A w \in Tasks : w # t => at'[w] = at[w]
        /\ status'[t] = outcome /\ \A w \in Tasks : w # t => status'[w] = status[w]
    BY <2>1, Moves DEF TaskLabels, Typed, TaskTypeOK
  <2>3. status[t] = "running"
    BY <2>1 DEF Before
  <2>4. \A w \in Tasks : at'[w] \in Before => status'[w] = "running"
    BY <2>2 DEF Before
  <2>5. ASSUME NEW w \in Tasks, at'[w] \in Writing
        PROVE  out'[w].what \in {"running", status'[out'[w].to]}
    <3>1. w # t /\ at[w] \in Writing /\ out[w].to \in Tasks
      BY <2>2, <2>5 DEF Writing, Typed
    <3> QED
      BY <2>1, <2>2, <2>3, <3>1
  <2>6. \A w \in Tasks : file'[w] \in {"none", "running", status'[w]}
    BY <2>1, <2>2, <2>3
  <2>7. ASSUME NEW v \in Tabs
        PROVE  /\ reply'[v] \in {"none", "not_found", status'[TaskOf[v]]}
               /\ page'[v] \in {"none", "polling", "not_found", status'[TaskOf[v]]}
               /\ page'[v] \in Final \/ reply'[v] \in Final => status'[TaskOf[v]] \in Final
    <3>1. TaskOf[v] \in Tasks
      OBVIOUS
    <3>2. page[v] # "running" /\ reply[v] # "running"
      BY DEF Typed, TaskTypeOK, Final
    <3> QED
      BY <2>1, <2>2, <2>3, <3>1, <3>2
  <2> QED
    BY <2>4, <2>5, <2>6, <2>7
<1>5. ASSUME NEW t \in Tasks, Flush(t) PROVE Truth'
  <2>1. /\ out[t].to \in Tasks /\ file' \in {file, [file EXCEPT ![out[t].to] = out[t].what]}
        /\ out[t].what \in {"running", status[out[t].to]}
    BY <1>5, Writes
  <2>2. \A u \in Tasks : /\ at'[u] \in Writing => u # t /\ at[u] \in Writing
                         /\ at'[u] \in Before => at[u] \in Before
    <3>1. /\ at'[t] \notin Writing
          /\ at'[t] \in Before => at[t] \in Before
          /\ \A u \in Tasks : u # t => at'[u] = at[u]
      BY <1>5, Writes DEF Writing, Before
    <3> QED
      BY <1>5, <3>1, Writes
  <2>3. UNCHANGED <<status, page, reply>> /\ \A u \in Tasks : u # t => out'[u] = out[u]
    BY <1>5, Writes
  <2>4. \A u \in Tasks : file'[u] \in {"none", "running", status'[u]}
    BY <2>1, <2>3 DEF Typed, TaskTypeOK
  <2> QED
    BY <2>2, <2>3, <2>4
<1>6. ASSUME NEW v \in Tabs, OpenTab(v) \/ Poll(v) \/ ReadFails(v) \/ Respond(v) \/ LoseAnswer(v)
      PROVE  Truth'
  <2>1. UNCHANGED <<at, status, out>>
    BY <1>6 DEF OpenTab, Poll, ReadFails, Respond, LoseAnswer, thread, records
  <2>2. TaskOf[v] \in Tasks
    OBVIOUS
  <2>3. \A t \in Tasks : file'[t] \in {"none", file[t]}
    BY <1>6, <2>2, Unlinks DEF OpenTab, Poll, ReadFails, Respond, LoseAnswer
  <2>4. \A w \in Tabs : page'[w] \in {page[w], "polling", "not_found", reply[w]}
    BY <1>6 DEF OpenTab, Poll, ReadFails, Respond, LoseAnswer, Typed, TaskTypeOK
  <2>5. \A w \in Tabs : \/ reply'[w] \in {reply[w], "none", "not_found"}
                        \/ reply'[w] = file[TaskOf[w]] /\ reply'[w] # "running"
    <3>1. CASE Poll(v)
      <4>1. /\ reply'[v] = IF file[TaskOf[v]] = "none" THEN "not_found" ELSE file[TaskOf[v]]
            /\ file[TaskOf[v]] # "running" /\ \A w \in Tabs : w # v => reply'[w] = reply[w]
        BY <3>1 DEF Poll, Typed, TaskTypeOK
      <4> QED
        BY <4>1
    <3>2. CASE OpenTab(v) \/ ReadFails(v) \/ Respond(v) \/ LoseAnswer(v)
      <4>1. \A w \in Tabs : reply'[w] \in {reply[w], "none", "not_found"}
        BY <3>2 DEF OpenTab, ReadFails, Respond, LoseAnswer, Typed, TaskTypeOK
      <4> QED
        BY <4>1
    <3> QED
      BY <1>6, <3>1, <3>2
  <2>6. ASSUME NEW w \in Tabs
        PROVE  /\ reply'[w] \in {"none", "not_found", status[TaskOf[w]]}
               /\ reply'[w] \in Final => status[TaskOf[w]] \in Final
    BY <2>5 DEF Final
  <2>7. ASSUME NEW w \in Tabs
        PROVE  /\ page'[w] \in {"none", "polling", "not_found", status[TaskOf[w]]}
               /\ page'[w] \in Final => status[TaskOf[w]] \in Final
    BY <2>4 DEF Final
  <2> QED
    BY <2>1, <2>3, <2>6, <2>7
<1>7. CASE ProcessDies
  <2>1. \A u \in Tasks : /\ at'[u] \in Writing => at[u] \in Writing
                         /\ at'[u] \in Before => at[u] \in Before
    BY <1>7 DEF ProcessDies, Ended, Writing, Before
  <2>2. UNCHANGED <<status, file, out, page>> /\ reply' = [v \in Tabs |-> "none"]
    BY <1>7 DEF ProcessDies, thread
  <2> QED
    BY <2>1, <2>2 DEF Final
<1>8. CASE UNCHANGED taskVars
  BY <1>8 DEF taskVars
<1> QED
  BY <1>1, <1>2, <1>3, <1>4, <1>5, <1>6, <1>7, <1>8 DEF TaskNext, Step

-----------------------------------------------------------------------------
(* Where the outcome went.  A status file disappears only when its outcome *)
(* reaches a tab or an answer is lost, so a page that finds none is right, *)
(* unless the first write was swallowed.                                   *)

Delivered(t) == t \in lost \/ <<t, "first">> \in failed \/ (status[t] \in Final /\ Seen(t))

Delivery ==
    /\ \A v \in Tabs : reply[v] # "none" => page[v] = "polling"
    /\ \A v \in Tabs : page[v] # "none" => at[TaskOf[v]] # "off"
    /\ \A v \in Tabs : page[v] = "not_found" \/ reply[v] = "not_found" => Delivered(TaskOf[v])
    /\ \A t \in Tasks : file[t] = "none" /\ at[t] # "off" => Delivered(t)

(* A task that is forgotten has been seen, or is lost: at the start.       *)
LEMMA InitDelivery == TaskInit => Delivery
  BY DEF TaskInit, Delivery

(* What has been delivered stays delivered. *)
LEMMA DeliveredStays ==
    ASSUME Typed, Truth, Delivery, [TaskNext]_taskVars, NEW t \in Tasks, Delivered(t)
    PROVE  Delivered(t)'
<1>1. lost \subseteq lost'
  <2>1. CASE \E v \in Tabs : ReadFails(v) \/ LoseAnswer(v)
    BY <2>1 DEF ReadFails, LoseAnswer
  <2>2. CASE ~ \E v \in Tabs : ReadFails(v) \/ LoseAnswer(v)
    BY <2>2 DEF TaskNext, Step, Launch, ReadLevel, AddHandler, ForceLevel, LogDirectly, LogRecord,
                Emit, Emitted, Finish, FlushFinal, Flush, Replace,
                WriteFails, Leave, RemoveHandler, RestoreLevel, OpenTab,
                Poll, ReadFails, Respond, ProcessDies, browser, taskVars
  <2> QED
    BY <2>1, <2>2
<1>2. ASSUME status[t] \in Final PROVE status'[t] = status[t]
  <2>1. CASE \E u \in Tasks, outcome \in Final : Finish(u, outcome)
    <3>1. PICK u \in Tasks, outcome \in Final : Finish(u, outcome)
      BY <2>1
    <3>2. status[u] = "running"
      BY <3>1 DEF Finish, Truth, Before
    <3>3. u # t
      BY <1>2, <3>2 DEF Final
    <3> QED
      BY <3>1, <3>3 DEF Finish, Typed, TaskTypeOK
  <2>2. CASE ~ \E u \in Tasks, outcome \in Final : Finish(u, outcome)
    BY <2>2 DEF TaskNext, Step, Launch, ReadLevel, AddHandler, ForceLevel, LogDirectly, LogRecord,
                Emit, Emitted, FlushFinal, Flush, Replace,
                WriteFails, Leave, RemoveHandler, RestoreLevel, OpenTab,
                Poll, ReadFails, Respond, LoseAnswer, ProcessDies, thread, taskVars
  <2> QED
    BY <2>1, <2>2
<1>3. ASSUME NEW v \in Tabs, TaskOf[v] = t, page[v] \in Final PROVE page'[v] = page[v]
  <2>1. page[v] # "polling" /\ page[v] # "none" /\ reply[v] = "none"
    BY <1>3 DEF Final, Delivery
  <2>2. CASE \E w \in Tabs : OpenTab(w) \/ Respond(w) \/ LoseAnswer(w)
    <3> PICK w \in Tabs : OpenTab(w) \/ Respond(w) \/ LoseAnswer(w)
      BY <2>2
    <3>1. w # v
      BY <2>1 DEF OpenTab, Respond, LoseAnswer
    <3> QED
      BY <3>1 DEF OpenTab, Respond, LoseAnswer, Typed, TaskTypeOK
  <2>3. CASE ~ \E w \in Tabs : OpenTab(w) \/ Respond(w) \/ LoseAnswer(w)
    BY <2>3 DEF TaskNext, Step, Launch, ReadLevel, AddHandler, ForceLevel, LogDirectly, LogRecord,
                Emit, Emitted, Finish, FlushFinal, Flush, Replace,
                WriteFails, Leave, RemoveHandler, RestoreLevel,
                Poll, ReadFails, ProcessDies, browser, taskVars
  <2> QED
    BY <2>2, <2>3
<1> QED
  BY <1>1, <1>2, <1>3, FailedStays DEF Delivered, Seen

(* A started task does not become one that never started. *)
LEMMA StaysStarted ==
    ASSUME Typed, [TaskNext]_taskVars, NEW t \in Tasks, at[t] # "off"
    PROVE  at'[t] # "off"
<1> at \in [Tasks -> TaskLabels]
  BY DEF Typed, TaskTypeOK, TaskLabels
<1>1. CASE \E u \in Tasks, label \in TaskLabels \ {"off"} : Continue(u, label)
  BY <1>1, Moves
<1>2. ASSUME NEW u \in Tasks, Launch(u) \/ LogDirectly(u) \/ LogRecord(u) \/ Step(u)
      PROVE  \E label \in TaskLabels \ {"off"} : Continue(u, label)
  <2>1. CASE Flush(u)
    BY <2>1, Writes DEF Flush, Replace, WriteFails, Leave, TaskLabels
  <2>2. CASE ~Flush(u)
    BY <1>2, <2>2 DEF Step, Launch, ReadLevel, AddHandler, ForceLevel, LogDirectly, LogRecord,
                Emit, Emitted, Finish, FlushFinal, RemoveHandler, RestoreLevel, TaskLabels, Ended
  <2> QED
    BY <2>1, <2>2
<1>3. CASE \E v \in Tabs : OpenTab(v) \/ Poll(v) \/ ReadFails(v) \/ Respond(v) \/ LoseAnswer(v)
  BY <1>3 DEF OpenTab, Poll, ReadFails, Respond, LoseAnswer
<1>4. CASE ProcessDies
  BY <1>4 DEF ProcessDies
<1>5. CASE UNCHANGED taskVars
  BY <1>5 DEF taskVars
<1> QED
  BY <1>1, <1>2, <1>3, <1>4, <1>5 DEF TaskNext

(* A task that is forgotten has been seen, or is lost: after every step.   *)
LEMMA NextDelivery == ASSUME Typed, Truth, Delivery, [TaskNext]_taskVars PROVE Delivery'
<1>1. \A t \in Tasks : Delivered(t) => Delivered(t)'
  BY DeliveredStays
<1>2. \A t \in Tasks : at[t] # "off" => at'[t] # "off"
  BY StaysStarted
<1>3. \A v \in Tabs : TaskOf[v] \in Tasks
  OBVIOUS
<1>4. CASE \E v \in Tabs : OpenTab(v) \/ Poll(v) \/ ReadFails(v) \/ Respond(v) \/ LoseAnswer(v)
  <2> PICK v \in Tabs : OpenTab(v) \/ Poll(v) \/ ReadFails(v) \/ Respond(v) \/ LoseAnswer(v)
    BY <1>4
  <2> UNCHANGED <<at, status>>
    BY DEF OpenTab, Poll, ReadFails, Respond, LoseAnswer, thread
  <2>1. CASE OpenTab(v)
    BY <2>1, <1>1, <1>3 DEF OpenTab, Delivery, Typed, TaskTypeOK
  <2>2. CASE Poll(v)
    <3>1. /\ page[v] = "polling" /\ UNCHANGED <<page, file>>
          /\ \A w \in Tabs : w # v => reply'[w] = reply[w]
          /\ reply'[v] = IF file[TaskOf[v]] = "none" THEN "not_found" ELSE file[TaskOf[v]]
      BY <2>2 DEF Poll, Typed, TaskTypeOK
    <3>2. file[TaskOf[v]] # "not_found"
      BY <1>3 DEF Typed, TaskTypeOK, Final
    <3>3. reply'[v] = "not_found" => file[TaskOf[v]] = "none"
      BY <3>1, <3>2
    <3> QED
      BY <3>1, <3>3, <1>1, <1>3 DEF Delivery
  <2>3. CASE Respond(v)
    <3>1. /\ reply[v] # "none" /\ page'[v] = reply[v] /\ reply'[v] = "none"
          /\ \A w \in Tabs : w # v => page'[w] = page[w] /\ reply'[w] = reply[w]
      BY <2>3 DEF Respond, Typed, TaskTypeOK
    <3>2. page[v] = "polling"
      BY <3>1 DEF Delivery
    <3>3. ASSUME NEW t \in Tasks, file'[t] = "none", file[t] # "none" PROVE Delivered(t)'
      <4>1. t = TaskOf[v] /\ reply[v] \in Final
        BY <2>3, <3>3, Unlinks DEF Respond
      <4>2. status[t] \in Final
        BY <4>1 DEF Truth
      <4> QED
        BY <3>1, <4>1, <4>2 DEF Delivered, Seen
    <3> QED
      BY <3>1, <3>2, <3>3, <1>1, <1>3 DEF Delivery
  <2>4. CASE LoseAnswer(v)
    <3>1. /\ page[v] = "polling" /\ page'[v] \in {"polling", "not_found"} /\ reply'[v] = "none"
          /\ \A w \in Tabs : w # v => page'[w] = page[w] /\ reply'[w] = reply[w]
          /\ TaskOf[v] \in lost'
      BY <2>4 DEF LoseAnswer, Typed, TaskTypeOK
    <3>2. ASSUME NEW t \in Tasks, file'[t] = "none", file[t] # "none" PROVE t = TaskOf[v]
      BY <2>4, <3>2, Unlinks DEF LoseAnswer
    <3>3. Delivered(TaskOf[v])'
      BY <3>1 DEF Delivered
    <3> QED
      BY <3>1, <3>2, <3>3, <1>1, <1>3 DEF Delivery
  <2>5. CASE ReadFails(v)
    <3>1. /\ page[v] = "polling" /\ UNCHANGED <<page, file>>
          /\ \A w \in Tabs : w # v => reply'[w] = reply[w]
          /\ TaskOf[v] \in lost'
      BY <2>5 DEF ReadFails, Typed, TaskTypeOK
    <3>2. Delivered(TaskOf[v])'
      BY <3>1 DEF Delivered
    <3> QED
      BY <3>1, <3>2, <1>1, <1>3 DEF Delivery
  <2> QED
    BY <2>1, <2>2, <2>3, <2>4, <2>5
<1>5. CASE ProcessDies
  <2>1. UNCHANGED <<file, page>> /\ \A v \in Tabs : reply'[v] = "none"
    BY <1>5 DEF ProcessDies
  <2>2. \A t \in Tasks : at[t] = "off" => at'[t] = "off"
    BY <1>5 DEF ProcessDies, Ended
  <2> QED
    BY <2>1, <2>2, <1>1, <1>2, <1>3 DEF Delivery
<1>6. CASE \E t \in Tasks : Launch(t) \/ LogDirectly(t) \/ LogRecord(t) \/ Step(t)
  <2> PICK t \in Tasks : Launch(t) \/ LogDirectly(t) \/ LogRecord(t) \/ Step(t)
    BY <1>6
  <2>1. UNCHANGED <<page, reply>>
    BY DEF Step, Launch, ReadLevel, AddHandler, ForceLevel, LogDirectly, LogRecord,
           Emit, Emitted, Finish, FlushFinal, Flush, Replace,
           WriteFails, Leave, RemoveHandler, RestoreLevel, browser
  <2>2. CASE Launch(t)
    <3>1. at[t] = "off" /\ Continue(t, "prior") /\ FirstWrite(t)
      BY <2>2 DEF Launch
    <3>2. \A u \in Tasks : u # t => at'[u] = at[u] /\ file'[u] = file[u]
      BY <3>1, FirstWrites DEF Continue, Typed, TaskTypeOK
    <3>3. file'[t] = "running" \/ Delivered(t)'
      BY <3>1, FirstWrites DEF Delivered
    <3> QED
      BY <2>1, <3>2, <3>3, <1>1, <1>2, <1>3 DEF Delivery
  <2>3. CASE ~Launch(t)
    <3>1. at[t] # "off" /\ \A u \in Tasks : u # t => at'[u] = at[u]
      <4>1. CASE Flush(t)
        BY <4>1, Writes DEF Writing
      <4>2. CASE ~Flush(t)
        <5>1. at[t] # "off" /\ \E label : Continue(t, label)
          BY <2>3, <4>2 DEF Step, ReadLevel, AddHandler, ForceLevel, LogDirectly, LogRecord,
                    Emit, Emitted, Finish, FlushFinal, RemoveHandler, RestoreLevel
        <5> QED
          BY <5>1 DEF Continue, Typed, TaskTypeOK
      <4> QED
        BY <4>1, <4>2
    <3>2. \A u \in Tasks : at'[u] # "off" => at[u] # "off"
      BY <3>1
    <3>3. \A u \in Tasks : file'[u] = "none" => file[u] = "none"
      <4>1. CASE Flush(t)
        <5>1. out[t].what # "none"
          BY <4>1, Writes DEF Truth, Typed, TaskTypeOK, Final
        <5> QED
          BY <4>1, <5>1, Writes DEF Typed, TaskTypeOK
      <4>2. CASE ~Flush(t)
        BY <2>3, <4>2 DEF Step, ReadLevel, AddHandler, ForceLevel, LogDirectly, LogRecord,
                  Emit, Emitted, Finish, FlushFinal, RemoveHandler, RestoreLevel
      <4> QED
        BY <4>1, <4>2
    <3> QED
      BY <2>1, <3>2, <3>3, <1>1, <1>2, <1>3 DEF Delivery
  <2> QED
    BY <2>2, <2>3
<1>7. CASE UNCHANGED taskVars
  BY <1>7, <1>1 DEF taskVars, Delivery
<1> QED
  BY <1>4, <1>5, <1>6, <1>7 DEF TaskNext

-----------------------------------------------------------------------------
(* The handlers on the logger are those of tasks at work, and a thread has *)
(* handlers to reach only while it logs a record.                          *)

Attach ==
    /\ \A t \in handlers : at[t] \in Attached
    /\ \A t \in Tasks : at[t] \notin {"emit", "emitWrite"} => todo[t] = {}

(* The handlers on the logger are those of tasks at work: at the start.    *)
LEMMA InitAttach == TaskInit => Attach
  BY DEF TaskInit, Attach

(* The handlers on the logger are those of tasks at work: after every      *)
(* step.                                                                   *)
LEMMA NextAttach == ASSUME Typed, Attach, [TaskNext]_taskVars PROVE Attach'
<1> USE DEF Attach
<1> at \in [Tasks -> TaskLabels] /\ handlers \subseteq Tasks /\ todo \in [Tasks -> SUBSET Tasks]
  BY DEF Typed, TaskTypeOK, TaskLabels
<1>1. ASSUME NEW t \in Tasks,
             \/ Launch(t) \/ ReadLevel(t) \/ ForceLevel(t) \/ LogDirectly(t)
             \/ (\E outcome \in Final : Finish(t, outcome)) \/ FlushFinal(t) \/ RestoreLevel(t)
      PROVE  Attach'
  <2>1. UNCHANGED <<handlers, todo>> /\ at[t] \notin {"emit", "emitWrite"}
    BY <1>1 DEF Launch, ReadLevel, ForceLevel, LogDirectly, Finish, FlushFinal, RestoreLevel,
                logger, records
  <2>2. \E label \in TaskLabels : Continue(t, label) /\ (at[t] \in Attached => label \in Attached)
    BY <1>1 DEF Launch, ReadLevel, ForceLevel, LogDirectly, Finish, FlushFinal, RestoreLevel,
                TaskLabels, Attached, Ended
  <2>3. /\ \A u \in Tasks : u # t => at'[u] = at[u]
        /\ at[t] \in Attached => at'[t] \in Attached
    BY <2>2, Moves
  <2> QED
    BY <2>1, <2>3
<1>2. ASSUME NEW t \in Tasks, AddHandler(t) PROVE Attach'
  BY <1>2, Moves DEF AddHandler, TaskLabels, Attached, records
<1>3. ASSUME NEW t \in Tasks, RemoveHandler(t) PROVE Attach'
  BY <1>3, Moves DEF RemoveHandler, TaskLabels, Attached, records
<1>4. ASSUME NEW t \in Tasks, LogRecord(t) PROVE Attach'
  BY <1>4, Moves DEF LogRecord, TaskLabels, Attached, logger
<1>5. ASSUME NEW t \in Tasks, NEW u \in Tasks, Emit(t, u) PROVE Attach'
  BY <1>5, Moves DEF Emit, TaskLabels, Attached, logger
<1>6. ASSUME NEW t \in Tasks, Emitted(t) PROVE Attach'
  BY <1>6, Moves DEF Emitted, TaskLabels, Attached, logger, records
<1>7. ASSUME NEW t \in Tasks, Flush(t) PROVE Attach'
  <2>1. UNCHANGED <<handlers, todo>>
    BY <1>7, Writes
  <2>2. /\ \A u \in Tasks : u # t => at'[u] = at[u]
        /\ at'[t] \in Attached
        /\ at'[t] \notin {"emit", "emitWrite"} => at[t] \notin {"emit", "emitWrite"}
    BY <1>7, Writes DEF Attached, Writing
  <2> QED
    BY <2>1, <2>2
<1>8. ASSUME NEW v \in Tabs, OpenTab(v) \/ Poll(v) \/ ReadFails(v) \/ Respond(v) \/ LoseAnswer(v)
      PROVE  Attach'
  BY <1>8 DEF OpenTab, Poll, ReadFails, Respond, LoseAnswer, logger, records
<1>9. CASE ProcessDies
  BY <1>9 DEF ProcessDies
<1>10. CASE UNCHANGED taskVars
  BY <1>10 DEF taskVars
<1> QED
  BY <1>1, <1>2, <1>3, <1>4, <1>5, <1>6, <1>7, <1>8, <1>9, <1>10 DEF TaskNext, Step

-----------------------------------------------------------------------------
(* While no two tasks have overlapped, a task writes nothing but its own   *)
(* file, nothing but "running" before it has finished, and nothing after.  *)

Own(t) ==
    /\ todo[t] \subseteq {t}
    /\ at[t] \in Writing => out[t].to = t
    /\ at[t] \in {"write", "emitWrite"} => out[t].what = "running"
    /\ file[t] \in Final => at[t] \in After
    /\ \A v \in Tabs : TaskOf[v] = t /\ (reply[v] \in Final \/ page[v] \in Final) => at[t] \in After
    /\ Seen(t) => file[t] = "none" \/ <<t, "unlink">> \in failed

Single == \A t, u \in Tasks : at[t] \notin Ended /\ at[u] \notin Ended => t = u

Alone == ~overlapped => Single /\ \A t \in Tasks : Own(t)

(* Unless jobs have overlapped, one at most runs and each has its own: at  *)
(* the start.                                                              *)
LEMMA InitAlone == TaskInit => Alone
  BY DEF TaskInit, Alone, Single, Own, Writing, Ended, Final, Seen

(* A step of one thread leaves what is another's alone. *)
LEMMA OthersKeep ==
    ASSUME NEW t \in Tasks, Own(t), UNCHANGED <<page, reply>>, failed \subseteq failed',
           at'[t] = at[t], todo'[t] = todo[t], out'[t] = out[t], file'[t] = file[t]
    PROVE  Own(t)'
  BY DEF Own, Seen

(* A thread at work. *)
LEMMA WorkKeepsOwn ==
    ASSUME Typed, Truth, Attach, Single, NEW t \in Tasks, Own(t),
           \/ ReadLevel(t) \/ AddHandler(t) \/ ForceLevel(t) \/ LogDirectly(t) \/ LogRecord(t)
           \/ (\E u \in Tasks : Emit(t, u)) \/ Emitted(t)
           \/ (\E outcome \in Final : Finish(t, outcome)) \/ FlushFinal(t)
    PROVE  /\ Own(t)' /\ at[t] \notin Ended /\ UNCHANGED <<file, page, reply, overlapped, failed>>
           /\ \A u \in Tasks : u # t => at'[u] = at[u] /\ todo'[u] = todo[u] /\ out'[u] = out[u]
<1> at \in [Tasks -> TaskLabels] /\ handlers \subseteq Tasks /\ todo \in [Tasks -> SUBSET Tasks]
  BY DEF Typed, TaskTypeOK, TaskLabels
<1>1. UNCHANGED <<file, page, reply, overlapped, failed>>
  BY DEF ReadLevel, AddHandler, ForceLevel, LogDirectly, LogRecord, Emit, Emitted, Finish,
         FlushFinal, browser, history
<1>2. at[t] \notin After /\ at[t] \notin Ended /\ at[t] \in TaskLabels
  BY DEF ReadLevel, AddHandler, ForceLevel, LogDirectly, LogRecord, Emit, Emitted, Finish,
         FlushFinal, After, Ended
<1>3. \A u \in Tasks : u # t => at'[u] = at[u]
  BY DEF ReadLevel, AddHandler, ForceLevel, LogDirectly, LogRecord, Emit, Emitted, Finish,
         FlushFinal, Continue
<1>4. /\ file[t] \notin Final /\ ~Seen(t)
      /\ \A v \in Tabs : TaskOf[v] = t => reply[v] \notin Final /\ page[v] \notin Final
  BY <1>2 DEF Own, Seen
<1>5. CASE \/ ReadLevel(t) \/ AddHandler(t) \/ ForceLevel(t) \/ Emitted(t)
           \/ (\E outcome \in Final : Finish(t, outcome))
  <2>1. UNCHANGED <<todo, out>>
    BY <1>5 DEF ReadLevel, AddHandler, ForceLevel, Emitted, Finish, records
  <2>2. at'[t] \notin Writing
    BY <1>5, Moves DEF ReadLevel, AddHandler, ForceLevel, Emitted, Finish, TaskLabels, Writing
  <2> QED
    BY <1>1, <1>2, <1>3, <1>4, <2>1, <2>2 DEF Own, Seen, Writing
<1>6. CASE LogRecord(t)
  <2>1. UNCHANGED out /\ todo' = [todo EXCEPT ![t] = handlers] /\ at'[t] = "emit"
    BY <1>6, Moves DEF LogRecord, TaskLabels
  <2>2. handlers \subseteq {t}
    BY <1>2 DEF Attach, Single, Attached, Ended
  <2> QED
    BY <1>1, <1>2, <1>3, <1>4, <2>1, <2>2 DEF Own, Seen, Writing
<1>7. CASE LogDirectly(t)
  <2>1. at[t] = "work" /\ at'[t] = "write" /\ UNCHANGED todo /\ Serialise(t, t)
    BY <1>7, Moves DEF LogDirectly, TaskLabels, records
  <2>2. status[t] = "running"
    BY <2>1 DEF Truth, Before
  <2> QED
    BY <1>1, <1>2, <1>3, <1>4, <2>1, <2>2, Serialises DEF Own, Seen
<1>8. CASE \E u \in Tasks : Emit(t, u)
  <2>1. PICK u \in Tasks : Emit(t, u)
    BY <1>8
  <2>2. /\ at[t] = "emit" /\ at'[t] = "emitWrite" /\ u \in todo[t]
        /\ todo' = [todo EXCEPT ![t] = @ \ {u}] /\ Serialise(t, u)
    BY <2>1, Moves DEF Emit, TaskLabels
  <2>3. u = t /\ status[t] = "running"
    BY <2>2 DEF Own, Truth, Before
  <2> QED
    BY <1>1, <1>2, <1>3, <1>4, <2>2, <2>3, Serialises DEF Own, Seen
<1>9. CASE FlushFinal(t)
  <2>1. at'[t] = "finalWrite" /\ UNCHANGED todo /\ Serialise(t, t)
    BY <1>9, Moves DEF FlushFinal, TaskLabels, records
  <2> QED
    BY <1>1, <1>2, <1>3, <1>4, <2>1, Serialises DEF Own, Seen
<1> QED
  BY <1>5, <1>6, <1>7, <1>8, <1>9

(* A thread that writes, and one on its way out. *)
LEMMA EndKeepsOwn ==
    ASSUME Typed, Single, NEW t \in Tasks, Own(t),
           Flush(t) \/ RemoveHandler(t) \/ RestoreLevel(t)
    PROVE  /\ Own(t)' /\ at[t] \notin Ended /\ UNCHANGED <<page, reply, overlapped>>
           /\ \A u \in Tasks : u # t => /\ at'[u] = at[u] /\ todo'[u] = todo[u]
                                        /\ out'[u] = out[u] /\ file'[u] = file[u]
<1> at \in [Tasks -> TaskLabels]
  BY DEF Typed, TaskTypeOK, TaskLabels
<1>1. CASE Flush(t)
  <2>1. UNCHANGED <<page, reply, overlapped, todo>> /\ \A u \in Tasks : u # t => out'[u] = out[u]
    BY <1>1, Writes
  <2>2. at[t] \in Writing /\ at[t] \notin Ended /\ at[t] \notin After
    BY <1>1, Writes DEF Writing, Ended, After
  <2>3. /\ file[t] \notin Final /\ ~Seen(t) /\ out[t].to = t
        /\ \A v \in Tabs : TaskOf[v] = t => reply[v] \notin Final /\ page[v] \notin Final
    BY <2>2 DEF Own, Seen
  <2>4. /\ file' \in {file, [file EXCEPT ![t] = out[t].what]}
        /\ \A u \in Tasks : u # t => at'[u] = at[u]
        /\ at'[t] \notin Writing
    <3>1. file' = file \/ file' = [file EXCEPT ![out[t].to] = out[t].what]
      BY <1>1 DEF Flush, Replace, WriteFails
    <3>2. out[t].to = t
      BY <2>3
    <3>4. file' \in {file, [file EXCEPT ![t] = out[t].what]}
      <4>1. CASE file' = file
        BY <4>1
      <4>2. CASE file' = [file EXCEPT ![out[t].to] = out[t].what]
        BY <3>2, <4>2
      <4> QED
        BY <3>1, <4>1, <4>2
    <3>3. at'[t] \in {"work", "emit", "remove"} /\ \A u \in Tasks : u # t => at'[u] = at[u]
      BY <1>1, Writes
    <3> QED
      BY <3>3, <3>4 DEF Writing
  <2>5. file'[t] \in Final => at'[t] \in After
    <3>1. CASE at[t] \in {"write", "emitWrite"}
      <4>1. out[t].what = "running" /\ file \in [Tasks -> {"none", "running"} \cup Final]
        BY <3>1 DEF Own, Typed, TaskTypeOK
      <4>2. file'[t] = file[t] \/ file'[t] = "running"
        BY <2>4, <4>1
      <4> QED
        BY <2>3, <4>2 DEF Final
    <3>2. CASE at[t] = "finalWrite"
      BY <1>1, <3>2, Writes DEF After
    <3> QED
      BY <2>2, <3>1, <3>2 DEF Writing
  <2> QED
    BY <2>1, <2>2, <2>3, <2>4, <2>5 DEF Own, Seen, Typed, TaskTypeOK, Writing
<1>2. CASE RemoveHandler(t) \/ RestoreLevel(t)
  <2>1. UNCHANGED <<page, reply, overlapped, todo, out, file, failed>>
    BY <1>2 DEF RemoveHandler, RestoreLevel, browser, history, records
  <2>2. /\ at[t] \notin Ended /\ at[t] \in After /\ at'[t] \in After
        /\ \A u \in Tasks : u # t => at'[u] = at[u]
    BY <1>2, Moves DEF RemoveHandler, RestoreLevel, TaskLabels, Ended, After
  <2>3. at'[t] \notin Writing
    BY <2>2 DEF After, Writing
  <2> QED
    BY <2>1, <2>2, <2>3 DEF Own, Seen, Writing
<1> QED
  BY <1>1, <1>2

(* The end of the overlap is final. *)
LEMMA OverlapStays == ASSUME [TaskNext]_taskVars, ~overlapped' PROVE ~overlapped
  BY DEF TaskNext, Step, Launch, ReadLevel, AddHandler, ForceLevel, LogDirectly, LogRecord,
         Emit, Emitted, Finish, FlushFinal, Flush, Replace,
         WriteFails, Leave, RemoveHandler, RestoreLevel, OpenTab,
         Poll, ReadFails, Respond, LoseAnswer, ProcessDies, history, taskVars

(* The tabs of a task. *)
LEMMA TabsKeepOwn ==
    ASSUME Typed, Truth, Delivery, NEW v \in Tabs,
           OpenTab(v) \/ Poll(v) \/ ReadFails(v) \/ Respond(v) \/ LoseAnswer(v),
           \A t \in Tasks : Own(t)
    PROVE  \A t \in Tasks : Own(t)'
<1>1. UNCHANGED <<at, status, todo, out>>
  BY DEF OpenTab, Poll, ReadFails, Respond, LoseAnswer, thread, records
<1>2. TaskOf[v] \in Tasks
  OBVIOUS
<1>3. CASE OpenTab(v) \/ ReadFails(v) \/ LoseAnswer(v)
  <2>1. \A w \in Tabs : /\ page'[w] \in Final => page[w] \in Final
                        /\ reply'[w] \in Final => reply[w] \in Final
    BY <1>3 DEF OpenTab, ReadFails, LoseAnswer, Typed, TaskTypeOK, Final
  <2>2. \A t \in Tasks : file'[t] \in {"none", file[t]}
    BY <1>3, <1>2, Unlinks DEF OpenTab, ReadFails, LoseAnswer
  <2>3. failed \subseteq failed'
    BY <1>3, Unlinks DEF OpenTab, ReadFails, LoseAnswer, history
  <2> QED
    BY <1>1, <2>1, <2>2, <2>3 DEF Own, Seen, Final
<1>4. CASE Poll(v)
  <2>1. /\ UNCHANGED <<file, page, failed>> /\ \A w \in Tabs : w # v => reply'[w] = reply[w]
        /\ reply'[v] = IF file[TaskOf[v]] = "none" THEN "not_found" ELSE file[TaskOf[v]]
    BY <1>4 DEF Poll, history, Typed, TaskTypeOK
  <2>2. reply'[v] \in Final => file[TaskOf[v]] \in Final
    BY <2>1 DEF Final
  <2> QED
    BY <1>1, <1>2, <2>1, <2>2 DEF Own, Seen
<1>5. CASE Respond(v)
  <2>1. /\ page'[v] = reply[v] /\ reply'[v] = "none" /\ Unlink(v)
        /\ \A w \in Tabs : w # v => page'[w] = page[w] /\ reply'[w] = reply[w]
    BY <1>5 DEF Respond, Typed, TaskTypeOK
  <2>2. \A t \in Tasks : file'[t] \in {"none", file[t]}
    BY <2>1, Unlinks
  <2>3. /\ reply[v] \in Final =>
               file'[TaskOf[v]] = "none" \/ <<TaskOf[v], "unlink">> \in failed'
        /\ failed \subseteq failed'
    BY <2>1, Unlinks
  <2>4. ASSUME NEW t \in Tasks PROVE Own(t)'
    <3>1. Seen(t)' => Seen(t) \/ (t = TaskOf[v] /\ reply[v] \in Final)
      BY <2>1 DEF Seen
    <3>2. Seen(t)' => file'[t] = "none" \/ <<t, "unlink">> \in failed'
      BY <3>1, <2>2, <2>3 DEF Own
    <3>3. \A w \in Tabs :
              TaskOf[w] = t /\ (reply'[w] \in Final \/ page'[w] \in Final) => at[t] \in After
      BY <2>1 DEF Own, Final
    <3> QED
      BY <1>1, <2>2, <3>2, <3>3 DEF Own, Final
  <2> QED
    BY <2>4
<1> QED
  BY <1>3, <1>4, <1>5

(* Unless jobs have overlapped, one at most runs and each has its own:     *)
(* after every step.                                                       *)
LEMMA NextAlone == ASSUME Typed, Truth, Delivery, Attach, Alone, [TaskNext]_taskVars PROVE Alone'
<1> SUFFICES ASSUME ~overlapped'
             PROVE  Single' /\ \A t \in Tasks : Own(t)'
  BY DEF Alone
<1> at \in [Tasks -> TaskLabels]
  BY DEF Typed, TaskTypeOK, TaskLabels
<1>1. ~overlapped /\ Single /\ \A t \in Tasks : Own(t)
  BY OverlapStays DEF Alone
<1>2. ASSUME NEW t \in Tasks, Launch(t) PROVE Single' /\ \A u \in Tasks : Own(u)'
  <2>1. at[t] = "off" /\ at'[t] = "prior" /\ \A u \in Tasks : u # t => at'[u] = at[u]
    BY <1>2, Moves DEF Launch, TaskLabels
  <2>2. \A u \in Tasks : at[u] \in Ended
    BY <1>2 DEF Launch
  <2>3. /\ UNCHANGED <<todo, out, page, reply>> /\ failed \subseteq failed'
        /\ \A u \in Tasks : u # t => file'[u] = file[u]
        /\ file'[t] \in {file[t], "running"}
    BY <1>2, FirstWrites DEF Launch, records, browser
  <2>4. \A u \in Tasks : u # t => Own(u)'
    BY <1>1, <2>1, <2>3, OthersKeep DEF Typed, TaskTypeOK
  <2>5. Own(t)'
    BY <1>1, <2>1, <2>3 DEF Own, Seen, Typed, TaskTypeOK, After, Writing, Final
  <2> QED
    BY <2>1, <2>2, <2>4, <2>5 DEF Single
<1>3. ASSUME NEW t \in Tasks, LogDirectly(t) \/ LogRecord(t) \/ Step(t)
      PROVE  Single' /\ \A u \in Tasks : Own(u)'
  <2>1. /\ Own(t)' /\ at[t] \notin Ended /\ UNCHANGED <<page, reply>>
        /\ \A u \in Tasks : u # t => /\ at'[u] = at[u] /\ todo'[u] = todo[u]
                                     /\ out'[u] = out[u] /\ file'[u] = file[u]
    <3>1. CASE Flush(t) \/ RemoveHandler(t) \/ RestoreLevel(t)
      BY <1>1, <3>1, EndKeepsOwn
    <3>2. CASE ~(Flush(t) \/ RemoveHandler(t) \/ RestoreLevel(t))
      <4>1. \/ ReadLevel(t) \/ AddHandler(t) \/ ForceLevel(t) \/ LogDirectly(t) \/ LogRecord(t)
            \/ (\E u \in Tasks : Emit(t, u)) \/ Emitted(t)
            \/ (\E outcome \in Final : Finish(t, outcome)) \/ FlushFinal(t)
        BY <1>3, <3>2 DEF Step
      <4> QED
        BY <1>1, <4>1, WorkKeepsOwn
    <3> QED
      BY <3>1, <3>2
  <2>2. \A u \in Tasks : u # t => Own(u)'
    BY <1>1, <2>1, OthersKeep, FailedStays
  <2>3. Single'
    BY <1>1, <2>1 DEF Single
  <2> QED
    BY <2>1, <2>2, <2>3
<1>4. ASSUME NEW v \in Tabs, OpenTab(v) \/ Poll(v) \/ ReadFails(v) \/ Respond(v) \/ LoseAnswer(v)
      PROVE  Single' /\ \A t \in Tasks : Own(t)'
  <2>1. UNCHANGED at
    BY <1>4 DEF OpenTab, Poll, ReadFails, Respond, LoseAnswer
  <2> QED
    BY <1>1, <1>4, <2>1, TabsKeepOwn DEF Single
<1>5. CASE ProcessDies
  <2>1. /\ \A t \in Tasks : at'[t] \in Ended /\ at'[t] \notin Writing
        /\ \A t \in Tasks : at[t] \in After => at'[t] \in After
    BY <1>5 DEF ProcessDies, Ended, After, Writing
  <2>2. /\ UNCHANGED <<file, page, failed>> /\ \A t \in Tasks : todo'[t] = {}
        /\ \A v \in Tabs : reply'[v] = "none"
    BY <1>5 DEF ProcessDies
  <2>3. Single'
    BY <2>1 DEF Single
  <2>4. \A t \in Tasks : Own(t)'
    BY <1>1, <2>1, <2>2 DEF Own, Seen, Final, Writing
  <2> QED
    BY <2>3, <2>4
<1>6. CASE UNCHANGED taskVars
  BY <1>1, <1>6 DEF taskVars, Single, Own, Seen
<1> QED
  BY <1>2, <1>3, <1>4, <1>5, <1>6 DEF TaskNext

(* A poll shows the outcome of its task, and no status file is left when   *)
(* thread and page are done, while tasks run one after the other           *)
(* (task_status.py:133).                                                   *)
THEOREM StatusFilesAreRight == TaskSpec => []StatusTrue
<1>1. Truth => ShownIsTrue
  BY DEF Truth, ShownIsTrue, Final
<1>2. Delivery => NotFoundIsTrue
  BY DEF Delivery, Delivered, NotFoundIsTrue
<1>3. Alone => FileCleanedUp
  BY DEF Alone, Own, FileCleanedUp
<1>4. Typed /\ Truth /\ Delivery /\ Alone => StatusTrue
  BY <1>1, <1>2, <1>3 DEF StatusTrue, Typed
<1> QED
  BY AlwaysTyped, InitTruth, NextTruth, InitDelivery, NextDelivery, InitAttach, NextAttach,
     InitAlone, NextAlone, <1>4, PTL DEF TaskSpec

-----------------------------------------------------------------------------
(* The level of the logger.  The only task there is finds it as it was     *)
(* before any task, and puts that back.                                    *)

Forced == {"work", "write", "emit", "emitWrite", "final", "finalWrite", "remove", "restore"}

Level ==
    ~overlapped =>
        /\ (\A t \in Tasks : at[t] \in Ended \cup {"prior", "add", "set"}) => level = "unset"
        /\ \A t \in Tasks : at[t] \in Ended \cup {"prior"} \/ prior[t] = "unset"
        /\ \A t \in Tasks : at[t] \in Forced => level = "info"

(* Unless jobs have overlapped, the log level is as it was left: at the    *)
(* start.                                                                  *)
LEMMA InitLevel == TaskInit => Level
  BY DEF TaskInit, Level, Ended, Forced

(* Unless jobs have overlapped, the log level is as it was left: after     *)
(* every step.                                                             *)
LEMMA NextLevel == ASSUME Typed, Alone, Level, [TaskNext]_taskVars PROVE Level'
<1> SUFFICES ASSUME ~overlapped' PROVE Level'
  BY DEF Level
<1> DEFINE Low == Ended \cup {"prior", "add", "set"}
<1> at \in [Tasks -> TaskLabels]
  BY DEF Typed, TaskTypeOK, TaskLabels
<1>1. /\ Single
      /\ (\A t \in Tasks : at[t] \in Low) => level = "unset"
      /\ \A t \in Tasks : at[t] \in Ended \cup {"prior"} \/ prior[t] = "unset"
      /\ \A t \in Tasks : at[t] \in Forced => level = "info"
  BY OverlapStays DEF Alone, Level
<1>2. ASSUME NEW t \in Tasks, Launch(t) PROVE Level'
  <2>1. /\ at[t] = "off" /\ at'[t] = "prior" /\ \A u \in Tasks : u # t => at'[u] = at[u]
        /\ \A u \in Tasks : at[u] \in Ended
    BY <1>2, Moves DEF Launch, TaskLabels
  <2>2. UNCHANGED <<level, prior>>
    BY <1>2 DEF Launch, thread, logger
  <2> QED
    BY <1>1, <2>1, <2>2 DEF Level, Ended, Forced
<1>3. ASSUME NEW t \in Tasks, LogDirectly(t) \/ LogRecord(t) \/ Step(t) PROVE Level'
  <2>1. at[t] \notin Ended /\ at[t] \in TaskLabels
    <3>1. CASE Flush(t)
      BY <3>1, Writes DEF Writing, Ended
    <3>2. CASE ~Flush(t)
      BY <1>3, <3>2 DEF Step, ReadLevel, AddHandler, ForceLevel, LogDirectly, LogRecord, Emit,
                  Emitted, Finish, FlushFinal, RemoveHandler, RestoreLevel, Ended
    <3> QED
      BY <3>1, <3>2
  <2>2. \A u \in Tasks : u # t => at[u] \in Ended
    BY <1>1, <2>1 DEF Single
  <2>3. ASSUME \A u \in Tasks : u # t => at'[u] = at[u],
               at'[t] \in Low => level' = "unset",
               at'[t] \in Forced => level' = "info",
               at'[t] \in Ended \cup {"prior"} \/ prior'[t] = "unset"
        PROVE  Level'
    BY <2>2, <2>3 DEF Level, Ended, Forced
  <2>4. \A u \in Tasks : u # t => at'[u] = at[u]
    <3>1. CASE Flush(t)
      BY <3>1, Writes
    <3>2. CASE ~Flush(t)
      BY <1>3, <3>2 DEF Step, ReadLevel, AddHandler, ForceLevel, LogDirectly, LogRecord, Emit,
                  Emitted, Finish, FlushFinal, RemoveHandler, RestoreLevel, Continue
    <3> QED
      BY <3>1, <3>2
  <2>5. at[t] \in Low => level = "unset"
    BY <1>1, <2>2
  <2>6. at[t] \in Forced => level = "info" /\ prior[t] = "unset"
    BY <1>1 DEF Forced, Ended
  <2>7. CASE ReadLevel(t)
    <3>1. /\ at[t] = "prior" /\ at'[t] = "add" /\ UNCHANGED level
          /\ prior' = [prior EXCEPT ![t] = level]
      BY <2>7, Moves DEF ReadLevel, TaskLabels, logger
    <3> QED
      BY <2>3, <2>4, <2>5, <3>1 DEF Forced, Typed, TaskTypeOK
  <2>8. CASE AddHandler(t)
    <3>1. at[t] = "add" /\ at'[t] = "set" /\ UNCHANGED <<level, prior>>
      BY <2>8, Moves DEF AddHandler, TaskLabels, thread
    <3> QED
      BY <1>1, <2>3, <2>4, <2>5, <3>1 DEF Forced, Ended
  <2>9. CASE ForceLevel(t)
    <3>1. at[t] = "set" /\ at'[t] = "work" /\ level' = "info" /\ UNCHANGED prior
      BY <2>9, Moves DEF ForceLevel, TaskLabels, thread
    <3> QED
      BY <1>1, <2>3, <2>4, <3>1 DEF Ended
  <2>10. CASE RestoreLevel(t)
    <3>1. at[t] = "restore" /\ at'[t] = "over" /\ level' = prior[t]
      BY <2>10, Moves DEF RestoreLevel, TaskLabels, Ended
    <3>2. prior[t] = "unset"
      BY <3>1, <2>6 DEF Forced
    <3> QED
      BY <2>3, <2>4, <3>1, <3>2 DEF Forced, Ended
  <2>11. CASE \/ LogDirectly(t) \/ LogRecord(t) \/ (\E u \in Tasks : Emit(t, u)) \/ Emitted(t)
              \/ (\E outcome \in Final : Finish(t, outcome)) \/ FlushFinal(t) \/ Flush(t)
              \/ RemoveHandler(t)
    <3>1. UNCHANGED <<level, prior>> /\ at[t] \in Forced
      <4>1. CASE Flush(t)
        BY <4>1, Writes DEF Writing, Forced
      <4>2. CASE ~Flush(t)
        BY <2>11, <4>2 DEF LogDirectly, LogRecord, Emit, Emitted, Finish, FlushFinal,
                   RemoveHandler, Forced, logger, thread
      <4> QED
        BY <4>1, <4>2
    <3>2. at'[t] \in Forced
      <4>1. CASE Flush(t)
        BY <4>1, Writes DEF Forced
      <4>2. CASE ~Flush(t)
        BY <2>11, <4>2, Moves DEF LogDirectly, LogRecord, Emit, Emitted, Finish, FlushFinal,
                   RemoveHandler, Forced, TaskLabels
      <4> QED
        BY <4>1, <4>2
    <3>3. at'[t] \notin Low
      BY <3>2 DEF Forced, Ended
    <3> QED
      BY <2>3, <2>4, <2>6, <3>1, <3>2, <3>3
  <2> QED
    BY <1>3, <2>7, <2>8, <2>9, <2>10, <2>11 DEF Step
<1>4. ASSUME NEW v \in Tabs, OpenTab(v) \/ Poll(v) \/ ReadFails(v) \/ Respond(v) \/ LoseAnswer(v)
      PROVE  Level'
  <2>1. UNCHANGED <<at, level, prior, overlapped>>
    BY <1>4 DEF OpenTab, Poll, ReadFails, Respond, LoseAnswer, thread, logger, history
  <2> QED
    BY <1>1, <2>1 DEF Level
<1>5. CASE ProcessDies
  <2>1. level' = "unset" /\ \A t \in Tasks : at'[t] \in Ended
    BY <1>5 DEF ProcessDies, Ended
  <2> QED
    BY <2>1 DEF Level, Ended, Forced
<1>6. CASE UNCHANGED taskVars
  BY <1>1, <1>6 DEF taskVars, Level
<1> QED
  BY <1>2, <1>3, <1>4, <1>5, <1>6 DEF TaskNext

(* The shared ai logger is at INFO while a task works and is given back as *)
(* it was found (ai_tasks.py:204-241), if no two tasks have overlapped.    *)
THEOREM LevelIsPutBack == TaskSpec => []LoggerKept
<1>1. Level => InfoWhileWorking
  BY DEF Level, InfoWhileWorking, Forced
<1>2. Typed /\ Attach /\ Level => LevelPutBack
  BY DEF Typed, TaskTypeOK, Attach, Attached, Level, LevelPutBack, Ended
<1>3. Typed /\ Attach /\ Level => LoggerKept
  BY <1>1, <1>2 DEF LoggerKept
<1> QED
  BY AlwaysTyped, InitTruth, NextTruth, InitDelivery, NextDelivery, InitAttach, NextAttach,
     InitAlone, NextAlone, InitLevel, NextLevel, <1>3, PTL DEF TaskSpec
=============================================================================
