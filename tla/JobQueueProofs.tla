--------------------------- MODULE JobQueueProofs ---------------------------
(***************************************************************************)
(* Proofs about JobQueue for any number of workers, jobs, threads, owners  *)
(* and faults.  The inductive invariant adds to the properties who holds   *)
(* which row: a locked row is queued and locked by its claimer alone, and  *)
(* two workers past their UPDATE hold different rows.                      *)
(***************************************************************************)
EXTENDS JobQueue, TLAPS

Labels == {"idle", "scan", "locked", "claimed", "await", "run", "finish",
           "write", "after", "catch"}

\* Past its UPDATE and not yet back at the top of the loop.
Owns(w) == pc[w] \in {"claimed", "await", "run", "finish", "write", "after",
                      "catch"}

LockedIsQueued ==
  \A w \in Workers : pc[w] = "locked" =>
    job[w] \in Jobs /\ lock[job[w]] = w /\ status[job[w]] = "queued"

OwnsItsRow ==
  \A w \in Workers : Owns(w) =>
    job[w] \in Jobs /\ status[job[w]] \in {"running"} \cup Terminal

OwnersDiffer ==
  \A v, w \in Workers : v # w /\ Owns(v) /\ Owns(w) => job[v] # job[w]

OneRunningPerThread ==
  \A i, j \in Jobs :
    /\ status[i] = "running" /\ status[j] = "running"
    /\ thread[i] = thread[j]
    => i = j

IInv == /\ TypeOK
        /\ LockedIsQueued
        /\ OwnsItsRow
        /\ OwnersDiffer
        /\ ExecutingIsRunning
        /\ OneRunningPerThread

-----------------------------------------------------------------------------
\* The number that stands for no job is not one of a job.
LEMMA ZeroIsNoJob == NoJob \notin Jobs
  BY DEF NoJob, Jobs

\* What an outcome shows and the status it needs are among those there are.
LEMMA OutcomeType ==
  ASSUME NEW s \in Statuses, NEW f \in BOOLEAN
  PROVE  BuildOutcome(s, f) \in [shown : {"Active", "Needs you", "Done"},
                                 jobStatus : Terminal \cup {"none"}]
  BY DEF BuildOutcome, OwnerStatusFor, Statuses, Terminal

\* Faults are counted in numbers.
LEMMA CountType ==
  ASSUME faults \in [FaultKinds -> Nat],
         NEW k \in {"crash", "db", "load", "mark"}, NEW b, Count(k, b)
  PROVE  faults' \in [FaultKinds -> Nat]
<1>1. k \in FaultKinds
  BY DEF FaultKinds
<1>2. faults[k] + 1 \in Nat
  BY <1>1
<1> QED
  BY <1>1, <1>2 DEF Count

\* The initial state satisfies the inductive invariant.
LEMMA InitIInv == Init => IInv
<1> SUFFICES ASSUME Init PROVE IInv
  OBVIOUS
<1>1. TypeOK
  BY OutcomeType DEF Init, TypeOK, Statuses, Terminal, FaultKinds
<1>2. LockedIsQueued /\ OwnsItsRow /\ OwnersDiffer /\ ExecutingIsRunning
  BY DEF Init, LockedIsQueued, OwnsItsRow, OwnersDiffer, ExecutingIsRunning,
         Owns, Executing
<1>3. OneRunningPerThread
  BY DEF Init, OneRunningPerThread
<1> QED
  BY <1>1, <1>2, <1>3 DEF IInv

\* Every step preserves types.
LEMMA TypeStep == TypeOK /\ OwnsItsRow /\ [Next]_vars => TypeOK'
<1> SUFFICES ASSUME TypeOK, OwnsItsRow, [Next]_vars PROVE TypeOK'
  OBVIOUS
<1> USE DEF TypeOK
<1>1. CASE UNCHANGED vars
  BY <1>1 DEF vars, tableVars, workerVars
<1>2. ASSUME NEW j \in Jobs, NEW t \in Threads, NEW o \in Owners,
             Enqueue(j, t, o)
      PROVE  TypeOK'
  BY <1>2, OutcomeType DEF Enqueue, Statuses, workerVars
<1>3. ASSUME NEW w \in Workers, WorkerStep(w)
      PROVE  TypeOK'
  <2>1. CASE ClaimBegin(w)
    BY <2>1 DEF ClaimBegin, Goto, tableVars
  <2>2. CASE ClaimExamine(w)
    <3>1. PICK j \in cand[w] :
            \/ /\ lock' = [lock EXCEPT ![j] = w]
               /\ job' = [job EXCEPT ![w] = j]
               /\ cand' = [cand EXCEPT ![w] = {}]
               /\ pc' = [pc EXCEPT ![w] = "locked"]
            \/ /\ cand' = [cand EXCEPT ![w] = @ \ {j}]
               /\ UNCHANGED <<lock, job, pc>>
      BY <2>2 DEF ClaimExamine, Goto
    <3>2. j \in Jobs /\ cand[w] \ {j} \in SUBSET Jobs
      OBVIOUS
    <3>3. UNCHANGED <<tableVars, runtime, result, sawFlag, rescuing, marking,
                      faults>>
      BY <2>2 DEF ClaimExamine
    <3>4. /\ lock' \in [Jobs -> Workers \cup {NoWorker}]
          /\ job' \in [Workers -> Jobs \cup {NoJob}]
          /\ cand' \in [Workers -> SUBSET Jobs]
      <4>1. CASE lock' = [lock EXCEPT ![j] = w]
                 /\ job' = [job EXCEPT ![w] = j]
                 /\ cand' = [cand EXCEPT ![w] = {}]
        BY <4>1, <3>2
      <4>2. CASE cand' = [cand EXCEPT ![w] = @ \ {j}]
                 /\ UNCHANGED <<lock, job>>
        <5>1. cand' \in [Workers -> SUBSET Jobs]
          BY <4>2, <3>2
        <5> QED
          BY <4>2, <5>1
      <4> QED
        BY <3>1, <4>1, <4>2
    <3>5. pc' \in [Workers -> Labels]
      BY <3>1 DEF Labels
    <3> QED
      BY <3>3, <3>4, <3>5 DEF tableVars, Labels
  <2>3. CASE ClaimNothing(w)
    BY <2>3 DEF ClaimNothing, EnsureRuntime, Goto, tableVars
  <2>4. CASE ClaimUpdate(w)
    BY <2>4 DEF ClaimUpdate, Goto, Statuses
  <2>5. CASE ClaimConflict(w)
    BY <2>5 DEF ClaimConflict, Goto, tableVars
  <2>6. CASE ClaimSelect(w)
    BY <2>6 DEF ClaimSelect, EnsureRuntime, Goto, tableVars
  <2>7. CASE RuntimeMissing(w)
    BY <2>7 DEF RuntimeMissing, Drop, Goto, tableVars
  <2>8. CASE StartRun(w)
    BY <2>8 DEF StartRun, Goto, tableVars
  <2>9. ASSUME NEW s \in Terminal, RunEnds(w, s)
        PROVE  TypeOK'
    BY <2>9 DEF RunEnds, Goto, tableVars
  <2>10. CASE FinishRead(w)
    <3>1. needsYou[job[w]] \in BOOLEAN
      BY <2>10 DEF FinishRead, OwnsItsRow, Owns
    <3> QED
      BY <2>10, <3>1 DEF FinishRead, Goto, tableVars
  <2>11. CASE FinishWrite(w)
    BY <2>11, OutcomeType DEF FinishWrite, Goto, Drop, Statuses
  <2>12. CASE Return(w)
    BY <2>12 DEF Return, Drop, Goto, tableVars
  <2>13. CASE Rescue(w)
    <3>1. CASE status[job[w]] = "running"
      BY <2>13, <3>1 DEF Rescue, Goto, Terminal, tableVars
    <3>2. CASE status[job[w]] # "running"
      BY <2>13, <3>2 DEF Rescue, Drop, Goto, tableVars
    <3> QED
      BY <3>1, <3>2
  <2> QED
    BY <1>3, <2>1, <2>2, <2>3, <2>4, <2>5, <2>6, <2>7, <2>8, <2>9, <2>10,
       <2>11, <2>12, <2>13 DEF WorkerStep
<1>4. ASSUME NEW w \in Workers, RuntimeLoaded(w) PROVE TypeOK'
  BY <1>4 DEF RuntimeLoaded, tableVars
<1>5. ASSUME NEW w \in Workers, WorkerFault(w) PROVE TypeOK'
  <2>1. CASE RunThrows(w)
    BY <2>1 DEF RunThrows, Goto, tableVars
  <2>2. CASE ReturnThrows(w)
    BY <2>2 DEF ReturnThrows, Goto, tableVars
  <2>3. CASE RuntimeLoadFails(w)
    <3>1. faults' \in [FaultKinds -> Nat]
      BY <2>3, CountType DEF RuntimeLoadFails
    <3> QED
      BY <2>3, <3>1 DEF RuntimeLoadFails, tableVars
  <2>4. CASE StatementThrows(w)
    <3>1. faults' \in [FaultKinds -> Nat]
      BY <2>4, CountType DEF StatementThrows
    <3> QED
      BY <2>4, <3>1 DEF StatementThrows, Drop, Goto, tableVars
  <2>5. CASE Crash(w)
    <3>1. faults' \in [FaultKinds -> Nat]
      BY <2>5, CountType DEF Crash
    <3> QED
      BY <2>5, <3>1 DEF Crash, Drop, Goto, tableVars
  <2> QED
    BY <1>5, <2>1, <2>2, <2>3, <2>4, <2>5 DEF WorkerFault
<1>6. ASSUME NEW o \in Owners, MarkRead(o) PROVE TypeOK'
  <2>1. faults' \in [FaultKinds -> Nat]
    BY <1>6, CountType DEF MarkRead
  <2> QED
    BY <1>6, <2>1 DEF MarkRead, tableVars, workerVars
<1>7. ASSUME NEW o \in Owners, NEW j \in Jobs, MarkWrite(o, j) PROVE TypeOK'
  BY <1>7, OutcomeType DEF MarkWrite, workerVars, Statuses
<1> QED
  BY <1>1, <1>2, <1>3, <1>4, <1>5, <1>6, <1>7 DEF Next

-----------------------------------------------------------------------------
\* A step of one worker that writes neither the table nor a lock, and that
\* goes back to the loop, stays where it is, or moves on with its row.
LEMMA LocalStep ==
  ASSUME IInv, TypeOK', NEW w \in Workers, UNCHANGED <<status, thread, lock>>,
         \A v \in Workers \ {w} : pc'[v] = pc[v] /\ job'[v] = job[v],
         \/ pc'[w] \in {"idle", "scan"}
         \/ pc'[w] = pc[w] /\ job'[w] = job[w]
         \/ /\ job'[w] = job[w] /\ Owns(w) /\ Owns(w)'
            /\ Executing(w)' => status[job[w]] = "running"
  PROVE  IInv'
<1> USE DEF IInv
<1>1. LockedIsQueued'
  BY DEF LockedIsQueued, Owns
<1>2. OwnsItsRow'
  BY DEF OwnsItsRow, Owns
<1>3. OwnersDiffer'
  BY DEF OwnersDiffer, Owns
<1>4. ExecutingIsRunning'
  BY DEF ExecutingIsRunning, Executing
<1>5. OneRunningPerThread'
  BY DEF OneRunningPerThread
<1> QED
  BY <1>1, <1>2, <1>3, <1>4, <1>5

\* A worker moves on with the row it owns, and only one that executes the row still
\* does after it.
LEMMA AdvanceStep ==
  ASSUME IInv, TypeOK', NEW w \in Workers, Owns(w), NEW l \in Labels,
         pc' = [pc EXCEPT ![w] = l], UNCHANGED <<status, thread, lock, job>>,
         \/ l \in {"after", "catch"}
         \/ l \in {"await", "run", "finish", "write"} /\ Executing(w)
  PROVE  IInv'
<1>1. pc'[w] = l /\ \A v \in Workers \ {w} : pc'[v] = pc[v]
  BY DEF IInv, TypeOK
<1>2. Owns(w)'
  BY <1>1 DEF Owns
<1>3. Executing(w)' => status[job[w]] = "running"
  <2>1. Executing(w)' => Executing(w)
    BY <1>1 DEF Executing
  <2> QED
    BY <2>1 DEF IInv, ExecutingIsRunning
<1> QED
  BY <1>1, <1>2, <1>3, LocalStep

\* A step that touches neither the workers nor the locks and leaves every row
\* that exists its status and its thread.
LEMMA TableStep ==
  ASSUME IInv, TypeOK', UNCHANGED <<lock, pc, job>>,
         \A j \in Jobs : \/ status'[j] = status[j] /\ thread'[j] = thread[j]
                         \/ status[j] = "none" /\ status'[j] = "queued"
  PROVE  IInv'
<1> USE DEF IInv
<1>1. LockedIsQueued'
  BY DEF LockedIsQueued
<1>2. OwnsItsRow' /\ OwnersDiffer'
  BY DEF OwnsItsRow, OwnersDiffer, Owns, Terminal
<1>3. ExecutingIsRunning'
  <2> SUFFICES ASSUME NEW w \in Workers, Executing(w)
               PROVE  status'[job[w]] = "running"
    BY DEF ExecutingIsRunning, Executing
  <2>1. job[w] \in Jobs /\ status[job[w]] = "running"
    BY DEF ExecutingIsRunning, OwnsItsRow, Owns, Executing
  <2> QED
    BY <2>1
<1>4. OneRunningPerThread'
  BY DEF OneRunningPerThread
<1> QED
  BY <1>1, <1>2, <1>3, <1>4

\* The UPDATE of the claim: the row was queued, so nobody owned it, and the
\* index saw no other running row of its thread.
LEMMA ClaimUpdateStep ==
  ASSUME IInv, TypeOK', NEW w \in Workers, ClaimUpdate(w)
  PROVE  IInv'
<1> USE DEF IInv, TypeOK
<1>1. /\ job[w] \in Jobs /\ status[job[w]] = "queued" /\ lock[job[w]] = w
      /\ pc[w] = "locked"
  BY DEF ClaimUpdate, LockedIsQueued
<1>2. /\ status' = [status EXCEPT ![job[w]] = "running"]
      /\ lock' = [lock EXCEPT ![job[w]] = NoWorker]
      /\ pc' = [pc EXCEPT ![w] = "claimed"]
      /\ UNCHANGED <<thread, job>>
  BY DEF ClaimUpdate, Goto
<1>3. \A v \in Workers : v # w /\ Owns(v) => job[v] # job[w]
  BY <1>1 DEF OwnsItsRow, Terminal
<1>4. LockedIsQueued'
  <2> SUFFICES ASSUME NEW v \in Workers, pc'[v] = "locked"
               PROVE  /\ job'[v] \in Jobs /\ lock'[job'[v]] = v
                      /\ status'[job'[v]] = "queued"
    BY DEF LockedIsQueued
  <2>1. v # w /\ pc[v] = "locked" /\ job'[v] = job[v]
    BY <1>1, <1>2
  <2>2. job[v] \in Jobs /\ lock[job[v]] = v /\ status[job[v]] = "queued"
    BY <2>1 DEF LockedIsQueued
  <2> QED
    BY <1>1, <1>2, <2>1, <2>2
<1>5. OwnsItsRow'
  BY <1>1, <1>2, <1>3, ZenonT(60) DEF OwnsItsRow, Owns
<1>6. OwnersDiffer'
  <2>1. \A v \in Workers \ {w} : Owns(v)' <=> Owns(v)
    BY <1>2 DEF Owns
  <2> QED
    BY <1>2, <1>3, <2>1 DEF OwnersDiffer
<1>7. ExecutingIsRunning'
  BY <1>1, <1>2, <1>3, ZenonT(60) DEF ExecutingIsRunning, Executing, OwnsItsRow, Owns
<1>8. OneRunningPerThread'
  <2>1. \A k \in Jobs : status[k] = "running" /\ thread[k] = thread[job[w]]
                        => k = job[w]
    BY DEF ClaimUpdate, IndexAdmits, RunningOn
  <2>2. \A k \in Jobs : status'[k] = "running" => status[k] = "running"
                                                   \/ k = job[w]
    BY <1>1, <1>2
  <2>3. thread' = thread
    BY <1>2
  <2> QED
    <3> SUFFICES ASSUME NEW i \in Jobs, NEW k \in Jobs,
                        status'[i] = "running", status'[k] = "running",
                        thread[i] = thread[k]
                 PROVE  i = k
      BY <2>3 DEF OneRunningPerThread
    <3>1. CASE i = job[w] \/ k = job[w]
      BY <2>1, <2>2, <3>1
    <3>2. CASE i # job[w] /\ k # job[w]
      BY <2>2, <3>2 DEF OneRunningPerThread
    <3> QED
      BY <3>1, <3>2
<1> QED
  BY <1>4, <1>5, <1>6, <1>7, <1>8

\* The UPDATE of finish: nobody else owns or has locked a running row.
LEMMA FinishWriteStep ==
  ASSUME IInv, TypeOK', NEW w \in Workers, FinishWrite(w)
  PROVE  IInv'
<1> USE DEF IInv, TypeOK
<1>1. job[w] \in Jobs /\ status[job[w]] = "running" /\ Owns(w)
  BY DEF FinishWrite, OwnsItsRow, Owns, ExecutingIsRunning, Executing
<1>2. /\ status' = [status EXCEPT ![job[w]] = result[w]]
      /\ UNCHANGED <<thread, lock>>
      /\ result[w] \in Terminal
  BY DEF FinishWrite
<1>3. /\ \A v \in Workers \ {w} : pc'[v] = pc[v] /\ job'[v] = job[v]
      /\ pc'[w] = "idle" \/ (pc'[w] = "after" /\ job'[w] = job[w])
  <2>1. CASE rescuing[w]
    <3>1. /\ pc' = [pc EXCEPT ![w] = "idle"]
          /\ job' = [job EXCEPT ![w] = NoJob]
      BY <2>1 DEF FinishWrite, Drop, Goto
    <3> QED
      BY <3>1
  <2>2. CASE ~rescuing[w]
    <3>1. pc' = [pc EXCEPT ![w] = "after"] /\ job' = job
      BY <2>2 DEF FinishWrite, Goto
    <3> QED
      BY <3>1
  <2> QED
    BY <2>1, <2>2
<1>4. \A v \in Workers \ {w} :
        Owns(v) => job[v] # job[w] /\ status'[job[v]] = status[job[v]]
  BY <1>1, <1>2 DEF OwnersDiffer, OwnsItsRow
<1>5. LockedIsQueued'
  <2> SUFFICES ASSUME NEW v \in Workers, pc'[v] = "locked"
               PROVE  /\ job'[v] \in Jobs /\ lock'[job'[v]] = v
                      /\ status'[job'[v]] = "queued"
    BY DEF LockedIsQueued
  <2>1. v # w /\ pc[v] = "locked" /\ job'[v] = job[v]
    BY <1>3
  <2>2. job[v] \in Jobs /\ lock[job[v]] = v /\ status[job[v]] = "queued"
    BY <2>1 DEF LockedIsQueued
  <2> QED
    BY <1>1, <1>2, <2>1, <2>2
<1>6. OwnsItsRow'
  BY <1>1, <1>2, <1>3, <1>4 DEF OwnsItsRow, Owns
<1>7. OwnersDiffer'
  <2>1. \A v \in Workers \ {w} : Owns(v)' => Owns(v) /\ job'[v] = job[v]
    BY <1>3 DEF Owns
  <2>2. Owns(w)' => job'[w] = job[w]
    BY <1>3 DEF Owns
  <2> QED
    BY <1>1, <2>1, <2>2, ZenonT(60) DEF OwnersDiffer
<1>8. ExecutingIsRunning'
  <2> SUFFICES ASSUME NEW v \in Workers, Executing(v)'
               PROVE  status'[job'[v]] = "running"
    BY DEF ExecutingIsRunning
  <2>1. v # w /\ Executing(v) /\ Owns(v) /\ job'[v] = job[v]
    BY <1>3 DEF Executing, Owns
  <2> QED
    BY <1>4, <2>1 DEF ExecutingIsRunning
<1>9. OneRunningPerThread'
  <2>1. \A k \in Jobs : status'[k] = "running" => status[k] = "running"
    BY <1>1, <1>2, ZenonT(60) DEF Terminal
  <2> QED
    BY <1>2, <2>1 DEF OneRunningPerThread
<1> QED
  BY <1>5, <1>6, <1>7, <1>8, <1>9

\* Releasing locks of w while w goes back to the loop.
LEMMA ReleaseStep ==
  ASSUME IInv, TypeOK', NEW w \in Workers, UNCHANGED <<status, thread>>,
         \A v \in Workers \ {w} : pc'[v] = pc[v] /\ job'[v] = job[v],
         pc'[w] = "idle",
         \A j \in Jobs : lock'[j] = lock[j] \/ lock[j] = w
  PROVE  IInv'
<1> USE DEF IInv
<1>1. LockedIsQueued'
  BY DEF LockedIsQueued
<1>2. OwnsItsRow'
  BY DEF OwnsItsRow, Owns
<1>3. OwnersDiffer'
  BY DEF OwnersDiffer, Owns
<1>4. ExecutingIsRunning' /\ OneRunningPerThread'
  BY DEF ExecutingIsRunning, Executing, OneRunningPerThread
<1> QED
  BY <1>1, <1>2, <1>3, <1>4

\* The subquery of the claim: it locks a row nobody had locked.
LEMMA ClaimExamineStep ==
  ASSUME IInv, TypeOK', NEW w \in Workers, ClaimExamine(w)
  PROVE  IInv'
<1> USE DEF IInv, TypeOK
<1>1. UNCHANGED <<status, thread>> /\ pc[w] = "scan"
  BY DEF ClaimExamine, tableVars
<1>2. PICK j \in cand[w] :
        \/ /\ MayLock(j)
           /\ lock' = [lock EXCEPT ![j] = w]
           /\ job' = [job EXCEPT ![w] = j]
           /\ pc' = [pc EXCEPT ![w] = "locked"]
        \/ UNCHANGED <<lock, job, pc>>
  BY DEF ClaimExamine, Goto
<1>3. CASE UNCHANGED <<lock, job, pc>>
  BY <1>1, <1>3, LocalStep
<1>4. CASE /\ MayLock(j)
           /\ lock' = [lock EXCEPT ![j] = w]
           /\ job' = [job EXCEPT ![w] = j]
           /\ pc' = [pc EXCEPT ![w] = "locked"]
  <2>1. j \in Jobs /\ lock[j] = NoWorker /\ status[j] = "queued"
    BY <1>4 DEF MayLock
  <2>2. LockedIsQueued'
    <3> SUFFICES ASSUME NEW v \in Workers, pc'[v] = "locked"
                 PROVE  /\ job'[v] \in Jobs /\ lock'[job'[v]] = v
                        /\ status'[job'[v]] = "queued"
      BY DEF LockedIsQueued
    <3>1. CASE v = w
      BY <1>1, <1>4, <2>1, <3>1
    <3>2. CASE v # w
      <4>1. pc[v] = "locked" /\ job'[v] = job[v]
        BY <1>4, <3>2
      <4>2. job[v] \in Jobs /\ lock[job[v]] = v /\ status[job[v]] = "queued"
        BY <4>1 DEF LockedIsQueued
      <4>3. v # NoWorker
        BY SentinelAssumption
      <4>4. job[v] # j
        BY <2>1, <4>2, <4>3
      <4> QED
        BY <1>1, <1>4, <4>1, <4>2, <4>4
    <3> QED
      BY <3>1, <3>2
  <2>3. OwnsItsRow' /\ OwnersDiffer'
    <3>1. ASSUME NEW v \in Workers, Owns(v)'
          PROVE  Owns(v) /\ job'[v] = job[v]
      BY <1>4, <3>1 DEF Owns
    <3>2. OwnsItsRow'
      BY <1>1, <3>1 DEF OwnsItsRow
    <3>3. OwnersDiffer'
      BY <3>1 DEF OwnersDiffer
    <3> QED
      BY <3>2, <3>3
  <2>4. ExecutingIsRunning' /\ OneRunningPerThread'
    BY <1>1, <1>4, ZenonT(60) DEF ExecutingIsRunning, Executing, OneRunningPerThread
  <2> QED
    BY <2>2, <2>3, <2>4
<1> QED
  BY <1>2, <1>3, <1>4

-----------------------------------------------------------------------------
\* Every step preserves the inductive invariant.
LEMMA NextIInv == IInv /\ [Next]_vars => IInv'
<1> SUFFICES ASSUME IInv, [Next]_vars PROVE IInv'
  OBVIOUS
<1> USE DEF IInv
<1>0. TypeOK'
  BY TypeStep
<1>1. CASE UNCHANGED vars
  BY <1>0, <1>1, TableStep DEF vars, tableVars, workerVars
<1>2. ASSUME NEW j \in Jobs, NEW t \in Threads, NEW o \in Owners,
             Enqueue(j, t, o)
      PROVE  IInv'
  <2>1. \A k \in Jobs : \/ status'[k] = status[k] /\ thread'[k] = thread[k]
                        \/ status[k] = "none" /\ status'[k] = "queued"
    BY <1>2 DEF Enqueue, TypeOK
  <2> QED
    BY <1>0, <1>2, <2>1, TableStep DEF Enqueue, workerVars
<1>3. ASSUME NEW w \in Workers, WorkerStep(w) PROVE IInv'
  <2> DEFINE OthersStay == \A v \in Workers \ {w} :
                             pc'[v] = pc[v] /\ job'[v] = job[v]
  <2>1. CASE ClaimBegin(w)
    BY <1>0, <2>1, LocalStep, ZenonT(60) DEF ClaimBegin, Goto, tableVars, TypeOK
  <2>2. CASE ClaimExamine(w)
    BY <1>0, <2>2, ClaimExamineStep
  <2>3. CASE ClaimNothing(w)
    BY <1>0, <2>3, LocalStep, ZenonT(60) DEF ClaimNothing, Goto, tableVars, TypeOK
  <2>4. CASE ClaimUpdate(w)
    BY <1>0, <2>4, ClaimUpdateStep
  <2>5. CASE ClaimConflict(w)
    <3>1. /\ OthersStay /\ pc'[w] = "idle" /\ UNCHANGED <<status, thread>>
      BY <2>5 DEF ClaimConflict, Goto, tableVars, TypeOK
    <3>2. \A j \in Jobs : lock'[j] = lock[j] \/ lock[j] = w
      BY <2>5 DEF ClaimConflict, LockedIsQueued, TypeOK
    <3> QED
      BY <1>0, <3>1, <3>2, ReleaseStep
  <2>6. CASE ClaimSelect(w)
    <3>1. Owns(w) /\ Executing(w)
      BY <2>6 DEF ClaimSelect, Owns, Executing
    <3>2. pc' = [pc EXCEPT ![w] = "await"] /\ UNCHANGED <<status, thread, lock, job>>
      BY <2>6 DEF ClaimSelect, Goto, tableVars
    <3> QED
      BY <1>0, <3>1, <3>2, AdvanceStep DEF Labels
  <2>7. CASE RuntimeMissing(w)
    BY <1>0, <2>7, LocalStep, ZenonT(60) DEF RuntimeMissing, Drop, Goto, tableVars, TypeOK
  <2>8. CASE StartRun(w)
    <3>1. Owns(w) /\ Executing(w)
      BY <2>8 DEF StartRun, Owns, Executing
    <3>2. pc' = [pc EXCEPT ![w] = "run"] /\ UNCHANGED <<status, thread, lock, job>>
      BY <2>8 DEF StartRun, Goto, tableVars
    <3> QED
      BY <1>0, <3>1, <3>2, AdvanceStep DEF Labels
  <2>9. ASSUME NEW s \in Terminal, RunEnds(w, s) PROVE IInv'
    <3>1. Owns(w) /\ Executing(w)
      BY <2>9 DEF RunEnds, Owns, Executing
    <3>2. pc' = [pc EXCEPT ![w] = "finish"] /\ UNCHANGED <<status, thread, lock, job>>
      BY <2>9 DEF RunEnds, Goto, tableVars
    <3> QED
      BY <1>0, <3>1, <3>2, AdvanceStep DEF Labels
  <2>10. CASE FinishRead(w)
    <3>1. Owns(w) /\ Executing(w)
      BY <2>10 DEF FinishRead, Owns, Executing
    <3>2. pc' = [pc EXCEPT ![w] = "write"] /\ UNCHANGED <<status, thread, lock, job>>
      BY <2>10 DEF FinishRead, Goto, tableVars
    <3> QED
      BY <1>0, <3>1, <3>2, AdvanceStep DEF Labels
  <2>11. CASE FinishWrite(w)
    BY <1>0, <2>11, FinishWriteStep
  <2>12. CASE Return(w)
    BY <1>0, <2>12, LocalStep, ZenonT(60) DEF Return, Drop, Goto, tableVars, TypeOK
  <2>13. CASE Rescue(w)
    <3>1. UNCHANGED <<status, thread, lock>>
      BY <2>13 DEF Rescue, tableVars
    <3>2. CASE status[job[w]] = "running"
      <4>1. pc' = [pc EXCEPT ![w] = "finish"] /\ job' = job
        BY <2>13, <3>2 DEF Rescue, Goto
      <4>2. Owns(w) /\ Owns(w)'
        BY <2>13, <4>1 DEF Rescue, Owns, TypeOK
      <4> QED
        BY <1>0, <3>1, <3>2, <4>1, <4>2, LocalStep DEF TypeOK
    <3>3. CASE status[job[w]] # "running"
      <4>1. /\ pc' = [pc EXCEPT ![w] = "idle"]
            /\ job' = [job EXCEPT ![w] = NoJob]
        BY <2>13, <3>3 DEF Rescue, Drop, Goto
      <4> QED
        BY <1>0, <3>1, <4>1, LocalStep DEF TypeOK
    <3> QED
      BY <3>2, <3>3
  <2> QED
    BY <1>3, <2>1, <2>2, <2>3, <2>4, <2>5, <2>6, <2>7, <2>8, <2>9, <2>10,
       <2>11, <2>12, <2>13 DEF WorkerStep
<1>4. ASSUME NEW w \in Workers, RuntimeLoaded(w) PROVE IInv'
  BY <1>0, <1>4, LocalStep DEF RuntimeLoaded, tableVars
<1>5. ASSUME NEW w \in Workers, WorkerFault(w) PROVE IInv'
  <2>1. CASE RunThrows(w)
    <3>1. Owns(w)
      BY <2>1 DEF RunThrows, Owns
    <3>2. pc' = [pc EXCEPT ![w] = "catch"] /\ UNCHANGED <<status, thread, lock, job>>
      BY <2>1 DEF RunThrows, Goto, tableVars
    <3> QED
      BY <1>0, <3>1, <3>2, AdvanceStep DEF Labels
  <2>2. CASE ReturnThrows(w)
    <3>1. Owns(w)
      BY <2>2 DEF ReturnThrows, Owns
    <3>2. pc' = [pc EXCEPT ![w] = "catch"] /\ UNCHANGED <<status, thread, lock, job>>
      BY <2>2 DEF ReturnThrows, Goto, tableVars
    <3> QED
      BY <1>0, <3>1, <3>2, AdvanceStep DEF Labels
  <2>3. CASE RuntimeLoadFails(w)
    BY <1>0, <2>3, LocalStep DEF RuntimeLoadFails, tableVars
  <2>4. CASE StatementThrows(w)
    <3>1. UNCHANGED <<status, thread, lock>>
      BY <2>4 DEF StatementThrows, tableVars
    <3>2. CASE Drop(w)
      BY <1>0, <3>1, <3>2, LocalStep DEF Drop, Goto, TypeOK
    <3>3. CASE /\ pc[w] \in {"finish", "write"}
               /\ pc' = [pc EXCEPT ![w] = "catch"]
               /\ job' = job
      BY <1>0, <3>1, <3>3, LocalStep, ZenonT(60) DEF Owns, Executing, TypeOK
    <3> QED
      BY <2>4, <3>2, <3>3 DEF StatementThrows, Goto
  <2>5. CASE Crash(w)
    <3>1. /\ \A v \in Workers \ {w} : pc'[v] = pc[v] /\ job'[v] = job[v]
          /\ pc'[w] = "idle" /\ UNCHANGED <<status, thread>>
      BY <2>5 DEF Crash, Drop, Goto, tableVars, TypeOK
    <3>2. \A j \in Jobs : lock'[j] = lock[j] \/ lock[j] = w
      BY <2>5 DEF Crash
    <3> QED
      BY <1>0, <3>1, <3>2, ReleaseStep
  <2> QED
    BY <1>5, <2>1, <2>2, <2>3, <2>4, <2>5 DEF WorkerFault
<1>6. ASSUME NEW o \in Owners, MarkRead(o) PROVE IInv'
  BY <1>0, <1>6, TableStep DEF MarkRead, tableVars, workerVars
<1>7. ASSUME NEW o \in Owners, NEW j \in Jobs, MarkWrite(o, j) PROVE IInv'
  BY <1>0, <1>7, TableStep DEF MarkWrite, workerVars
<1> QED
  BY <1>1, <1>2, <1>3, <1>4, <1>5, <1>6, <1>7 DEF Next

\* The inductive invariant holds in every behaviour.
THEOREM Invariance == Spec => []IInv
  BY InitIInv, NextIInv, PTL DEF Spec

-----------------------------------------------------------------------------
(***************************************************************************)
(* Every value the jobs table and the workers take has its type.           *)
(***************************************************************************)
THEOREM TypeCorrect == Spec => []TypeOK
  BY Invariance, PTL DEF IInv

(***************************************************************************)
(* Two workers are never inside runs of one thread, nor inside one job,    *)
(* whatever crashes, throws or is marked (store.ts:5).                     *)
(***************************************************************************)
THEOREM ThreadsAreExclusive == Spec => []ThreadExclusion
<1>1. IInv => ThreadExclusion
  <2> SUFFICES ASSUME IInv, NEW v \in Workers, NEW w \in Workers, v # w,
                      Executing(v), Executing(w)
               PROVE  thread[job[v]] # thread[job[w]]
    BY DEF ThreadExclusion
  <2>1. job[v] \in Jobs /\ job[w] \in Jobs /\ job[v] # job[w]
    BY DEF IInv, OwnsItsRow, OwnersDiffer, Owns, Executing
  <2>2. status[job[v]] = "running" /\ status[job[w]] = "running"
    BY DEF IInv, ExecutingIsRunning
  <2> QED
    BY <2>1, <2>2 DEF IInv, OneRunningPerThread
<1> QED
  BY <1>1, Invariance, PTL

(***************************************************************************)
(* The row of an executing job says running: no other process finishes or  *)
(* requeues it under its worker.                                           *)
(***************************************************************************)
THEOREM ExecutingJobsRun == Spec => []ExecutingIsRunning
  BY Invariance, PTL DEF IInv

-----------------------------------------------------------------------------
\* Only the insert, the claim's UPDATE and finish's UPDATE change a status.
LEMMA StatusSteps ==
  ASSUME [Next]_vars
  PROVE  \/ UNCHANGED <<status, thread>>
         \/ \E j \in Jobs, t \in Threads, o \in Owners : Enqueue(j, t, o)
         \/ \E w \in Workers : ClaimUpdate(w) \/ FinishWrite(w)
<1>1. CASE UNCHANGED vars
  BY <1>1 DEF vars, tableVars
<1>2. ASSUME NEW w \in Workers, WorkerStep(w)
      PROVE  UNCHANGED <<status, thread>> \/ ClaimUpdate(w) \/ FinishWrite(w)
  BY <1>2 DEF WorkerStep, ClaimBegin, ClaimExamine, ClaimNothing,
              ClaimConflict, ClaimSelect, RuntimeMissing, StartRun, RunEnds,
              FinishRead, Return, Rescue, tableVars
<1>3. ASSUME NEW w \in Workers, RuntimeLoaded(w) \/ WorkerFault(w)
      PROVE  UNCHANGED <<status, thread>>
  BY <1>3 DEF RuntimeLoaded, WorkerFault, RunThrows, ReturnThrows,
              RuntimeLoadFails, StatementThrows, Crash, tableVars
<1>4. ASSUME NEW o \in Owners, MarkRead(o) \/ \E j \in Jobs : MarkWrite(o, j)
      PROVE  UNCHANGED <<status, thread>>
  BY <1>4 DEF MarkRead, MarkWrite, tableVars
<1> QED
  BY <1>1, <1>2, <1>3, <1>4 DEF Next

\* One step of JobQueue is one step of ThreadQueue, or none.
LEMMA PromiseStep == IInv /\ [Next]_vars => [TQ!Next]_TQ!vars
<1> SUFFICES ASSUME IInv, [Next]_vars PROVE [TQ!Next]_TQ!vars
  OBVIOUS
<1>1. CASE UNCHANGED <<status, thread>>
  BY <1>1 DEF TQ!vars
<1>2. ASSUME NEW j \in Jobs, NEW t \in Threads, NEW o \in Owners,
             Enqueue(j, t, o)
      PROVE  TQ!Next
  BY <1>2 DEF Enqueue, TQ!Next, TQ!Add
<1>3. ASSUME NEW w \in Workers, ClaimUpdate(w) PROVE TQ!Next
  <2>1. job[w] \in Jobs /\ status[job[w]] = "queued"
    BY <1>3 DEF IInv, ClaimUpdate, LockedIsQueued
  <2>2. ~TQ!Busy(thread[job[w]])
    BY <1>3, <2>1 DEF ClaimUpdate, IndexAdmits, RunningOn, TQ!Busy
  <2>3. TQ!Start(job[w])
    BY <1>3, <2>1, <2>2 DEF ClaimUpdate, TQ!Start
  <2> QED
    BY <2>1, <2>3 DEF TQ!Next
<1>4. ASSUME NEW w \in Workers, FinishWrite(w) PROVE TQ!Next
  <2>1. job[w] \in Jobs /\ status[job[w]] = "running"
    BY <1>4 DEF IInv, FinishWrite, OwnsItsRow, Owns, ExecutingIsRunning,
                Executing
  <2>2. result[w] \in TQ!Finished
    BY DEF IInv, TypeOK, Terminal, TQ!Finished
  <2>3. TQ!End(job[w], result[w])
    BY <1>4, <2>1 DEF FinishWrite, TQ!End
  <2> QED
    BY <2>1, <2>2, <2>3 DEF TQ!Next
<1> QED
  BY <1>1, <1>2, <1>3, <1>4, StatusSteps

(***************************************************************************)
(* The invariant the runs check, whatever the number of workers and jobs.  *)
(***************************************************************************)
THEOREM WorkersAreAlone == Spec => []OneWorkerPerThread
  BY TypeCorrect, ThreadsAreExclusive, ExecutingJobsRun, PTL DEF OneWorkerPerThread

(***************************************************************************)
(* The table and its workers implement the abstract queue.                 *)
(***************************************************************************)
THEOREM QueueIsKept == Spec => QueuePromise
<1>1. Init => TQ!Init
  BY DEF Init, TQ!Init, NoThread, TQ!NoThread
<1> QED
  BY <1>1, PromiseStep, Invariance, PTL DEF Spec, QueuePromise, TQ!Spec

(***************************************************************************)
(* No step gives a finished job another status.                            *)
(***************************************************************************)
THEOREM FinishedStaysFinished == Spec => FinishedIsFinal
<1>1. IInv /\ [Next]_vars
      => [\A j \in Jobs : status[j] \in Terminal => status'[j] = status[j]]_vars
  <2> SUFFICES ASSUME IInv, [Next]_vars, NEW j \in Jobs,
                      status[j] \in Terminal
               PROVE  status'[j] = status[j]
    OBVIOUS
  <2>1. ASSUME NEW k \in Jobs, NEW t \in Threads, NEW o \in Owners,
               Enqueue(k, t, o)
        PROVE  status'[j] = status[j]
    BY <2>1 DEF IInv, TypeOK, Enqueue, Terminal
  <2>2. ASSUME NEW w \in Workers, ClaimUpdate(w)
        PROVE  status'[j] = status[j]
    <3>1. job[w] \in Jobs /\ status[job[w]] = "queued"
      BY <2>2 DEF IInv, ClaimUpdate, LockedIsQueued
    <3> QED
      BY <2>2, <3>1 DEF IInv, TypeOK, ClaimUpdate, Terminal
  <2>3. ASSUME NEW w \in Workers, FinishWrite(w)
        PROVE  status'[j] = status[j]
    <3>1. status[job[w]] = "running"
      BY <2>3 DEF IInv, FinishWrite, ExecutingIsRunning, Executing
    <3> QED
      BY <2>3, <3>1 DEF IInv, TypeOK, FinishWrite, Terminal
  <2> QED
    BY <2>1, <2>2, <2>3, StatusSteps
<1> QED
  BY <1>1, Invariance, PTL DEF Spec, FinishedIsFinal


-----------------------------------------------------------------------------
\* What markNeedsYou is about to write of has run.
MarkedHasRun ==
  \A o \in Owners : \A j \in marking[o] : status[j] \in {"running"} \cup Terminal

ShownInv == IInv /\ MarkedHasRun /\ OwnerIsNotMisled

\* Only five statements write a row or choose which rows to write.
LEMMA OutcomeSteps ==
  ASSUME [Next]_vars
  PROVE  \/ UNCHANGED <<status, outcome, marking>>
         \/ \E j \in Jobs, t \in Threads, o \in Owners : Enqueue(j, t, o)
         \/ \E w \in Workers : ClaimUpdate(w) \/ FinishWrite(w)
         \/ \E o \in Owners : MarkRead(o) \/ \E j \in Jobs : MarkWrite(o, j)
<1>1. CASE UNCHANGED vars
  BY <1>1 DEF vars, tableVars
<1>2. ASSUME NEW w \in Workers, WorkerStep(w)
      PROVE  UNCHANGED <<status, outcome, marking>> \/ ClaimUpdate(w) \/ FinishWrite(w)
  BY <1>2 DEF WorkerStep, ClaimBegin, ClaimExamine, ClaimNothing,
              ClaimConflict, ClaimSelect, RuntimeMissing, StartRun, RunEnds,
              FinishRead, Return, Rescue, tableVars
<1>3. ASSUME NEW w \in Workers, RuntimeLoaded(w) \/ WorkerFault(w)
      PROVE  UNCHANGED <<status, outcome, marking>>
  BY <1>3 DEF RuntimeLoaded, WorkerFault, RunThrows, ReturnThrows,
              RuntimeLoadFails, StatementThrows, Crash, tableVars
<1> QED
  BY <1>1, <1>2, <1>3 DEF Next

\* What an outcome shows of each status.
LEMMA ShownAsBuilt ==
  /\ BuildOutcome("queued", FALSE).shown = "Active"
  /\ BuildOutcome("running", TRUE).shown = "Needs you"
  /\ \A f \in BOOLEAN : /\ BuildOutcome("failed", f).shown = "Needs you"
                        /\ BuildOutcome("succeeded", f).shown \in {"Needs you", "Done"}
  BY DEF BuildOutcome, OwnerStatusFor, Terminal

\* No step makes an owner read what the row does not say.
LEMMA ShownStays == ShownInv /\ [Next]_vars => ShownInv'
<1> SUFFICES ASSUME ShownInv, [Next]_vars PROVE ShownInv'
  OBVIOUS
<1>a. IInv' /\ TypeOK /\ TypeOK'
  BY NextIInv DEF ShownInv, IInv
<1>b. /\ \A o \in Owners : \A j \in marking[o] : status[j] \in {"running"} \cup Terminal
      /\ \A j \in Jobs : /\ outcome[j].shown = "Done" => status[j] = "succeeded"
                         /\ status[j] = "failed" => outcome[j].shown = "Needs you"
                         /\ status[j] = "queued" => outcome[j].shown = "Active"
                         /\ outcome[j].shown = "Active" => status[j] \notin Terminal
  BY DEF ShownInv, MarkedHasRun, OwnerIsNotMisled
<1>c. /\ status \in [Jobs -> Statuses] /\ DOMAIN outcome = Jobs
      /\ marking \in [Owners -> SUBSET Jobs] /\ result \in [Workers -> Terminal]
      /\ sawFlag \in [Workers -> BOOLEAN]
  BY <1>a DEF TypeOK
<1>1. CASE UNCHANGED <<status, outcome, marking>>
  BY <1>1, <1>a DEF ShownInv, MarkedHasRun, OwnerIsNotMisled
<1>2. ASSUME NEW j \in Jobs, NEW t \in Threads, NEW o \in Owners, Enqueue(j, t, o)
      PROVE  ShownInv'
  <2>1. /\ status[j] = "none" /\ marking' = marking
        /\ status' = [status EXCEPT ![j] = "queued"]
        /\ outcome' = [outcome EXCEPT ![j] = BuildOutcome("queued", FALSE)]
    BY <1>2 DEF Enqueue
  <2>2. MarkedHasRun'
    BY <1>b, <1>c, <2>1 DEF MarkedHasRun, Terminal
  <2>3. OwnerIsNotMisled'
    BY <1>b, <1>c, <2>1, ShownAsBuilt DEF OwnerIsNotMisled, Terminal
  <2> QED
    BY <1>a, <2>2, <2>3 DEF ShownInv
<1>3. ASSUME NEW w \in Workers, ClaimUpdate(w)
      PROVE  ShownInv'
  <2>1. /\ job[w] \in Jobs /\ status[job[w]] = "queued" /\ UNCHANGED <<outcome, marking>>
        /\ status' = [status EXCEPT ![job[w]] = "running"]
    BY <1>3 DEF ClaimUpdate, ShownInv, IInv, LockedIsQueued
  <2>2. MarkedHasRun'
    BY <1>b, <1>c, <2>1 DEF MarkedHasRun, Terminal
  <2>3. OwnerIsNotMisled'
    BY <1>b, <1>c, <2>1 DEF OwnerIsNotMisled, Terminal
  <2> QED
    BY <1>a, <2>2, <2>3 DEF ShownInv
<1>4. ASSUME NEW w \in Workers, FinishWrite(w)
      PROVE  ShownInv'
  <2>1. /\ job[w] \in Jobs /\ marking' = marking /\ result[w] \in {"succeeded", "failed"}
        /\ sawFlag[w] \in BOOLEAN /\ status' = [status EXCEPT ![job[w]] = result[w]]
        /\ outcome' = [outcome EXCEPT ![job[w]] = BuildOutcome(result[w], sawFlag[w])]
    BY <1>4, <1>c DEF FinishWrite, ShownInv, IInv, OwnsItsRow, Owns, Terminal
  <2>2. MarkedHasRun'
    BY <1>b, <1>c, <2>1 DEF MarkedHasRun, Terminal
  <2>3. /\ status'[job[w]] = result[w]
        /\ outcome'[job[w]] = BuildOutcome(result[w], sawFlag[w])
        /\ \A k \in Jobs \ {job[w]} : status'[k] = status[k] /\ outcome'[k] = outcome[k]
    BY <1>c, <2>1
  <2>4. OwnerIsNotMisled'
    <3>1. \/ result[w] = "failed" /\ outcome'[job[w]].shown = "Needs you"
          \/ result[w] = "succeeded" /\ outcome'[job[w]].shown \in {"Needs you", "Done"}
      BY <2>1, <2>3, ShownAsBuilt, ZenonT(60)
    <3>2. \A k \in Jobs :
            /\ outcome'[k].shown = "Done" => status'[k] = "succeeded"
            /\ status'[k] = "failed" => outcome'[k].shown = "Needs you"
            /\ status'[k] = "queued" => outcome'[k].shown = "Active"
            /\ outcome'[k].shown = "Active" => status'[k] \notin Terminal
      BY <1>b, <2>3, <3>1
    <3> QED
      BY <3>2 DEF OwnerIsNotMisled
  <2> QED
    BY <1>a, <2>2, <2>4 DEF ShownInv
<1>5. ASSUME NEW o \in Owners, MarkRead(o)
      PROVE  ShownInv'
  <2>1. /\ marking' = [marking EXCEPT ![o] = {j \in Jobs : status[j] = "running"
                                              /\ owner[j] = o}]
        /\ UNCHANGED <<status, outcome>>
    BY <1>5 DEF MarkRead, tableVars
  <2>2. MarkedHasRun'
    BY <1>b, <1>c, <2>1 DEF MarkedHasRun
  <2> QED
    BY <1>a, <1>b, <2>1, <2>2 DEF ShownInv, OwnerIsNotMisled
<1>6. ASSUME NEW o \in Owners, NEW j \in Jobs, MarkWrite(o, j)
      PROVE  ShownInv'
  <2>1. /\ j \in marking[o] /\ marking' = [marking EXCEPT ![o] = @ \ {j}] /\ status' = status
        /\ outcome' = [outcome EXCEPT ![j] = BuildOutcome("running", TRUE)]
    BY <1>6 DEF MarkWrite
  <2>2. MarkedHasRun'
    BY <1>b, <1>c, <2>1 DEF MarkedHasRun
  <2>3. status[j] \in {"running"} \cup Terminal
    BY <1>b, <2>1
  <2>4. OwnerIsNotMisled'
    BY <1>b, <1>c, <2>1, <2>3, ShownAsBuilt DEF OwnerIsNotMisled, Terminal
  <2> QED
    BY <1>a, <2>2, <2>4 DEF ShownInv
<1> QED
  BY <1>1, <1>2, <1>3, <1>4, <1>5, <1>6, OutcomeSteps

(***************************************************************************)
(* However finish and markNeedsYou fall together, an owner reads Done only *)
(* of a job that succeeded, Needs you of every failed one, and Active of   *)
(* every one that waits and of none that is over (store.ts, outcome.ts).   *)
(***************************************************************************)
THEOREM OwnersAreNotMisled == Spec => []OwnerIsNotMisled
<1>1. ASSUME Init
      PROVE  ShownInv
  <2>1. \A j \in Jobs : status[j] = "none" /\ outcome[j] = BuildOutcome("queued", FALSE)
    BY <1>1 DEF Init
  <2>2. OwnerIsNotMisled
    BY <2>1, ShownAsBuilt DEF OwnerIsNotMisled, Terminal
  <2>3. MarkedHasRun
    BY <1>1 DEF Init, MarkedHasRun
  <2> QED
    BY <1>1, <2>2, <2>3, InitIInv DEF ShownInv
<1> QED
  BY <1>1, ShownStays, PTL DEF Spec, ShownInv
=============================================================================
