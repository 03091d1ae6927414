------------------------------ MODULE JobQueue ------------------------------
(***************************************************************************)
(* The jobs table and the worker processes that drain it                   *)
(* (server/src/jobs/store.ts, claim-loop.ts, and processJob of             *)
(* bootstrap.ts).                                                          *)
(*                                                                         *)
(* Every SQL statement is one step or, for the claim, three: the snapshot  *)
(* READ COMMITTED takes at its start, the subquery that walks the snapshot *)
(* and locks a row, and the UPDATE that meets the partial unique index.    *)
(* Between any two awaits of a worker anything else may happen, a crash of *)
(* that worker included.  The run itself is one step with an arbitrary     *)
(* result.  markNeedsYou is called by tools of a run and by the tools of   *)
(* an interactive turn in another process: it is a process of its own.     *)
(***************************************************************************)
EXTENDS Naturals

CONSTANTS Workers,   \* worker processes
          MaxJobs,   \* bound: rows inserted
          Threads,   \* Intelligence threads
          Owners,    \* <<org, coworker, acting user>> triples
          MaxCrashes,   \* bound: worker deaths
          MaxDbErrors,  \* bound: statements of a worker that throw
          MaxLoadErrors,\* bound: failed imports of the coworker graph
          MaxMarks      \* bound: markNeedsYou calls

ASSUME MaxJobsAssumption == MaxJobs \in Nat

\* created_at order is the order of the numbers.
Jobs == 1..MaxJobs

NoThread == "no thread"
NoOwner == "no owner"
NoWorker == "nobody"
NoJob == 0

ASSUME SentinelAssumption == /\ NoWorker \notin Workers
                             /\ NoThread \notin Threads

Terminal == {"succeeded", "failed"}
Statuses == {"none", "queued", "running"} \cup Terminal

VARIABLES
  \* The jobs table.
  status,   \* status[j]; "none" before the row exists
  thread,   \* thread_id
  owner,    \* org_id, coworker_id and acting_user_id
  needsYou, \* needs_you
  outcome,  \* the owner-facing status and the jobStatus of the outcome column
  lock,     \* lock[j]: the worker whose open statement holds the row lock
  \* The workers.
  pc,       \* where worker w is in its loop
  job,      \* the job it holds
  cand,     \* rows of its claim's snapshot it has not examined yet
  runtime,  \* its coworker graph: "none", "loading", "ready" or "broken"
  result,   \* what it is about to finish the job with
  sawFlag,  \* needs_you as finish() read it
  rescuing, \* whether finish() was called by the catch of processJob
  \* markNeedsYou: the rows each open call has still to write.
  marking,
  faults    \* counters of the bounded events

FaultKinds == {"crash", "db", "load", "mark"}

tableVars == <<status, thread, owner, needsYou, outcome>>
workerVars == <<pc, job, cand, runtime, result, sawFlag, rescuing>>
vars == <<tableVars, lock, workerVars, marking, faults>>

(***************************************************************************)
(* outcome.ts: ownerStatusFor, and the two fields of buildJobOutcome a     *)
(* reader of the row can tell apart.                                       *)
(***************************************************************************)
OwnerStatusFor_WorkerEnum(s, flag) == IF flag THEN "Needs you" ELSE s

OwnerStatusFor_FailedIsActive(s, flag) ==
  IF flag THEN "Needs you" ELSE IF s = "succeeded" THEN "Done" ELSE "Active"

OwnerStatusFor(s, flag) ==
  IF flag \/ s = "failed" THEN "Needs you"
  ELSE IF s = "succeeded" THEN "Done" ELSE "Active"

BuildOutcome(s, flag) ==
  [shown |-> OwnerStatusFor(s, flag),
   jobStatus |-> IF s \in Terminal THEN s ELSE "none"]

RunningOn(t) == {j \in Jobs : status[j] = "running" /\ thread[j] = t}

Init ==
  /\ status = [j \in Jobs |-> "none"]
  /\ thread = [j \in Jobs |-> NoThread]
  /\ owner = [j \in Jobs |-> NoOwner]
  /\ needsYou = [j \in Jobs |-> FALSE]
  /\ outcome = [j \in Jobs |-> BuildOutcome("queued", FALSE)]
  /\ lock = [j \in Jobs |-> NoWorker]
  /\ pc = [w \in Workers |-> "idle"]
  /\ job = [w \in Workers |-> NoJob]
  /\ cand = [w \in Workers |-> {}]
  /\ runtime = [w \in Workers |-> "none"]
  /\ result = [w \in Workers |-> "failed"]
  /\ sawFlag = [w \in Workers |-> FALSE]
  /\ rescuing = [w \in Workers |-> FALSE]
  /\ marking = [o \in Owners |-> {}]
  /\ faults = [k \in FaultKinds |-> 0]

Count(kind, bound) == /\ faults[kind] < bound
                      /\ faults' = [faults EXCEPT ![kind] = @ + 1]

Goto(w, label) == pc' = [pc EXCEPT ![w] = label]

(***************************************************************************)
(* enqueue: insert a queued row.  Rows are inserted in created_at order.   *)
(***************************************************************************)
Enqueue(j, t, o) ==
  /\ status[j] = "none"
  /\ \A k \in 1..(j - 1) : status[k] # "none"
  /\ status' = [status EXCEPT ![j] = "queued"]
  /\ thread' = [thread EXCEPT ![j] = t]
  /\ owner' = [owner EXCEPT ![j] = o]
  /\ outcome' = [outcome EXCEPT ![j] = BuildOutcome("queued", FALSE)]
  /\ UNCHANGED <<needsYou, lock, workerVars, marking, faults>>

(***************************************************************************)
(* claim.  The statement sees the table as it was when it started: the     *)
(* queued rows whose thread had nothing running.                           *)
(***************************************************************************)
ClaimBegin(w) ==
  /\ pc[w] = "idle"
  /\ cand' = [cand EXCEPT ![w] =
       {j \in Jobs : status[j] = "queued" /\ RunningOn(thread[j]) = {}}]
  /\ Goto(w, "scan")
  /\ UNCHANGED <<tableVars, lock, job, runtime, result, sawFlag, rescuing,
                 marking, faults>>

\* FOR UPDATE SKIP LOCKED: a locked row is skipped, and a row changed since
\* the snapshot is checked again on its newest version.
MayLock_NoRowLock(j) == status[j] = "queued"
MayLock_NoRecheck(j) == lock[j] = NoWorker

MayLock(j) == lock[j] = NoWorker /\ status[j] = "queued"

\* ORDER BY created_at: the oldest row not examined yet.
ClaimExamine(w) ==
  /\ pc[w] = "scan"
  /\ \E j \in cand[w] :
       /\ \A k \in cand[w] : j <= k
       /\ \/ /\ MayLock(j)
             /\ lock' = [lock EXCEPT ![j] = w]
             /\ job' = [job EXCEPT ![w] = j]
             /\ cand' = [cand EXCEPT ![w] = {}]
             /\ Goto(w, "locked")
          \/ /\ ~MayLock(j)
             /\ cand' = [cand EXCEPT ![w] = @ \ {j}]
             /\ UNCHANGED <<lock, job, pc>>
  /\ UNCHANGED <<tableVars, runtime, result, sawFlag, rescuing, marking,
                 faults>>

\* ensureRuntime: the first caller starts the import, later ones share it.
EnsureRuntime(w) == runtime' = [runtime EXCEPT ![w] = IF @ = "none"
                                                      THEN "loading" ELSE @]

\* No row was left to lock: claim returns null and the loop goes on.
ClaimNothing(w) ==
  /\ pc[w] = "scan"
  /\ cand[w] = {}
  /\ EnsureRuntime(w)
  /\ Goto(w, "idle")
  /\ UNCHANGED <<tableVars, lock, job, cand, result, sawFlag, rescuing,
                 marking, faults>>

\* jobs_one_running_per_thread: at most one running row for each thread.
IndexAdmits_NoIndex(j) == TRUE

IndexAdmits(j) == RunningOn(thread[j]) \subseteq {j}

\* The UPDATE commits and releases the row.
ClaimUpdate(w) ==
  /\ pc[w] = "locked"
  /\ IndexAdmits(job[w])
  /\ status' = [status EXCEPT ![job[w]] = "running"]
  /\ lock' = [lock EXCEPT ![job[w]] = NoWorker]
  /\ Goto(w, "claimed")
  /\ UNCHANGED <<thread, owner, needsYou, outcome, job, cand, runtime, result,
                 sawFlag, rescuing, marking, faults>>

\* The unique index refuses it: the statement throws, the loop logs and polls.
ClaimConflict(w) ==
  /\ pc[w] = "locked"
  /\ ~IndexAdmits(job[w])
  /\ lock' = [lock EXCEPT ![job[w]] = NoWorker]
  /\ job' = [job EXCEPT ![w] = NoJob]
  /\ Goto(w, "idle")
  /\ UNCHANGED <<tableVars, cand, runtime, result, sawFlag, rescuing, marking,
                 faults>>

\* The second statement of claim reads the committed row; the loop then waits
\* for the coworker graph.
ClaimSelect(w) ==
  /\ pc[w] = "claimed"
  /\ EnsureRuntime(w)
  /\ Goto(w, "await")
  /\ UNCHANGED <<tableVars, lock, job, cand, result, sawFlag, rescuing,
                 marking, faults>>

RuntimeLoaded(w) ==
  /\ runtime[w] = "loading"
  /\ runtime' = [runtime EXCEPT ![w] = "ready"]
  /\ UNCHANGED <<tableVars, lock, pc, job, cand, result, sawFlag, rescuing,
                 marking, faults>>

\* The rejected promise stays in runtimeReady.
RuntimeLoadFails(w) ==
  /\ runtime[w] = "loading"
  /\ Count("load", MaxLoadErrors)
  /\ runtime' = [runtime EXCEPT ![w] = "broken"]
  /\ UNCHANGED <<tableVars, lock, pc, job, cand, result, sawFlag, rescuing,
                 marking>>

\* The loop forgets the job: it polls again with nothing in hand.
Drop(w) == /\ job' = [job EXCEPT ![w] = NoJob]
           /\ rescuing' = [rescuing EXCEPT ![w] = FALSE]
           /\ Goto(w, "idle")

\* Awaiting a rejected promise throws out of the iteration, past processJob.
RuntimeMissing(w) ==
  /\ pc[w] = "await"
  /\ runtime[w] = "broken"
  /\ Drop(w)
  /\ UNCHANGED <<tableVars, lock, cand, runtime, result, sawFlag, marking,
                 faults>>

(***************************************************************************)
(* processJob and executeJob.  StartRun enters the run, RunEnds returns    *)
(* from it (refusals are finished as failed), RunThrows is any throw of    *)
(* executeJob before finish.                                               *)
(***************************************************************************)
StartRun(w) ==
  /\ pc[w] = "await"
  /\ runtime[w] = "ready"
  /\ Goto(w, "run")
  /\ UNCHANGED <<tableVars, lock, job, cand, runtime, result, sawFlag,
                 rescuing, marking, faults>>

RunEnds_SkipsFinish(w, s) ==
  /\ pc[w] = "run"
  /\ result' = [result EXCEPT ![w] = s]
  /\ Goto(w, IF s = "failed" THEN "after" ELSE "finish")
  /\ UNCHANGED <<tableVars, lock, job, cand, runtime, sawFlag, rescuing,
                 marking, faults>>

RunEnds(w, s) ==
  /\ pc[w] = "run"
  /\ result' = [result EXCEPT ![w] = s]
  /\ Goto(w, "finish")
  /\ UNCHANGED <<tableVars, lock, job, cand, runtime, sawFlag, rescuing,
                 marking, faults>>

RunThrows(w) ==
  /\ pc[w] = "run"
  /\ Goto(w, "catch")
  /\ UNCHANGED <<tableVars, lock, job, cand, runtime, result, sawFlag,
                 rescuing, marking, faults>>

\* finish: SELECT, then UPDATE by id with an outcome built from the SELECT.
FinishRead(w) ==
  /\ pc[w] = "finish"
  /\ sawFlag' = [sawFlag EXCEPT ![w] = needsYou[job[w]]]
  /\ Goto(w, "write")
  /\ UNCHANGED <<tableVars, lock, job, cand, runtime, result, rescuing,
                 marking, faults>>

FinishWrite(w) ==
  /\ pc[w] = "write"
  /\ status' = [status EXCEPT ![job[w]] = result[w]]
  /\ outcome' = [outcome EXCEPT ![job[w]] =
                   BuildOutcome(result[w], sawFlag[w])]
  /\ IF rescuing[w] THEN Drop(w)
     ELSE Goto(w, "after") /\ UNCHANGED <<job, rescuing>>
  /\ UNCHANGED <<thread, owner, needsYou, lock, cand, runtime, result,
                 sawFlag, marking, faults>>

\* Audit row and recordUnknownOutcomeIfAbsent, then processJob returns.
Return(w) ==
  /\ pc[w] = "after"
  /\ Drop(w)
  /\ UNCHANGED <<tableVars, lock, cand, runtime, result, sawFlag, marking,
                 faults>>

\* recordUnknownOutcomeIfAbsent throws after the job was finished.
ReturnThrows(w) ==
  /\ pc[w] = "after"
  /\ Goto(w, "catch")
  /\ UNCHANGED <<tableVars, lock, job, cand, runtime, result, sawFlag,
                 rescuing, marking, faults>>

\* The catch of processJob: finish as failed only a row that still runs.
Rescue_Always(w) ==
  /\ pc[w] = "catch"
  /\ rescuing' = [rescuing EXCEPT ![w] = TRUE]
  /\ result' = [result EXCEPT ![w] = "failed"]
  /\ Goto(w, "finish")
  /\ UNCHANGED <<tableVars, lock, job, cand, runtime, sawFlag, marking, faults>>

Rescue(w) ==
  /\ pc[w] = "catch"
  /\ IF status[job[w]] = "running"
     THEN /\ rescuing' = [rescuing EXCEPT ![w] = TRUE]
          /\ result' = [result EXCEPT ![w] = "failed"]
          /\ Goto(w, "finish")
          /\ UNCHANGED job
     ELSE Drop(w) /\ UNCHANGED result
  /\ UNCHANGED <<tableVars, lock, cand, runtime, sawFlag, marking, faults>>

(***************************************************************************)
(* A statement of worker w throws.  In claim it leaves the loop's try; in  *)
(* finish it reaches the catch of processJob; in that catch it is          *)
(* swallowed.                                                              *)
(***************************************************************************)
StatementThrows(w) ==
  /\ Count("db", MaxDbErrors)
  /\ \/ /\ pc[w] \in {"claimed", "catch"} \/ (pc[w] \in {"finish", "write"}
                                              /\ rescuing[w])
        /\ Drop(w)
     \/ /\ pc[w] \in {"finish", "write"}
        /\ ~rescuing[w]
        /\ Goto(w, "catch")
        /\ UNCHANGED <<job, rescuing>>
  /\ UNCHANGED <<tableVars, lock, cand, runtime, result, sawFlag, marking>>

\* The process dies and s6 starts it again: an open statement is rolled back,
\* and nothing in the new process knows of the job the old one held.
Crash(w) ==
  /\ Count("crash", MaxCrashes)
  /\ lock' = [j \in Jobs |-> IF lock[j] = w THEN NoWorker ELSE lock[j]]
  /\ cand' = [cand EXCEPT ![w] = {}]
  /\ runtime' = [runtime EXCEPT ![w] = "none"]
  /\ Drop(w)
  /\ UNCHANGED <<tableVars, result, sawFlag, marking>>

(***************************************************************************)
(* markNeedsYou: SELECT the owner's running jobs, then one UPDATE by id    *)
(* for each, with an outcome that says the job is running.                 *)
(***************************************************************************)
MarkRead(o) ==
  /\ marking[o] = {}
  /\ Count("mark", MaxMarks)
  /\ marking' = [marking EXCEPT ![o] =
       {j \in Jobs : status[j] = "running" /\ owner[j] = o}]
  /\ UNCHANGED <<tableVars, lock, workerVars>>

MarkWrite(o, j) ==
  /\ j \in marking[o]
  /\ needsYou' = [needsYou EXCEPT ![j] = TRUE]
  /\ outcome' = [outcome EXCEPT ![j] = BuildOutcome("running", TRUE)]
  /\ marking' = [marking EXCEPT ![o] = @ \ {j}]
  /\ UNCHANGED <<status, thread, owner, lock, workerVars, faults>>

\* What a worker does when nothing fails.
WorkerStep(w) ==
  \/ ClaimBegin(w) \/ ClaimExamine(w) \/ ClaimNothing(w) \/ ClaimUpdate(w)
  \/ ClaimConflict(w) \/ ClaimSelect(w)
  \/ RuntimeMissing(w) \/ StartRun(w) \/ \E s \in Terminal : RunEnds(w, s)
  \/ FinishRead(w) \/ FinishWrite(w) \/ Return(w) \/ Rescue(w)

WorkerFault(w) ==
  \/ RunThrows(w) \/ ReturnThrows(w) \/ RuntimeLoadFails(w)
  \/ StatementThrows(w) \/ Crash(w)

Next ==
  \/ \E j \in Jobs, t \in Threads, o \in Owners : Enqueue(j, t, o)
  \/ \E w \in Workers : WorkerStep(w) \/ RuntimeLoaded(w) \/ WorkerFault(w)
  \/ \E o \in Owners : MarkRead(o) \/ \E j \in Jobs : MarkWrite(o, j)

Spec == Init /\ [][Next]_vars

(***************************************************************************)
(* Each process keeps taking its next step: the loop polls for ever, the   *)
(* run ends because startUnattendedRun races it with a timeout, the import *)
(* settles.  Nobody owes an enqueue or a fault.                            *)
(***************************************************************************)
Fairness ==
  /\ \A w \in Workers : WF_vars(WorkerStep(w)) /\ WF_vars(RuntimeLoaded(w))
  /\ \A o \in Owners : WF_vars(\E j \in Jobs : MarkWrite(o, j))

FairSpec == Spec /\ Fairness

-----------------------------------------------------------------------------
TypeOK ==
  /\ status \in [Jobs -> Statuses]
  /\ thread \in [Jobs -> Threads \cup {NoThread}]
  /\ owner \in [Jobs -> Owners \cup {NoOwner}]
  /\ needsYou \in [Jobs -> BOOLEAN]
  /\ outcome \in [Jobs -> [shown : {"Active", "Needs you", "Done"},
                           jobStatus : Terminal \cup {"none"}]]
  /\ lock \in [Jobs -> Workers \cup {NoWorker}]
  /\ pc \in [Workers -> {"idle", "scan", "locked", "claimed", "await", "run",
                         "finish", "write", "after", "catch"}]
  /\ job \in [Workers -> Jobs \cup {NoJob}]
  /\ cand \in [Workers -> SUBSET Jobs]
  /\ runtime \in [Workers -> {"none", "loading", "ready", "broken"}]
  /\ result \in [Workers -> Terminal]
  /\ sawFlag \in [Workers -> BOOLEAN]
  /\ rescuing \in [Workers -> BOOLEAN]
  /\ marking \in [Owners -> SUBSET Jobs]
  /\ faults \in [FaultKinds -> Nat]

\* The labels between the UPDATE that makes a job running and the one that
\* finishes it: worker w may be acting on the thread of job[w].
Executing(w) == pc[w] \in {"claimed", "await", "run", "finish", "write"}

(***************************************************************************)
(* Two workers are never inside runs of one thread, and never inside the   *)
(* same job: claim promises "never the same job, and never a second run on *)
(* a thread that already has a running row".                               *)
(***************************************************************************)
ThreadExclusion ==
  \A v, w \in Workers :
    v # w /\ Executing(v) /\ Executing(w) => thread[job[v]] # thread[job[w]]

(***************************************************************************)
(* The row of a job a worker is executing says so: no other process        *)
(* finishes it or puts it back in the queue under the worker.              *)
(***************************************************************************)
ExecutingIsRunning ==
  \A w \in Workers : Executing(w) => status[job[w]] = "running"

(***************************************************************************)
(* What a worker may rely on between its claim and its finish, with the    *)
(* types it rests on.                                                      *)
(***************************************************************************)
OneWorkerPerThread == TypeOK /\ ThreadExclusion /\ ExecutingIsRunning

(***************************************************************************)
(* A finished job keeps its status: the catch of processJob, a late        *)
(* ReturnThrows and a second worker never finish it again with another     *)
(* result, and nothing restarts it.                                        *)
(***************************************************************************)
FinishedIsFinal ==
  [][\A j \in Jobs : status[j] \in Terminal => status'[j] = status[j]]_vars

(***************************************************************************)
(* The queue as seen from outside: JobQueue implements ThreadQueue.        *)
(***************************************************************************)
TQ == INSTANCE ThreadQueue WITH phase <- status

QueuePromise == TQ!Spec

(***************************************************************************)
(* Every queued job is finished, as long as nothing fails: two workers     *)
(* that conflict on a thread do not starve it.                             *)
(***************************************************************************)
EveryJobFinishes ==
  \A j \in Jobs : status[j] = "queued" ~> status[j] \in Terminal

(***************************************************************************)
(* What the owner reads, whatever the order of finish and markNeedsYou:    *)
(* Done only on a succeeded job, Needs you on every failed one, Active on  *)
(* every one nobody has started and on none that is over.  A running or a  *)
(* succeeded job may be shown as Needs you (NeedsYouIsShown and            *)
(* OnlyRunningMarked below).                                               *)
(***************************************************************************)
OwnerIsNotMisled ==
  \A j \in Jobs :
    /\ outcome[j].shown = "Done" => status[j] = "succeeded"
    /\ status[j] = "failed" => outcome[j].shown = "Needs you"
    /\ status[j] = "queued" => outcome[j].shown = "Active"
    /\ outcome[j].shown = "Active" => status[j] \notin Terminal

(***************************************************************************)
(* "mark running jobs for this coworker as waiting on a person.  Does not  *)
(* finish the job.  The skinny outcome becomes Needs you." (store.ts:123): *)
(* the outcome of a job that is over is not rewritten to a running one.    *)
(***************************************************************************)
OnlyRunningMarked ==
  \A j \in Jobs : status[j] \in Terminal => outcome[j].jobStatus = status[j]

(***************************************************************************)
(* "The coworker is waiting on a person ... The job stays running; the     *)
(* skinny outcome is Needs you." (db/schema/jobs.ts:69): a row whose       *)
(* needs_you is set shows Needs you to its owner.                          *)
(***************************************************************************)
NeedsYouIsShown ==
  \A j \in Jobs : needsYou[j] => outcome[j].shown = "Needs you"
==============================================================================
