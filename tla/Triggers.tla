------------------------------ MODULE Triggers ------------------------------
(***************************************************************************)
(* The standing triggers of one goal: schedules that the workers' ticks    *)
(* claim, and webhooks and mailboxes that a caller fires, all of which     *)
(* queue jobs on the goal's thread (jobs/triggers.ts, inbound.ts,          *)
(* enqueue.ts).                                                            *)
(*                                                                         *)
(* A firing is a worker in its tick or an inbound request; a step of it is *)
(* one statement.  Of the queue only what the gate reads is kept: which    *)
(* jobs are unfinished.                                                    *)
(***************************************************************************)
EXTENDS Naturals, FiniteSets

CONSTANTS Crons, Hooks, \* the triggers: schedules; webhooks and mailboxes
          Workers,
          MaxWindows,   \* bound: times each schedule comes due
          MaxCalls,     \* bound: inbound requests, numbered as they come
          MaxEdits,     \* bound: triggers switched or removed
          MaxDeaths     \* bound: workers and replicas that die in a firing

VARIABLES trigger,   \* the job_triggers rows: there, enabled, its last fire failed
          due,       \* next_run_at has passed
          windows,   \* how often it came due
          job,       \* the jobs on the thread: whose they are and how they stand
          queued,    \* how many there are
          pc, fires, \* where each firing is and the trigger it fires
          inTick,    \* the workers that found nothing to claim and tick
          edits, deaths

vars == <<trigger, due, windows, job, queued, pc, fires, inTick, edits, deaths>>
clock == <<due, windows>>
rest == <<edits, deaths>>

Triggers == Crons \cup Hooks
Calls == 1..MaxCalls
Firings == Workers \cup Calls
MaxJobs == Cardinality(Crons) * MaxWindows + MaxCalls
Nothing == [by |-> "nobody", status |-> "none"]
None == "none"

Init ==
  /\ trigger = [t \in Triggers |-> [there |-> TRUE, enabled |-> TRUE, failed |-> FALSE]]
  /\ due = [t \in Crons |-> FALSE] /\ windows = [t \in Crons |-> 0]
  /\ job = [i \in 1..MaxJobs |-> Nothing] /\ queued = 0
  /\ pc = [f \in Firings |-> "idle"] /\ fires = [f \in Firings |-> None]
  /\ inTick = {} /\ edits = 0 /\ deaths = 0

Goto(f, label) == pc' = [pc EXCEPT ![f] = label]

Unfinished(i) == job[i].status \in {"queued", "running"}
Claimable(i) ==
  /\ job[i].status = "queued"
  /\ \A k \in 1..MaxJobs : job[k].status # "running" /\ (k < i => job[k].status = "done")

-----------------------------------------------------------------------------
(* Time, people and the queue.                                             *)

ComesDue(t) ==
  /\ ~due[t] /\ windows[t] < MaxWindows
  /\ due' = [due EXCEPT ![t] = TRUE] /\ windows' = [windows EXCEPT ![t] = @ + 1]
  /\ UNCHANGED <<trigger, job, queued, pc, fires, inTick, rest>>

SetEnabled(t) ==
  /\ trigger[t].there /\ edits < MaxEdits /\ edits' = edits + 1
  /\ trigger' = [trigger EXCEPT ![t].enabled = ~@]
  /\ UNCHANGED <<clock, job, queued, pc, fires, inTick, deaths>>

Remove(t) ==
  /\ trigger[t].there /\ edits < MaxEdits /\ edits' = edits + 1
  /\ trigger' = [trigger EXCEPT ![t].there = FALSE]
  /\ UNCHANGED <<clock, job, queued, pc, fires, inTick, deaths>>

\* A worker takes a job of the thread and finishes it (JobQueue).
JobMoves(i) ==
  /\ \/ Claimable(i) /\ job' = [job EXCEPT ![i].status = "running"]
     \/ job[i].status = "running" /\ job' = [job EXCEPT ![i].status = "done"]
  /\ UNCHANGED <<trigger, clock, queued, pc, fires, inTick, rest>>

-----------------------------------------------------------------------------
(* A tick.                                                                 *)

\* claim() found nothing for this worker: tickDueCrons.
TickBegins(w) ==
  /\ pc[w] = "idle" /\ w \notin inTick /\ ~\E i \in 1..MaxJobs : Claimable(i)
  /\ inTick' = inTick \cup {w}
  /\ Goto(w, "claim")
  /\ UNCHANGED <<trigger, clock, job, queued, fires, rest>>

MayClaim(t) == trigger[t].there /\ trigger[t].enabled /\ due[t]

\* CLAIM_DUE_CRON_SQL: the row is picked and its next_run_at advanced in one
\* statement; a row another worker has locked is skipped, and then is not due.
Advanced_Later(t) == due

Advanced(t) == [due EXCEPT ![t] = FALSE]

ClaimDue(w, t) ==
  /\ pc[w] = "claim" /\ MayClaim(t)
  /\ due' = Advanced(t)
  /\ fires' = [fires EXCEPT ![w] = t]
  /\ Goto(w, "select")
  /\ UNCHANGED <<trigger, windows, job, queued, inTick, rest>>

TickEnds(w) ==
  /\ pc[w] = "claim" /\ ~\E t \in Crons : MayClaim(t)
  /\ Goto(w, "idle") /\ inTick' = inTick \ {w}
  /\ UNCHANGED <<trigger, clock, job, queued, fires, rest>>

\* The row is read by its id. One that was removed in between ends the whole tick;
\* one that was switched off fires once more.
SelectRow(w) ==
  /\ pc[w] = "select"
  /\ IF trigger[fires[w]].there
     THEN Goto(w, "gate") /\ UNCHANGED <<fires, inTick>>
     ELSE Goto(w, "idle") /\ fires' = [fires EXCEPT ![w] = None] /\ inTick' = inTick \ {w}
  /\ UNCHANGED <<trigger, clock, job, queued, rest>>

\* After a firing the tick goes round, and an inbound request is answered.
Over(f) ==
  /\ Goto(f, IF f \in Workers THEN "claim" ELSE "answered")
  /\ fires' = [fires EXCEPT ![f] = None]

\* hasUnfinishedOnThread: the window of a busy thread passes unheard.
Busy_OnlyRunning == \E i \in 1..MaxJobs : job[i].status = "running"

Busy == \E i \in 1..MaxJobs : Unfinished(i)

Gate(w) ==
  /\ pc[w] = "gate"
  /\ IF Busy THEN Over(w) ELSE Goto(w, "admit") /\ UNCHANGED fires
  /\ UNCHANGED <<trigger, clock, job, queued, inTick, rest>>

-----------------------------------------------------------------------------
(* An inbound request, and the firing.                                     *)

\* getById or getByMailbox, then the secret and the switch of the row as read.
CallReads(c, t) ==
  /\ pc[c] = "idle" /\ \A d \in Calls : d < c => pc[d] # "idle"
  /\ IF trigger[t].there /\ trigger[t].enabled
     THEN Goto(c, "admit") /\ fires' = [fires EXCEPT ![c] = t]
     ELSE Goto(c, "answered") /\ UNCHANGED fires
  /\ UNCHANGED <<trigger, clock, job, queued, inTick, rest>>

\* enqueueUnattendedJob: the channel, its thread and its coworkers may refuse, and
\* so may the spend cap (Spend).
Admit(f) ==
  /\ pc[f] = "admit"
  /\ Goto(f, "insert") \/ Goto(f, "refused")
  /\ UNCHANGED <<trigger, clock, job, queued, fires, inTick, rest>>

InsertJob(f) ==
  /\ pc[f] = "insert"
  /\ queued' = queued + 1
  /\ job' = [job EXCEPT ![queued'] = [by |-> fires[f], status |-> "queued"]]
  /\ Goto(f, "fired")
  /\ UNCHANGED <<trigger, clock, fires, inTick, rest>>

\* recordFire.
Record(f) ==
  /\ pc[f] \in {"fired", "refused"}
  /\ trigger' = [trigger EXCEPT ![fires[f]].failed = pc[f] = "refused"]
  /\ Over(f)
  /\ UNCHANGED <<clock, job, queued, inTick, rest>>

\* The process dies, or a statement throws: the window that was claimed is lost.
Dies(f) ==
  /\ pc[f] \notin {"idle", "answered"} /\ deaths < MaxDeaths /\ deaths' = deaths + 1
  /\ Goto(f, IF f \in Workers THEN "idle" ELSE "answered")
  /\ fires' = [fires EXCEPT ![f] = None] /\ inTick' = inTick \ {f}
  /\ UNCHANGED <<trigger, clock, job, queued, edits>>

Next ==
  \/ \E t \in Crons : ComesDue(t) \/ \E w \in Workers : ClaimDue(w, t)
  \/ \E t \in Triggers : SetEnabled(t) \/ Remove(t)
  \/ \E i \in 1..MaxJobs : JobMoves(i)
  \/ \E w \in Workers : TickBegins(w) \/ TickEnds(w) \/ SelectRow(w) \/ Gate(w)
  \/ \E c \in Calls, t \in Hooks : CallReads(c, t)
  \/ \E f \in Firings : Admit(f) \/ InsertJob(f) \/ Record(f) \/ Dies(f)

Spec == Init /\ [][Next]_vars

-----------------------------------------------------------------------------
TypeOK ==
  /\ trigger \in [Triggers -> [there : BOOLEAN, enabled : BOOLEAN, failed : BOOLEAN]]
  /\ due \in [Crons -> BOOLEAN] /\ windows \in [Crons -> 0..MaxWindows]
  /\ job \in [1..MaxJobs -> [by : Triggers \cup {"nobody"},
                             status : {"none", "queued", "running", "done"}]]
  /\ queued \in 0..MaxJobs
  /\ pc \in [Firings -> {"idle", "claim", "select", "gate", "admit", "insert", "fired",
                         "refused", "answered"}]
  /\ fires \in [Firings -> Triggers \cup {None}] /\ inTick \subseteq Workers
  /\ edits \in 0..MaxEdits /\ deaths \in 0..MaxDeaths

\* However many workers tick, a window of a schedule queues one job at most, and a
\* missed one none ("two workers cannot both believe the same schedule is due").
OneFirePerWindow ==
  \A t \in Crons : Cardinality({i \in 1..MaxJobs : job[i].by = t}) <= windows[t]

\* A thread never has more unfinished jobs of schedules than there are workers,
\* since each of them asked before it queued: one, if one worker ticks.
StandingJobsAreBounded ==
  Cardinality({i \in 1..MaxJobs : Unfinished(i) /\ job[i].by \in Crons}) <= Cardinality(Workers)

StandingFires == TypeOK /\ OneFirePerWindow /\ StandingJobsAreBounded

\* What the gate is for, whoever ticks: two workers both find the thread free.
OneStandingJob ==
  Cardinality({i \in 1..MaxJobs : Unfinished(i) /\ job[i].by \in Crons}) <= 1

\* A trigger that is off queues nothing any more: one that was read before does.
OffIsOff ==
  [][\A i \in 1..MaxJobs :
       job[i].status = "none" /\ job'[i].status = "queued" => trigger[job'[i].by].enabled]_vars
=============================================================================
