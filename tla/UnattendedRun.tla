--------------------------- MODULE UnattendedRun ---------------------------
(***************************************************************************)
(* The runs of one Intelligence thread: the unattended jobs that are       *)
(* claimed for it one after the other (jobs/run.ts, runtime-run.ts,        *)
(* open-thread.ts, thread.ts) and the turns people start in a tab, which   *)
(* hold the same lock.                                                     *)
(*                                                                         *)
(* A job is answered to the queue and runs, and these are two things: the  *)
(* wall clock answers for a run that goes on.  The lock and the thread are *)
(* kept by Intelligence, outside the repository.  Of a text it matters     *)
(* which texts include it: a schedule repeats its prompt word for word,    *)
(* and an answer may be part of what was said before.  What the thread     *)
(* says was said by these runs.                                            *)
(***************************************************************************)
EXTENDS Naturals

CONSTANTS MaxJobs,   \* bound: jobs of the thread, numbered in the order of their claims
          MaxTabs,   \* bound: turns started in a tab
          Prompts, Replies, \* the texts that are asked and answered
          Holds,     \* the texts that a text includes
          Attempts,  \* maxAttempts, tries for the lock
          MaxTrouble \* bound: failed requests, lost renewals and dead processes

VARIABLES pc,        \* where each run is
          answer,    \* what startUnattendedRun returned: "none" until it did
          tries,     \* tries for the lock that are left
          runner,    \* the Intelligence runner of each run: "off", "joining", "left"
                     \* (unsubscribed before it joined), "running", "done", "error"
          known,     \* Intelligence has the mapped thread
          lock,      \* the run that holds the thread lock, 0 if none
          asks,      \* the prompt of each run
          says,      \* the answer of its agent, "" if none
          thread,    \* the messages on the thread, by the run that said them
          outlived,  \* history: runs that lost the lock they were renewing, or that joined
                     \* when their job had given up waiting for it
          trouble

vars == <<pc, answer, tries, runner, known, lock, asks, says, thread, outlived, trouble>>

Jobs == 1..MaxJobs
Tabs == (MaxJobs + 1)..(MaxJobs + MaxTabs)
Runs == Jobs \cup Tabs
Locked == {"running", "cleanup"}
Settled == {"idle", "ended", "dead"}

Texts == Prompts \cup Replies
Message(r, w) == [by |-> r, text |-> w]

Init ==
  /\ pc = [r \in Runs |-> "idle"] /\ answer = [r \in Runs |-> "none"]
  /\ tries = [r \in Runs |-> Attempts] /\ runner = [r \in Runs |-> "off"]
  /\ known \in BOOLEAN /\ lock = 0 /\ outlived = {} /\ trouble = 0
  /\ asks \in [Runs -> Prompts] /\ says = [r \in Runs |-> ""] /\ thread = {}

Goto(r, label) == pc' = [pc EXCEPT ![r] = label]
Trouble == trouble < MaxTrouble /\ trouble' = trouble + 1

\* The promise race is settled once: what comes later is dropped.
Answers(r, outcome) ==
  answer' = [answer EXCEPT ![r] = IF @ = "none" THEN outcome ELSE @]

Refuses(r) == Goto(r, "ended") /\ Answers(r, "refused")
Fails(r) == Goto(r, "ended") /\ Answers(r, "failed")

-----------------------------------------------------------------------------
(* Before the run.                                                         *)

\* The next job of the thread is claimed when the one before it is finished.
Start(j) ==
  /\ pc[j] = "idle" /\ \A i \in Jobs : i < j => answer[i] # "none"
  /\ \/ Goto(j, "poll") /\ UNCHANGED answer
     \/ Refuses(j)         \* another goal, no mapping or another thread
  /\ UNCHANGED <<tries, runner, known, lock, asks, says, thread, outlived, trouble>>

\* waitForThreadIdle: a thread that is missing is as good as an idle one; a busy
\* one is polled again until the deadline.
Poll(j) ==
  /\ pc[j] = "poll"
  /\ \/ (known => lock = 0) /\ Goto(j, "gates") /\ UNCHANGED <<answer, trouble>>
     \/ known /\ lock # 0 /\ Refuses(j) /\ UNCHANGED trouble
     \/ Trouble /\ Fails(j)
  /\ UNCHANGED <<tries, runner, known, lock, asks, says, thread, outlived>>

\* The coworker, its tools, the spend cap and the agent itself.
Gates(j) ==
  /\ pc[j] = "gates"
  /\ \/ Goto(j, "open") /\ UNCHANGED <<answer, trouble>>
     \/ Refuses(j) /\ UNCHANGED trouble
     \/ Trouble /\ Fails(j)
  /\ UNCHANGED <<tries, runner, known, lock, asks, says, thread, outlived>>

-----------------------------------------------------------------------------
(* The run, which the wall clock races from here on.                       *)

\* openIntelligenceThread: getOrCreate, confirmed by a read, or a create of the
\* same id, a conflict being as good, confirmed again.
Open(j) ==
  /\ pc[j] = "open"
  /\ \/ known' = TRUE /\ Goto(j, "lock") /\ UNCHANGED <<answer, trouble>>
     \/ Trouble /\ Fails(j) /\ UNCHANGED known
  /\ UNCHANGED <<tries, runner, lock, asks, says, thread, outlived>>

\* The join starts with the subscription.
Acquire(j) ==
  /\ pc[j] = "lock"
  /\ IF lock = 0
     THEN /\ lock' = j /\ runner' = [runner EXCEPT ![j] = "joining"]
          /\ Goto(j, "running") /\ UNCHANGED <<answer, tries>>
     ELSE /\ tries' = [tries EXCEPT ![j] = @ - 1]
          /\ IF tries[j] > 1 THEN UNCHANGED <<pc, answer>> ELSE Fails(j)
          /\ UNCHANGED <<lock, runner>>
  /\ UNCHANGED <<known, asks, says, thread, outlived, trouble>>

\* The platform lets a runner join while its run holds the lock.
Joins(r) ==
  /\ runner[r] \in {"joining", "left"} /\ lock = r
  /\ runner' = [runner EXCEPT ![r] = "running"]
  /\ outlived' = IF runner[r] = "left" THEN outlived \cup {r} ELSE outlived
  /\ UNCHANGED <<pc, answer, tries, known, lock, asks, says, thread, trouble>>

JoinRejected(r) ==
  /\ runner[r] \in {"joining", "left"} /\ lock # r
  /\ runner' = [runner EXCEPT ![r] = IF @ = "left" THEN "off" ELSE "error"]
  /\ UNCHANGED <<pc, answer, tries, known, lock, asks, says, thread, outlived, trouble>>

\* The runner ends, its agent having said something or not, and its turn is on the
\* thread; or, in trouble, any part of it, and the end may be an error.
RunnerEnds(r) ==
  /\ runner[r] = "running"
  /\ \E w \in Replies \cup {""} :
       LET turn == {Message(r, asks[r])} \cup {Message(r, v) : v \in {w} \ {""}} IN
       /\ says' = [says EXCEPT ![r] = w]
       /\ \/ /\ runner' = [runner EXCEPT ![r] = "done"] /\ thread' = thread \cup turn
             /\ UNCHANGED trouble
          \/ /\ runner' \in {[runner EXCEPT ![r] = s] : s \in {"done", "error"}}
             /\ thread' \in {thread \cup kept : kept \in SUBSET turn}
             /\ Trouble
  /\ UNCHANGED <<pc, answer, tries, known, lock, asks, outlived>>

\* waitForRunner returns, or throws and the run fails with its lock still held.
Finished(j) ==
  /\ pc[j] = "running" /\ runner[j] \in {"done", "error"}
  /\ Goto(j, "cleanup")
  /\ UNCHANGED <<answer, tries, runner, known, lock, asks, says, thread, outlived, trouble>>

\* No RUN_STARTED in time: unsubscribed, which may or may not stop the join.
StartupTimeout(j) ==
  /\ pc[j] = "running" /\ runner[j] = "joining"
  /\ runner' \in {[runner EXCEPT ![j] = s] : s \in {"left", "off"}}
  /\ Goto(j, "cleanup")
  /\ UNCHANGED <<answer, tries, known, lock, asks, says, thread, outlived, trouble>>

\* finally: the heartbeat stops and the lock is released by the id of the run.
Freed(r) == IF lock = r THEN 0 ELSE lock

Cleanup(j) ==
  /\ pc[j] = "cleanup"
  /\ \/ lock' = Freed(j) /\ UNCHANGED trouble
     \/ UNCHANGED lock /\ Trouble
  /\ IF runner[j] = "done" /\ answer[j] = "none"
     THEN Goto(j, "persist") /\ UNCHANGED answer
     ELSE Fails(j)
  /\ UNCHANGED <<tries, runner, known, asks, says, thread, outlived>>

\* The wall clock answers; the run itself is not stopped.
WallClock(j) ==
  /\ pc[j] \in {"open", "lock", "running", "cleanup"} /\ answer[j] = "none"
  /\ Answers(j, "failed")
  /\ UNCHANGED <<pc, tries, runner, known, lock, asks, says, thread, outlived, trouble>>

Persist_Unread(j) ==
  /\ pc[j] = "persist"
  /\ Goto(j, "ended")
  /\ Answers(j, "succeeded")
  /\ UNCHANGED <<tries, runner, known, lock, asks, says, thread, outlived, trouble>>

\* The prompt and the result are looked for in all that the thread says, whoever said it;
\* then the roster is told, which may throw.
Found(w) == \E m \in thread : w \in Holds[m.text]
Persist(j) ==
  /\ pc[j] = "persist"
  /\ Goto(j, "ended")
  /\ \/ Answers(j, IF says[j] # "" /\ Found(asks[j]) /\ Found(says[j])
                   THEN "succeeded" ELSE "failed") /\ UNCHANGED trouble
     \/ Answers(j, "failed") /\ Trouble
  /\ UNCHANGED <<tries, runner, known, lock, asks, says, thread, outlived>>

-----------------------------------------------------------------------------
(* A tab, the platform and the process.                                    *)

\* handleIntelligenceRun takes the lock, or the tab is told that it is held.
TabRuns(t) ==
  /\ pc[t] = "idle" /\ lock = 0
  /\ lock' = t /\ known' = TRUE
  /\ runner' = [runner EXCEPT ![t] = "joining"] /\ Goto(t, "running")
  /\ UNCHANGED <<answer, tries, asks, says, thread, outlived, trouble>>

\* The wrapped runner releases the lock on complete and on error.
TabEnds(t) ==
  /\ pc[t] = "running" /\ runner[t] \in {"done", "error"}
  /\ lock' = Freed(t) /\ Goto(t, "ended")
  /\ UNCHANGED <<answer, tries, runner, known, asks, says, thread, outlived, trouble>>

Renews_Never(r) == FALSE

Renews_Still(r) == pc[r] \notin {"idle", "dead"}

\* The heartbeat, of the process that runs the turn.
Renews(r) == pc[r] \in Locked

\* The lock outlives its TTL when nobody renews it, or a renewal is lost.
Lapses ==
  /\ lock # 0 /\ lock' = 0
  /\ \/ ~Renews(lock) /\ UNCHANGED <<trouble, outlived>>
     \/ Renews(lock) /\ Trouble /\ outlived' = outlived \cup {lock}
  /\ UNCHANGED <<pc, answer, tries, runner, known, asks, says, thread>>

\* The process dies: a job's row stays running, so no later job is claimed.
Dies(r) ==
  /\ pc[r] \notin Settled /\ Trouble
  /\ Goto(r, "dead")
  /\ runner' = [runner EXCEPT ![r] = "off"]
  /\ UNCHANGED <<answer, tries, known, lock, asks, says, thread, outlived>>

JobStep(j) ==
  \/ Poll(j) \/ Gates(j) \/ Open(j) \/ Acquire(j) \/ Finished(j)
  \/ StartupTimeout(j) \/ Cleanup(j) \/ Persist(j)

Next ==
  \/ \E j \in Jobs : Start(j) \/ JobStep(j) \/ WallClock(j)
  \/ \E t \in Tabs : TabRuns(t) \/ TabEnds(t)
  \/ \E r \in Runs : Joins(r) \/ JoinRejected(r) \/ RunnerEnds(r) \/ Dies(r)
  \/ Lapses

Spec == Init /\ [][Next]_vars

\* Requests are answered, timers fire and callbacks run; and the environment's
\* part, that a runner which has joined comes to an end. Nobody owes a claim, a
\* turn in a tab or a fault.
Keeps(r) ==
  IF r \in Jobs THEN JobStep(r) \/ WallClock(r) ELSE TabEnds(r)
RunnerMoves(r) == Joins(r) \/ JoinRejected(r) \/ RunnerEnds(r)

Fairness ==
  /\ \A r \in Runs : WF_vars(Keeps(r)) /\ WF_vars(RunnerMoves(r))
  /\ WF_vars(Lapses)

FairSpec == Spec /\ Fairness

-----------------------------------------------------------------------------
TypeOK ==
  /\ pc \in [Runs -> {"idle", "poll", "gates", "open", "lock", "running", "cleanup",
                      "persist", "ended", "dead"}]
  /\ answer \in [Runs -> {"none", "refused", "failed", "succeeded"}]
  /\ tries \in [Runs -> 0..Attempts]
  /\ runner \in [Runs -> {"off", "joining", "left", "running", "done", "error"}]
  /\ known \in BOOLEAN /\ lock \in {0} \cup Runs
  /\ asks \in [Runs -> Prompts] /\ says \in [Runs -> Replies \cup {""}]
  /\ thread \subseteq [by : Runs, text : Texts]
  /\ outlived \subseteq Runs /\ trouble \in Nat

\* Two runs do not write to one thread at once, a job whose wall clock has passed
\* included; unless one of them lost the lock it was renewing, or joined after its
\* job had given up ("a follow-up ... on the same mapped thread", runtime-run.ts).
OneRunWrites ==
  \A r, s \in Runs :
    r # s /\ runner[r] = "running" /\ runner[s] = "running" => {r, s} \cap outlived # {}

\* A job that is reported done ran to its end and said something, and its prompt and its
\* answer are on the thread; or another message there includes the one that is not
\* (thread.ts: "Persist false or throw is FAILED").
SucceededIsOnTheThread ==
  \A j \in Jobs : answer[j] = "succeeded" =>
    /\ runner[j] = "done" /\ says[j] # ""
    /\ \A w \in {asks[j], says[j]} :
         Message(j, w) \in thread \/ \E m \in thread \ {Message(j, w)} : w \in Holds[m.text]

HonestRuns == TypeOK /\ OneRunWrites /\ SucceededIsOnTheThread

\* Nobody waits for the lock of the thread for ever: whoever has it, dead or timed
\* out or unable to release it, loses it.
LockComesFree == \A r \in Runs : lock = r ~> lock # r

\* Without the exception: a join that is accepted between the unsubscription and
\* the release writes next to the run that has the lock after it.
NeverTwoRunsWrite ==
  \A r, s \in Runs : r # s /\ runner[r] = "running" => runner[s] # "running"

\* "confirm the mapped thread still exists and now holds this turn" (thread.ts): the code
\* breaks it, an earlier turn with the same words will do.
ThreadHoldsTheTurn ==
  \A j \in Jobs :
    answer[j] = "succeeded" => {Message(j, asks[j]), Message(j, says[j])} \subseteq thread

\* "The job will not stay running on a missing join", and a failed job has left
\* nothing on the thread: the code breaks it, the wall clock stops nothing.
FailedLeftNothing ==
  [][\A j \in Jobs : answer[j] = "failed" /\ (\A m \in thread : m.by # j) =>
       \A m \in thread' : m.by # j]_vars
============================================================================
