----------------------------- MODULE ThreadQueue -----------------------------
(***************************************************************************)
(* What the durable queue of unattended jobs promises                      *)
(* (server/src/jobs/store.ts:1-8): a job is inserted once, starts at most  *)
(* once, never while another job of its thread is running, and ends once.  *)
(* No worker, lock, snapshot or fault appears here; JobQueue implements    *)
(* this module.                                                            *)
(***************************************************************************)
CONSTANTS Jobs, Threads

VARIABLES phase, \* phase[j]: where job j is
          thread \* thread[j]: its Intelligence thread

vars == <<phase, thread>>

Finished == {"succeeded", "failed"}
Phases == {"none", "queued", "running"} \cup Finished

NoThread == "no thread"

Init == /\ phase = [j \in Jobs |-> "none"]
        /\ thread = [j \in Jobs |-> NoThread]

Busy(t) == \E j \in Jobs : thread[j] = t /\ phase[j] = "running"

Add(j, t) == /\ phase[j] = "none"
             /\ phase' = [phase EXCEPT ![j] = "queued"]
             /\ thread' = [thread EXCEPT ![j] = t]

Start(j) == /\ phase[j] = "queued"
            /\ ~Busy(thread[j])
            /\ phase' = [phase EXCEPT ![j] = "running"]
            /\ UNCHANGED thread

End(j, s) == /\ phase[j] = "running"
             /\ phase' = [phase EXCEPT ![j] = s]
             /\ UNCHANGED thread

Next == \E j \in Jobs : \/ \E t \in Threads : Add(j, t)
                        \/ Start(j)
                        \/ \E s \in Finished : End(j, s)

Spec == Init /\ [][Next]_vars
==============================================================================
