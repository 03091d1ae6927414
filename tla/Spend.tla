-------------------------------- MODULE Spend --------------------------------
(***************************************************************************)
(* The spend ledger of one organization (server/src/orgs/spend.ts), the    *)
(* cap an owner sets, and the enqueue that pays before it inserts a job    *)
(* (server/src/jobs/enqueue.ts).                                           *)
(*                                                                         *)
(* consume is one transaction of three statements under READ COMMITTED:    *)
(* SELECT the organization FOR UPDATE, sum its events, insert one.  Every  *)
(* statement is a step, since another replica may run between any two, and *)
(* a replica may die with the transaction open.                            *)
(***************************************************************************)
EXTENDS Naturals, FiniteSets

CONSTANTS Requests, \* bound: units of work asked for, on any replica
          Kinds,    \* SPEND_KINDS
          Cents,    \* SPEND_CENTS
          Caps,     \* the caps an owner may set
          NoCap,    \* spend_cap_cents is null
          MaxCaps,  \* bound: how often the owner changes the cap
          MaxDeaths \* bound: transactions that die

ASSUME CentsAssumption == Cents \in [Kinds -> Nat] /\ "unattended" \in Kinds
ASSUME RequestsAssumption == IsFiniteSet(Requests)
ASSUME CapsAssumption == Caps \subseteq Nat /\ NoCap \notin Nat

Nobody == "nobody"
ASSUME NobodyAssumption == Nobody \notin Requests

VARIABLES cap,    \* organizations.spend_cap_cents
          used,   \* the sum of the committed organization_spend_events
          lock,   \* who holds the row lock of the organization
          kind,   \* kind[r] of the work r asks for
          pc,     \* pc[r]
          sawCap, \* the cap its SELECT returned
          sawUsed,\* the sum its second statement returned
          jobs,   \* the requests whose unattended job is in the queue
          capSets, deaths

vars == <<cap, used, lock, kind, pc, sawCap, sawUsed, jobs, capSets, deaths>>

States == {"idle", "asked", "locked", "summed", "paid", "refused", "done", "dead"}

Init == /\ cap \in Caps \cup {NoCap}
        /\ used = 0
        /\ lock = Nobody
        /\ kind \in [Requests -> Kinds]
        /\ pc = [r \in Requests |-> "idle"]
        /\ sawCap = [r \in Requests |-> NoCap]
        /\ sawUsed = [r \in Requests |-> 0]
        /\ jobs = {}
        /\ capSets = 0 /\ deaths = 0

Goto(r, from, to) == pc[r] = from /\ pc' = [pc EXCEPT ![r] = to]

Ask(r) == /\ Goto(r, "idle", "asked")
          /\ UNCHANGED <<cap, used, lock, kind, sawCap, sawUsed, jobs, capSets, deaths>>

\* The row lock is held to the end of the transaction.
LockIsFree_NoForUpdate(r) == TRUE

LockIsFree(r) == lock = Nobody

\* SELECT ... FOR UPDATE waits, then reads the latest committed row.
SelectOrg(r) == /\ Goto(r, "asked", "locked")
                /\ LockIsFree(r)
                /\ lock' = r
                /\ sawCap' = [sawCap EXCEPT ![r] = cap]
                /\ UNCHANGED <<cap, used, kind, sawUsed, jobs, capSets, deaths>>

\* A new snapshot: what committed before this statement is counted.
SumEvents(r) == /\ Goto(r, "locked", "summed")
                /\ sawUsed' = [sawUsed EXCEPT ![r] = used]
                /\ UNCHANGED <<cap, used, lock, kind, sawCap, jobs, capSets, deaths>>

Crosses(r) == sawCap[r] # NoCap /\ sawUsed[r] + Cents[kind[r]] > sawCap[r]

Insert(r) == /\ Goto(r, "summed", "paid")
             /\ ~Crosses(r)
             /\ used' = used + Cents[kind[r]]
             /\ lock' = Nobody
             /\ UNCHANGED <<cap, kind, sawCap, sawUsed, jobs, capSets, deaths>>

\* SpendCapError rolls the transaction back.
Refuse_KeepsTransaction(r) ==
  /\ Goto(r, "summed", "refused")
  /\ Crosses(r)
  /\ UNCHANGED <<cap, used, lock, kind, sawCap, sawUsed, jobs, capSets, deaths>>

Refuse(r) == /\ Goto(r, "summed", "refused")
             /\ Crosses(r)
             /\ lock' = Nobody
             /\ UNCHANGED <<cap, used, kind, sawCap, sawUsed, jobs, capSets, deaths>>

\* enqueueUnattendedJob inserts the job it has paid for.
Enqueue_Unpaid(r) ==
  /\ kind[r] = "unattended"
  /\ pc[r] \in {"paid", "refused"} /\ pc' = [pc EXCEPT ![r] = "done"]
  /\ jobs' = jobs \cup {r}
  /\ UNCHANGED <<cap, used, lock, kind, sawCap, sawUsed, capSets, deaths>>

Enqueue(r) == /\ kind[r] = "unattended"
              /\ Goto(r, "paid", "done")
              /\ jobs' = jobs \cup {r}
              /\ UNCHANGED <<cap, used, lock, kind, sawCap, sawUsed, capSets, deaths>>

\* POST /api/orgs/current/spend-cap: an UPDATE of the locked row waits.
SetSpendCap_Unvalidated == /\ lock = Nobody
                           /\ capSets < MaxCaps
                           /\ capSets' = capSets + 1
                           /\ cap' = 1000 + capSets
                           /\ UNCHANGED <<used, lock, kind, pc, sawCap, sawUsed, jobs, deaths>>

SetSpendCap == /\ lock = Nobody
               /\ capSets < MaxCaps
               /\ capSets' = capSets + 1
               /\ cap' \in (Caps \cup {NoCap}) \ {cap}
               /\ UNCHANGED <<used, lock, kind, pc, sawCap, sawUsed, jobs, deaths>>

\* A replica dies, or loses its connection: Postgres rolls its transaction back.
Die(r) == /\ pc[r] \in {"asked", "locked", "summed", "paid"}
          /\ deaths < MaxDeaths
          /\ deaths' = deaths + 1
          /\ pc' = [pc EXCEPT ![r] = "dead"]
          /\ lock' = IF lock = r THEN Nobody ELSE lock
          /\ UNCHANGED <<cap, used, kind, sawCap, sawUsed, jobs, capSets>>

Consume(r) == SelectOrg(r) \/ SumEvents(r) \/ Insert(r) \/ Refuse(r) \/ Enqueue(r)

Next == \/ \E r \in Requests : Ask(r) \/ Consume(r) \/ Die(r)
        \/ SetSpendCap

Spec == Init /\ [][Next]_vars

\* A replica goes on with the transaction it opened, and Postgres grants a
\* row lock to everyone who waits for it.
LiveSpec == /\ Spec
            /\ \A r \in Requests :
                 /\ WF_vars(SumEvents(r) \/ Insert(r) \/ Refuse(r) \/ Enqueue(r))
                 /\ SF_vars(SelectOrg(r))

-----------------------------------------------------------------------------
(***************************************************************************)
(* The row, the ledger and the transactions have their types.              *)
(***************************************************************************)
TypeOK == /\ cap \in Caps \cup {NoCap}
          /\ used \in Nat
          /\ lock \in Requests \cup {Nobody}
          /\ kind \in [Requests -> Kinds]
          /\ pc \in [Requests -> States]
          /\ sawCap \in [Requests -> Caps \cup {NoCap}]
          /\ sawUsed \in [Requests -> Nat]
          /\ jobs \subseteq Requests
          /\ capSets \in Nat /\ deaths \in Nat

(***************************************************************************)
(* "two replicas cannot both squeeze under the cap": with any number of    *)
(* transactions open, owners changing the cap and replicas dying, the      *)
(* ledger is SpendLedger, which charges only what fits at that moment.     *)
(***************************************************************************)
Ledger == INSTANCE SpendLedger WITH
            Amounts <- {Cents[k] : k \in Kinds}

LedgerPromise == Ledger!Spec

(***************************************************************************)
(* No unattended job is queued without a committed event that paid for it: *)
(* the ledger holds at least what the queued jobs cost.                    *)
(***************************************************************************)
QueuedIsPaid == Cardinality(jobs) * Cents["unattended"] <= used

(***************************************************************************)
(* QueuedIsPaid with the types it rests on: caps are validated before they *)
(* are stored, and nobody but an open transaction holds the row lock.      *)
(***************************************************************************)
PaidQueue == TypeOK /\ QueuedIsPaid

(***************************************************************************)
(* Every unit of work asked for is paid, refused out loud or dead: nobody  *)
(* waits for the organization row for ever, whoever else dies or refuses.  *)
(***************************************************************************)
EveryRequestAnswered ==
  \A r \in Requests :
    pc[r] = "asked" ~> pc[r] \in {"paid", "refused", "done", "dead"}
=============================================================================
