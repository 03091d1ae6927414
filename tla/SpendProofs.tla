----------------------------- MODULE SpendProofs -----------------------------
(***************************************************************************)
(* Proofs about Spend, for every set of requests, kinds, prices and caps.  *)
(*                                                                         *)
(* SpendLedger charges what fits the cap and the sum at the moment of the  *)
(* charge; consume decides on the values two earlier statements returned.  *)
(* The refinement therefore rests on Held: whoever is between its SELECT   *)
(* and the end of its transaction holds the row lock, so the cap cannot    *)
(* have changed since the SELECT nor the ledger since the sum.             *)
(***************************************************************************)
EXTENDS Spend, FiniteSetTheorems, TLAPS

Open == {"locked", "summed"}

Held == \A r \in Requests :
          /\ pc[r] \in Open <=> lock = r
          /\ pc[r] \in Open => sawCap[r] = cap
          /\ pc[r] = "summed" => sawUsed[r] = used

IInv == TypeOK /\ Held

\* At first nobody reads the totals and nothing is held.
LEMMA InitInv == Init => IInv
BY CentsAssumption, NobodyAssumption DEF Init, IInv, TypeOK, Held, Open, States

(***************************************************************************)
(* One lemma per kind of step.                                             *)
(***************************************************************************)
LEMMA TypeStep == IInv /\ [Next]_vars => TypeOK'
<1> SUFFICES ASSUME IInv, [Next]_vars PROVE TypeOK'
  OBVIOUS
<1> USE DEF IInv, TypeOK, States, Goto
<1>1. ASSUME NEW r \in Requests, Ask(r) PROVE TypeOK'
  BY <1>1 DEF Ask
<1>2. ASSUME NEW r \in Requests, SelectOrg(r) PROVE TypeOK'
  BY <1>2 DEF SelectOrg
<1>3. ASSUME NEW r \in Requests, SumEvents(r) PROVE TypeOK'
  BY <1>3 DEF SumEvents
<1>4. ASSUME NEW r \in Requests, Insert(r) PROVE TypeOK'
  <2>1. Cents[kind[r]] \in Nat
    BY CentsAssumption
  <2> QED BY <1>4, <2>1 DEF Insert
<1>5. ASSUME NEW r \in Requests, Refuse(r) PROVE TypeOK'
  BY <1>5 DEF Refuse
<1>6. ASSUME NEW r \in Requests, Enqueue(r) PROVE TypeOK'
  BY <1>6 DEF Enqueue
<1>7. ASSUME NEW r \in Requests, Die(r) PROVE TypeOK'
  BY <1>7 DEF Die
<1>8. CASE SetSpendCap
  BY <1>8 DEF SetSpendCap
<1>9. CASE UNCHANGED vars
  BY <1>9 DEF vars
<1> QED
  BY <1>1, <1>2, <1>3, <1>4, <1>5, <1>6, <1>7, <1>8, <1>9 DEF Next, Consume

\* The lock stays with the transaction that read the cap and the usage, and both stay as
\* read.
LEMMA HeldStep == IInv /\ [Next]_vars => Held'
<1> SUFFICES ASSUME IInv, [Next]_vars, NEW q \in Requests
             PROVE  /\ pc'[q] \in Open <=> lock' = q
                    /\ pc'[q] \in Open => sawCap'[q] = cap'
                    /\ pc'[q] = "summed" => sawUsed'[q] = used'
  BY DEF Held
<1> USE NobodyAssumption DEF IInv, TypeOK, Held, Open, States, Goto
<1>1. ASSUME NEW r \in Requests, Ask(r) PROVE Held'
  BY <1>1 DEF Ask
<1>2. ASSUME NEW r \in Requests, SelectOrg(r) PROVE Held'
  BY <1>2 DEF SelectOrg, LockIsFree
<1>3. ASSUME NEW r \in Requests, SumEvents(r) PROVE Held'
  BY <1>3 DEF SumEvents
<1>4. ASSUME NEW r \in Requests, Insert(r) PROVE Held'
  BY <1>4 DEF Insert
<1>5. ASSUME NEW r \in Requests, Refuse(r) PROVE Held'
  BY <1>5 DEF Refuse
<1>6. ASSUME NEW r \in Requests, Enqueue(r) PROVE Held'
  BY <1>6 DEF Enqueue
<1>7. ASSUME NEW r \in Requests, Die(r) PROVE Held'
  BY <1>7 DEF Die
<1>8. CASE SetSpendCap
  BY <1>8 DEF SetSpendCap
<1>9. CASE UNCHANGED vars
  BY <1>9 DEF vars
<1> QED
  BY <1>1, <1>2, <1>3, <1>4, <1>5, <1>6, <1>7, <1>8, <1>9 DEF Next, Consume

\* What is kept of the cap and its lock in every behaviour.
LEMMA Invariance == Spec => []IInv
<1>1. IInv /\ [Next]_vars => IInv'
  BY TypeStep, HeldStep DEF IInv
<1> QED
  BY InitInv, <1>1, PTL DEF Spec

(***************************************************************************)
(* The row, the ledger and every open transaction keep their types.        *)
(***************************************************************************)
THEOREM TypeCorrect == Spec => []TypeOK
<1>1. IInv => TypeOK
  BY DEF IInv
<1> QED
  BY Invariance, <1>1, PTL

(***************************************************************************)
(* Two replicas cannot both squeeze under the cap: consume, interleaved    *)
(* with any other transactions, implements SpendLedger.                    *)
(***************************************************************************)
THEOREM LedgerIsKept == Spec => LedgerPromise
<1>1. Init => Ledger!Init
  BY DEF Init, Ledger!Init
<1>2. IInv /\ [Next]_vars => [Ledger!Next]_<<cap, used>>
  <2> SUFFICES ASSUME IInv, [Next]_vars
               PROVE  Ledger!Next \/ UNCHANGED <<cap, used>>
    OBVIOUS
  <2>1. ASSUME NEW r \in Requests, Insert(r) PROVE Ledger!Next
    <3>1. sawCap[r] = cap /\ sawUsed[r] = used
      BY <2>1 DEF Insert, Goto, IInv, Held, Open
    <3>2. Cents[kind[r]] \in {Cents[k] : k \in Kinds}
      BY DEF IInv, TypeOK
    <3>3. cap # NoCap => used + Cents[kind[r]] <= cap
      <4>1. Cents[kind[r]] \in Nat /\ used \in Nat /\ (cap # NoCap => cap \in Nat)
        BY CentsAssumption, CapsAssumption DEF IInv, TypeOK
      <4> QED BY <2>1, <3>1, <4>1 DEF Insert, Crosses
    <3> QED
      BY <2>1, <3>2, <3>3 DEF Insert, Ledger!Next, Ledger!Charge, Ledger!Fits
  <2>2. CASE SetSpendCap
    BY <2>2 DEF SetSpendCap, Ledger!Next, Ledger!SetCap
  <2>3. CASE UNCHANGED vars
    BY <2>3 DEF vars
  <2>4. ASSUME NEW r \in Requests,
               Ask(r) \/ SelectOrg(r) \/ SumEvents(r) \/ Refuse(r) \/ Enqueue(r) \/ Die(r)
        PROVE  UNCHANGED <<cap, used>>
    BY <2>4 DEF Ask, SelectOrg, SumEvents, Refuse, Enqueue, Die
  <2> QED
    BY <2>1, <2>2, <2>3, <2>4 DEF Next, Consume
<1> QED
  BY <1>1, <1>2, Invariance, PTL DEF Spec, LedgerPromise, Ledger!Spec

-----------------------------------------------------------------------------
(***************************************************************************)
(* QueuedIsPaid counts the jobs, but a replica may die between its payment *)
(* and its job.  What is inductive counts the payments not yet lost.       *)
(***************************************************************************)
Payers == {r \in Requests : kind[r] = "unattended" /\ pc[r] \in {"paid", "done"}}

Paid == /\ \A r \in jobs : kind[r] = "unattended" /\ pc[r] = "done"
        /\ Cardinality(Payers) * Cents["unattended"] <= used

\* An unattended run has a price.
LEMMA Prices == Cents["unattended"] \in Nat
BY CentsAssumption

\* What arithmetic the count of the paid runs needs.
LEMMA Product == \A m, n, c \in Nat :
                   /\ m * c \in Nat
                   /\ (n + 1) * c = n * c + c
                   /\ m <= n => m * c <= n * c
<1> SUFFICES ASSUME NEW m \in Nat, NEW n \in Nat, NEW c \in Nat
             PROVE  /\ m * c \in Nat
                    /\ (n + 1) * c = n * c + c
                    /\ m <= n => m * c <= n * c
  OBVIOUS
<1>1. m <= n => m * c <= n * c
  <2> SUFFICES ASSUME m <= n PROVE m * c <= n * c
    OBVIOUS
  <2> DEFINE d == n - m
  <2>1. d \in Nat /\ n = m + d
    OBVIOUS
  <2>2. n * c = m * c + d * c /\ d * c >= 0
    BY <2>1
  <2> QED BY <2>2
<1> QED BY <1>1

\* The requests that have paid are finitely many.
LEMMA PayersFinite == /\ IsFiniteSet(Payers) /\ Cardinality(Payers) \in Nat
                      /\ \A S \in SUBSET Payers :
                           Cardinality(S) \in Nat /\ Cardinality(S) <= Cardinality(Payers)
<1>1. IsFiniteSet(Payers)
  BY RequestsAssumption, FS_Subset DEF Payers
<1> QED
  BY <1>1, FS_Subset, FS_CardinalityType

\* At first no run is paid for and no job is there.
LEMMA PaidInit == Init => Paid
<1> SUFFICES ASSUME Init PROVE Paid
  OBVIOUS
<1>1. Payers = {} /\ jobs = {}
  BY DEF Init, Payers
<1>2. Cardinality(Payers) = 0
  BY <1>1, FS_EmptySet
<1> QED
  BY <1>1, <1>2, Prices DEF Init, Paid

\* Fewer payers and no less spent.
LEMMA PaidShrinks == ASSUME TypeOK, Paid, Payers' \subseteq Payers,
                            used' \in Nat, used <= used'
                     PROVE  Cardinality(Payers') * Cents["unattended"] <= used'
<1>1. Cardinality(Payers') \in Nat /\ Cardinality(Payers) \in Nat
      /\ Cardinality(Payers') <= Cardinality(Payers)
  BY PayersFinite
<1>2. Cardinality(Payers') * Cents["unattended"] <= Cardinality(Payers) * Cents["unattended"]
  BY <1>1, Product, Prices
<1>3. /\ Cardinality(Payers') * Cents["unattended"] \in Nat
      /\ Cardinality(Payers) * Cents["unattended"] \in Nat
  BY <1>1, Product, Prices
<1> QED
  BY <1>2, <1>3 DEF Paid, TypeOK

\* A run is paid for before its job is there, so the usage covers those that are there.
LEMMA PaidStep == IInv /\ Paid /\ [Next]_vars => Paid'
<1> SUFFICES ASSUME IInv, Paid, [Next]_vars PROVE Paid'
  OBVIOUS
<1> USE DEF IInv, TypeOK, Goto
<1>0. TypeOK /\ used \in Nat
  OBVIOUS
<1>1. ASSUME NEW r \in Requests, Insert(r) PROVE Paid'
  <2>1. jobs' = jobs /\ kind' = kind /\ pc' = [pc EXCEPT ![r] = "paid"]
        /\ pc[r] = "summed" /\ used' = used + Cents[kind[r]] /\ Cents[kind[r]] \in Nat
    BY <1>1, CentsAssumption DEF Insert
  <2>2. \A q \in jobs' : kind'[q] = "unattended" /\ pc'[q] = "done"
    BY <2>1 DEF Paid
  <2>3. CASE kind[r] = "unattended"
    <3>1. Payers' = Payers \cup {r} /\ r \notin Payers
      BY <2>1, <2>3 DEF Payers
    <3>2. Cardinality(Payers') = Cardinality(Payers) + 1
      BY <3>1, PayersFinite, FS_AddElement
    <3>3. Cardinality(Payers') * Cents["unattended"]
            = Cardinality(Payers) * Cents["unattended"] + Cents["unattended"]
      BY <3>2, PayersFinite, Product, Prices
    <3>4. Cardinality(Payers) * Cents["unattended"] \in Nat
      BY PayersFinite, Product, Prices
    <3> QED BY <2>1, <2>2, <2>3, <3>3, <3>4, Prices DEF Paid
  <2>4. CASE kind[r] # "unattended"
    <3>1. Payers' \subseteq Payers
      BY <2>1, <2>4 DEF Payers
    <3>2. used' \in Nat /\ used <= used'
      BY <2>1
    <3> QED BY <1>0, <3>1, <3>2, <2>2, PaidShrinks DEF Paid
  <2> QED BY <2>3, <2>4
<1>2. ASSUME used' = used, kind' = kind,
             \A q \in Requests : pc'[q] \in {"paid", "done"} => pc[q] \in {"paid", "done"},
             \A q \in jobs' : kind[q] = "unattended" /\ pc'[q] = "done"
      PROVE  Paid'
  <2>1. Payers' \subseteq Payers
    BY <1>2 DEF Payers
  <2> QED BY <1>0, <1>2, <2>1, PaidShrinks DEF Paid
<1>3. ASSUME NEW r \in Requests,
             Ask(r) \/ SelectOrg(r) \/ SumEvents(r) \/ Refuse(r) \/ Enqueue(r) \/ Die(r)
      PROVE  Paid'
  <2>1. used' = used /\ kind' = kind
    BY <1>3 DEF Ask, SelectOrg, SumEvents, Refuse, Enqueue, Die
  <2>2. \A q \in Requests : pc'[q] \in {"paid", "done"} => pc[q] \in {"paid", "done"}
    BY <1>3 DEF Ask, SelectOrg, SumEvents, Refuse, Enqueue, Die
  <2>3. \A q \in jobs' : kind[q] = "unattended" /\ pc'[q] = "done"
    BY <1>3 DEF Ask, SelectOrg, SumEvents, Refuse, Enqueue, Die, Paid
  <2> QED BY <1>2, <2>1, <2>2, <2>3
<1>4. CASE SetSpendCap \/ UNCHANGED vars
  <2>1. used' = used /\ kind' = kind /\ pc' = pc /\ jobs' = jobs
    BY <1>4 DEF SetSpendCap, vars
  <2> QED BY <1>2, <2>1 DEF Paid
<1> QED
  BY <1>1, <1>3, <1>4 DEF Next, Consume

(***************************************************************************)
(* However replicas interleave and die, the ledger holds what every queued *)
(* unattended job cost.                                                    *)
(***************************************************************************)
THEOREM QueueIsPaid == Spec => []QueuedIsPaid
<1>1. IInv /\ Paid => QueuedIsPaid
  <2> SUFFICES ASSUME IInv, Paid PROVE QueuedIsPaid
    OBVIOUS
  <2>1. jobs \subseteq Payers
    BY DEF IInv, TypeOK, Paid, Payers
  <2>2. Cardinality(jobs) * Cents["unattended"] <= Cardinality(Payers) * Cents["unattended"]
    BY <2>1, PayersFinite, Product, Prices
  <2>3. /\ Cardinality(jobs) * Cents["unattended"] \in Nat
        /\ Cardinality(Payers) * Cents["unattended"] \in Nat
    BY <2>1, PayersFinite, Product, Prices
  <2> QED
    BY <2>2, <2>3 DEF QueuedIsPaid, Paid, IInv, TypeOK
<1> QED
  BY <1>1, PaidInit, PaidStep, Invariance, PTL DEF Spec

(***************************************************************************)
(* The invariant the run checks, for any requests, prices and caps.        *)
(***************************************************************************)
THEOREM PaidQueueHolds == Spec => []PaidQueue
  BY TypeCorrect, QueueIsPaid, PTL DEF PaidQueue
=============================================================================
