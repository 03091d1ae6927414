--------------------------- MODULE GoalLoopProofs ---------------------------
(***************************************************************************)
(* That only what was kept is carried out, for any number of requests,     *)
(* under way at once or not, dying or not, and of decisions kept.          *)
(***************************************************************************)
EXTENDS GoalLoop, FiniteSetTheorems, SequenceTheorems, TLAPS

\* A loop that waits has a card, and the card of a loop is that of a call that was
\* answered with it.
Carded(l) == /\ l.waiting => l.card # NoCard
             /\ l.card # NoCard => pc[l.card] = "answered" /\ kind[l.card] = "wait"

\* What made a request of kind k go on with the loop l it read.
Found(k, l) == /\ k \in Decisions => l.waiting
               /\ k = "wait" => ~l.waiting
               /\ k = "job" => ApplyJobOutcome(l)

FoundWaiting(r) == r \in InFlight => Found(kind[r], seen[r])

\* Until two requests overlap, the one under way has read the loop as it is.
Alone == ~overlapped => /\ \A p, q \in InFlight : p = q
                        /\ \A p \in InFlight : seen[p] = loop

\* The keeps of a card that are past carrying it out, or died.
Spent(a) == {r \in KeepsOf(a) : pc[r] \notin {"idle", "read", "refused"}}

IInv == /\ TypeOK
        /\ Carded(loop)
        /\ \A r \in Requests : Carded(seen[r]) /\ FoundWaiting(r)
        /\ \A a \in Requests : carried[a] <= Cardinality(Spent(a))
        /\ \A a \in Requests : pc[a] # "answered" => carried[a] = 0
        /\ Alone

\* A set of requests is finite.
LEMMA SomeRequests == ASSUME NEW S \in SUBSET Requests
                      PROVE  IsFiniteSet(S) /\ Cardinality(S) \in Nat
<1>1. IsFiniteSet(Requests)
  BY RequestsAssumption, FS_Interval DEF Requests
<1> QED
  BY <1>1, FS_Subset, FS_CardinalityType

\* No request has number NoCard.
LEMMA NoCardIsNoRequest == NoCard \notin Requests
  BY RequestsAssumption DEF NoCard, Requests

\* More spent keeps allow no less.
LEMMA SpentGrows ==
  ASSUME NEW a \in Requests, Spent(a) \subseteq Spent(a)', Spent(a)' \subseteq Requests
  PROVE  Cardinality(Spent(a)) <= Cardinality(Spent(a)')
  BY SomeRequests, FS_Subset

\* What a decision leaves on the goal is a sequence of decisions.
LEMMA RecordedType ==
  ASSUME TypeOK, NEW r \in Requests PROVE Recorded(r) \in Seq(Requests)
<1> DEFINE all == <<r>> \o seen[r].decisions
           n == IF Len(seen[r].decisions) < DecisionsKept
                THEN Len(seen[r].decisions) + 1 ELSE DecisionsKept
<1>1. seen[r].decisions \in Seq(Requests) /\ <<r>> \in Seq(Requests)
  BY DEF TypeOK, LoopType
<1>2. all \in Seq(Requests) /\ Len(all) = 1 + Len(seen[r].decisions)
  BY <1>1, ConcatProperties
<1>3. n \in Nat /\ n <= Len(all)
  BY <1>1, <1>2, KeptAssumption
<1>4. \A i \in 1..n : all[i] \in Requests
  BY <1>2, <1>3, ElementOfSeq
<1>5. SubSeq(all, 1, n) \in Seq(Requests)
  <2> HIDE DEF all, n
  <2> QED
    BY <1>3, <1>4, SubSeqProperties
<1> QED
  BY <1>5 DEF Recorded

\* At first there is no card, no decision and no request under way.
LEMMA InitCarded == Init => IInv
<1> SUFFICES ASSUME Init PROVE IInv
  OBVIOUS
<1>a. EmptyLoop \in LoopType
  BY DEF EmptyLoop, LoopType
<1>b. overlapped \in BOOLEAN
  BY Zenon DEF Init
<1>1. TypeOK
  BY <1>a, <1>b DEF Init, TypeOK
<1>2. \A a \in Requests : Cardinality(Spent(a)) \in Nat
  BY SomeRequests DEF Spent, KeepsOf
<1>3. /\ Carded(loop)
      /\ \A r \in Requests : Carded(seen[r]) /\ FoundWaiting(r)
  BY DEF Init, Carded, FoundWaiting, InFlight, EmptyLoop
<1>4. \A a \in Requests : carried[a] = 0
  BY DEF Init
<1>5. Alone
  BY DEF Init, Alone, InFlight
<1> QED
  BY <1>1, <1>2, <1>3, <1>4, <1>5 DEF IInv

\* A request reads the goal as it is.
LEMMA ReadKeeps ==
  ASSUME IInv, NEW r \in Requests, NEW k \in Kinds, NEW goesOn \in BOOLEAN,
         Read(r, k, goesOn), goesOn => Found(k, loop)
  PROVE  IInv'
<1>1. /\ pc' = [pc EXCEPT ![r] = IF goesOn THEN "read" ELSE "refused"]
      /\ kind' = [kind EXCEPT ![r] = k] /\ seen' = [seen EXCEPT ![r] = loop]
      /\ pc[r] = "idle" /\ UNCHANGED <<loop, carried, failures>>
      /\ overlapped' = (overlapped \/ (goesOn /\ InFlight # {}))
  BY DEF Read
<1>a. overlapped' \in BOOLEAN
  BY <1>1, Zenon DEF IInv, TypeOK
<1>2. TypeOK'
  BY <1>1, <1>a DEF IInv, TypeOK
<1>3. \A a \in Requests : pc[a] = "answered" <=> pc'[a] = "answered"
  BY <1>1 DEF IInv, TypeOK
<1>4. Carded(loop)' /\ \A q \in Requests : Carded(seen[q])'
  BY <1>1, <1>3 DEF IInv, TypeOK, LoopType, Carded
<1>b. \A q \in Requests : q # r => (q \in InFlight' <=> q \in InFlight) /\ seen'[q] = seen[q]
  BY <1>1 DEF IInv, TypeOK, InFlight
<1>c. /\ r \notin InFlight /\ (r \in InFlight' <=> goesOn)
      /\ seen'[r] = loop /\ InFlight' \subseteq Requests /\ InFlight \subseteq Requests
  BY <1>1 DEF IInv, TypeOK, InFlight
<1>5. \A q \in Requests : FoundWaiting(q)'
  <2> TAKE q \in Requests
  <2>1. CASE q = r
    BY <1>1, <1>c, <2>1 DEF IInv, TypeOK, FoundWaiting, Found, ApplyJobOutcome
  <2>2. CASE q # r
    BY <1>1, <1>b, <2>2 DEF IInv, TypeOK, FoundWaiting, Found, ApplyJobOutcome
  <2> QED
    BY <2>1, <2>2
<1>7. Alone'
  <2> SUFFICES ASSUME ~overlapped'
               PROVE  /\ \A p, q \in InFlight' : p = q
                      /\ \A p \in InFlight' : seen'[p] = loop'
    BY DEF Alone
  <2>1. ~overlapped /\ (goesOn => InFlight = {})
    BY <1>1
  <2>2. CASE goesOn
    <3>1. InFlight' = {r}
      BY <1>b, <1>c, <2>1, <2>2
    <3> QED
      BY <1>1, <1>c, <3>1
  <2>3. CASE ~goesOn
    <3>1. InFlight' = InFlight /\ r \notin InFlight
      BY <1>b, <1>c, <2>3
    <3> QED
      BY <1>1, <1>b, <1>c, <2>1, <3>1 DEF IInv, Alone
  <2> QED
    BY <2>2, <2>3
<1>6. \A a \in Requests : Spent(a)' = Spent(a)
  BY <1>1 DEF IInv, TypeOK, Spent, KeepsOf
<1> QED
  BY <1>1, <1>2, <1>3, <1>4, <1>5, <1>6, <1>7 DEF IInv

\* A request ends, with an answer or without one: nothing is carried out.
LEMMA EndKeeps ==
  ASSUME IInv, NEW r \in Requests, NEW end \in {"answered", "dead"},
         pc[r] \in {"read", "kept"}, pc' = [pc EXCEPT ![r] = end],
         UNCHANGED <<kind, seen, carried, overlapped>>,
         loop' \in LoopType, Carded(loop)', failures' \in Nat
  PROVE  IInv'
<1>1. TypeOK'
  BY DEF IInv, TypeOK
<1>2. \A a \in Requests : pc[a] = "answered" => pc'[a] = "answered"
  BY DEF IInv, TypeOK
<1>a. InFlight' = InFlight \ {r} /\ r \in InFlight
  BY DEF IInv, TypeOK, InFlight
<1>3. \A q \in Requests : Carded(seen[q])' /\ FoundWaiting(q)'
  BY <1>2, <1>a DEF IInv, TypeOK, LoopType, Carded, FoundWaiting, Found, ApplyJobOutcome
<1>6. Alone'
  BY <1>a DEF IInv, Alone
<1>4. \A a \in Requests : carried'[a] <= Cardinality(Spent(a)')
  <2> TAKE a \in Requests
  <2>1. Spent(a) \subseteq Spent(a)' /\ Spent(a) \subseteq Requests
          /\ Spent(a)' \subseteq Requests
    BY DEF IInv, TypeOK, Spent, KeepsOf
  <2>2. Cardinality(Spent(a)) \in Nat /\ Cardinality(Spent(a)') \in Nat
    BY <2>1, SomeRequests
  <2>3. carried[a] <= Cardinality(Spent(a)) /\ carried[a] \in Nat
    BY DEF IInv, TypeOK
  <2> QED
    BY <2>1, <2>2, <2>3, SpentGrows
<1>5. \A a \in Requests : pc'[a] # "answered" => carried'[a] = 0
  BY <1>2 DEF IInv
<1> QED
  BY <1>1, <1>3, <1>4, <1>5, <1>6 DEF IInv

\* A keep carries out the action of the card it read, and is spent.
LEMMA CarryOutKeeps ==
  ASSUME IInv, NEW r \in Requests, CarryOut(r) PROVE IInv'
<1> DEFINE card == seen[r].card
<1>1. /\ kind[r] = "keep" /\ pc[r] = "read" /\ pc' = [pc EXCEPT ![r] = "kept"]
      /\ UNCHANGED <<loop, kind, seen, overlapped, failures>>
      /\ carried' = [carried EXCEPT ![card] = @ + 1] \/ carried' = carried
  BY DEF CarryOut, MayCarryOut
<1>2. card \in Requests /\ pc[card] = "answered" /\ card # r
  <2>1. seen[r].waiting
    BY <1>1 DEF IInv, FoundWaiting, Found, InFlight, Decisions
  <2> QED
    BY <1>1, <2>1 DEF IInv, TypeOK, LoopType, Carded
<1>3. TypeOK'
  BY <1>1, <1>2 DEF IInv, TypeOK
<1>4. \A a \in Requests : pc[a] = "answered" <=> pc'[a] = "answered"
  BY <1>1 DEF IInv, TypeOK
<1>a. InFlight' = InFlight
  BY <1>1 DEF IInv, TypeOK, InFlight
<1>5. Carded(loop)' /\ \A q \in Requests : Carded(seen[q])' /\ FoundWaiting(q)'
  BY <1>1, <1>4, <1>a DEF IInv, TypeOK, LoopType, Carded, FoundWaiting, Found, ApplyJobOutcome
<1>8. Alone'
  BY <1>1, <1>a DEF IInv, Alone
<1>6. \A a \in Requests : carried'[a] <= Cardinality(Spent(a)')
  <2> TAKE a \in Requests
  <2>1. Spent(a) \subseteq Requests /\ Spent(a)' \subseteq Requests
    BY DEF Spent, KeepsOf
  <2>2. Cardinality(Spent(a)) \in Nat /\ Cardinality(Spent(a)') \in Nat
          /\ IsFiniteSet(Spent(a))
    BY <2>1, SomeRequests
  <2>3. carried[a] <= Cardinality(Spent(a)) /\ carried[a] \in Nat
    BY DEF IInv, TypeOK
  <2>4. CASE a = card
    <3>1. Spent(a)' = Spent(a) \cup {r} /\ r \notin Spent(a)
      BY <1>1, <2>4 DEF IInv, TypeOK, Spent, KeepsOf
    <3>2. Cardinality(Spent(a)') = Cardinality(Spent(a)) + 1
      BY <2>2, <3>1, FS_AddElement
    <3>3. carried'[a] <= carried[a] + 1 /\ carried'[a] \in Nat
      BY <1>1, <1>2, <2>3, <2>4 DEF IInv, TypeOK
    <3> QED
      BY <2>2, <2>3, <3>2, <3>3
  <2>5. CASE a # card
    <3>1. Spent(a)' = Spent(a)
      BY <1>1, <2>5 DEF IInv, TypeOK, Spent, KeepsOf
    <3>2. carried'[a] = carried[a]
      BY <1>1, <1>2, <2>5 DEF IInv, TypeOK
    <3> QED
      BY <2>3, <3>1, <3>2
  <2> QED
    BY <2>4, <2>5
<1>7. \A a \in Requests : pc'[a] # "answered" => carried'[a] = 0
  BY <1>1, <1>2, <1>4 DEF IInv, TypeOK
<1> QED
  BY <1>3, <1>5, <1>6, <1>7, <1>8 DEF IInv

\* The strengthening is kept by every step of a request.
LEMMA NextCarded == IInv /\ [Next]_vars => IInv'
<1> SUFFICES ASSUME IInv, [Next]_vars PROVE IInv'
  OBVIOUS
<1>1. CASE UNCHANGED vars
  BY <1>1 DEF vars, IInv, TypeOK, Carded, FoundWaiting, Found, ApplyJobOutcome, Alone,
     InFlight,
              Spent, KeepsOf
<1>2. ASSUME NEW r \in Requests, Step(r) PROVE IInv'
  <2> USE <1>2
  <2>1. CASE WaitRead(r)
    <3>1. "wait" \in Kinds /\ (~loop.waiting => Found("wait", loop))
      BY DEF Kinds, Decisions, Found
    <3>2. (~loop.waiting) \in BOOLEAN
      OBVIOUS
    <3> QED
      BY <2>1, <3>1, <3>2, ReadKeeps DEF WaitRead
  <2>2. CASE \E d \in Decisions : DecisionRead(r, d)
    <3>1. PICK d \in Decisions : Read(r, d, loop.waiting)
      BY <2>2 DEF DecisionRead
    <3>2. d \in Kinds /\ loop.waiting \in BOOLEAN
      <4>1. loop \in LoopType
        BY DEF IInv, TypeOK
      <4>2. loop.waiting \in BOOLEAN
        BY <4>1, Zenon DEF LoopType
      <4> QED
        BY <4>2 DEF Kinds
    <3>3. loop.waiting => Found(d, loop)
      BY DEF Found, Decisions
    <3> QED
      BY <3>1, <3>2, <3>3, ReadKeeps
  <2>3. CASE \E o \in Outcomes : OutcomeRead(r, o)
    <3>1. PICK o \in Outcomes : Read(r, o, TRUE)
      BY <2>3 DEF OutcomeRead
    <3>2. o \in Kinds /\ Found(o, loop)
      BY DEF Kinds, Decisions, Outcomes, Found
    <3> QED
      BY <3>1, <3>2, ReadKeeps
  <2>4. CASE JobRead(r)
    <3>1. /\ "job" \in Kinds /\ ApplyJobOutcome(loop) \in BOOLEAN
          /\ ApplyJobOutcome(loop) => Found("job", loop)
      BY DEF Kinds, Decisions, ApplyJobOutcome, Found
    <3> QED
      BY <2>4, <3>1, ReadKeeps DEF JobRead
  <2>5. CASE WaitSave(r)
    <3>1. /\ pc[r] = "read" /\ kind[r] = "wait" /\ pc' = [pc EXCEPT ![r] = "answered"]
          /\ loop' = [seen[r] EXCEPT !.card = r, !.waiting = TRUE]
          /\ UNCHANGED <<kind, seen, carried, overlapped, failures>>
      BY <2>5 DEF WaitSave, Save
    <3>2. loop' \in LoopType /\ Carded(loop)' /\ failures' \in Nat
      BY <3>1, NoCardIsNoRequest DEF IInv, TypeOK, LoopType, Carded
    <3> QED
      BY <3>1, <3>2, EndKeeps
  <2>6. CASE DecisionSave(r) \/ OutcomeSave(r) \/ JobSave(r)
    <3>1. /\ pc[r] \in {"read", "kept"} /\ pc' = [pc EXCEPT ![r] = "answered"]
          /\ UNCHANGED <<kind, seen, carried, overlapped, failures>>
      BY <2>6 DEF DecisionSave, OutcomeSave, JobSave, Save
    <3>2. loop' \in LoopType /\ loop'.card = seen[r].card /\ (loop'.waiting => seen[r].waiting)
      <4>1. CASE DecisionSave(r)
        BY <4>1, RecordedType DEF DecisionSave, Save, IInv, TypeOK, LoopType, Outcomes
      <4>2. CASE OutcomeSave(r)
        BY <4>2 DEF OutcomeSave, Save, IInv, TypeOK, LoopType, Outcomes
      <4>3. CASE JobSave(r)
        BY <4>3 DEF JobSave, Save, IInv, TypeOK, LoopType, Outcomes
      <4> QED
        BY <2>6, <4>1, <4>2, <4>3
    <3>3. Carded(loop)' /\ failures' \in Nat
      BY <3>1, <3>2 DEF IInv, TypeOK, LoopType, Carded
    <3> QED
      BY <3>1, <3>2, <3>3, EndKeeps
  <2>7. CASE CarryOut(r)
    BY <2>7, CarryOutKeeps
  <2>8. CASE Fail(r)
    <3>1. /\ pc[r] \in {"read", "kept"} /\ pc' = [pc EXCEPT ![r] = "dead"]
          /\ UNCHANGED <<loop, kind, seen, carried, overlapped>> /\ failures' = failures + 1
      BY <2>8 DEF Fail, InFlight
    <3>2. loop' \in LoopType /\ Carded(loop)' /\ failures' \in Nat
      BY <3>1 DEF IInv, TypeOK, LoopType, Carded
    <3> QED
      BY <3>1, <3>2, EndKeeps
  <2> QED
    BY <2>1, <2>2, <2>3, <2>4, <2>5, <2>6, <2>7, <2>8 DEF Step
<1> QED
  BY <1>1, <1>2 DEF Next

\* An action is carried out at most once for every keep that found its card, and
\* never when its own call was refused, however requests overlap and die.
THEOREM OnlyTheKept == Spec => []OnlyKeptIsCarriedOut
<1>1. IInv => OnlyKeptIsCarriedOut
  <2> SUFFICES ASSUME IInv, NEW a \in Requests PROVE carried[a] <= Cardinality(KeepsOf(a))
    BY DEF OnlyKeptIsCarriedOut, IInv
  <2>1. Spent(a) \subseteq KeepsOf(a) /\ KeepsOf(a) \subseteq Requests
    BY DEF Spent, KeepsOf
  <2>2. Cardinality(Spent(a)) <= Cardinality(KeepsOf(a))
    BY <2>1, SomeRequests, FS_Subset
  <2>3. Cardinality(Spent(a)) \in Nat /\ Cardinality(KeepsOf(a)) \in Nat
    BY <2>1, SomeRequests
  <2> QED
    BY <2>2, <2>3 DEF IInv, TypeOK
<1> QED
  BY <1>1, InitCarded, NextCarded, PTL DEF Spec

-----------------------------------------------------------------------------
(* The loop keeps GoalCard until two requests overlap.                     *)

\* A request reads, or dies: the cards are what they were.
LEMMA QuietStep ==
  ASSUME IInv, NEW r \in Requests, NEW end \in {"read", "refused", "dead", "kept"},
         NEW k \in Kinds, pc[r] # "answered", pc' = [pc EXCEPT ![r] = end],
         kind' = [kind EXCEPT ![r] = k], UNCHANGED loop
  PROVE  phases' = phases
<1>1. \A a \in Requests : Phase(a)' = Phase(a)
  BY DEF IInv, TypeOK, Phase
<1> QED
  BY <1>1 DEF phases

\* Where requests do not overlap, a step of the loop is a step of the card or leaves it
\* alone.
LEMMA StepOfACard ==
  ASSUME IInv, NEW r \in Requests, Step(r), ~overlapped'
  PROVE  Card!Next \/ UNCHANGED <<phases, carriedOut>>
<1>1. CASE \E k \in Kinds, goesOn \in BOOLEAN : Read(r, k, goesOn)
  <2>1. PICK k \in Kinds, goesOn \in BOOLEAN : Read(r, k, goesOn)
    BY <1>1
  <2>2. phases' = phases
    <3>1. CASE goesOn
      BY <2>1, <3>1, QuietStep DEF Read
    <3>2. CASE ~goesOn
      BY <2>1, <3>2, QuietStep DEF Read
    <3> QED
      BY <3>1, <3>2
  <2> QED
    BY <2>1, <2>2 DEF Read, carriedOut
<1>2. CASE Fail(r)
  <2>1. /\ pc[r] # "answered" /\ pc' = [pc EXCEPT ![r] = "dead"]
        /\ kind' = [kind EXCEPT ![r] = kind[r]] /\ UNCHANGED <<loop, carried>>
    BY <1>2 DEF Fail, InFlight, IInv, TypeOK
  <2>2. phases' = phases
    <3>1. \A a \in Requests : Phase(a)' = Phase(a)
      BY <2>1 DEF IInv, TypeOK, Phase
    <3> QED
      BY <3>1 DEF phases
  <2> QED
    BY <2>1, <2>2 DEF carriedOut
<1>3. CASE CarryOut(r)
  <2> DEFINE card == seen[r].card
  <2>1. /\ kind[r] = "keep" /\ pc[r] = "read" /\ pc' = [pc EXCEPT ![r] = "kept"]
        /\ UNCHANGED <<loop, kind, seen, overlapped>>
        /\ carried' = [carried EXCEPT ![card] = @ + 1] \/ carried' = carried
    BY <1>3 DEF CarryOut, MayCarryOut
  <2>2. seen[r] = loop /\ loop.waiting
    BY <2>1 DEF IInv, Alone, FoundWaiting, Found, InFlight, Decisions
  <2>3. card \in Requests /\ pc[card] = "answered" /\ kind[card] = "wait"
    BY <2>2 DEF IInv, TypeOK, LoopType, Carded
  <2>4. phases' = phases
    <3>1. \A a \in Requests : Phase(a)' = Phase(a)
      BY <2>1 DEF IInv, TypeOK, Phase
    <3> QED
      BY <3>1 DEF phases
  <2>5. card \in Card!Waiting
    BY <2>2, <2>3 DEF Card!Waiting, phases, Phase
  <2>6. CASE carried' = carried
    BY <2>4, <2>6 DEF carriedOut
  <2>7. CASE carried' = [carried EXCEPT ![card] = @ + 1]
    <3>1. carriedOut' = carriedOut \cup {card}
      BY <2>3, <2>7 DEF carriedOut, IInv, TypeOK
    <3>2. Card!CarryOut(card)
      BY <2>4, <2>5, <3>1 DEF Card!CarryOut
    <3> QED
      BY <2>3, <3>2 DEF Card!Next
  <2> QED
    BY <2>1, <2>6, <2>7
<1>4. CASE WaitSave(r)
  <2>1. /\ kind[r] = "wait" /\ pc[r] = "read" /\ pc' = [pc EXCEPT ![r] = "answered"]
        /\ loop' = [seen[r] EXCEPT !.card = r, !.waiting = TRUE]
        /\ UNCHANGED <<kind, carried, overlapped>>
    BY <1>4 DEF WaitSave, Save
  <2>2. ~loop.waiting /\ seen[r] = loop
    BY <2>1 DEF IInv, Alone, FoundWaiting, Found, InFlight
  <2>3. loop'.card = r /\ loop'.waiting
    BY <2>1 DEF IInv, TypeOK, LoopType
  <2>4. /\ Phase(r) = "none" /\ Phase(r)' = "waiting"
        /\ \A a \in Requests : a # r => Phase(a)' = Phase(a)
        /\ \A a \in Requests : Phase(a) # "waiting"
    BY <2>1, <2>2, <2>3 DEF IInv, TypeOK, Phase
  <2>5. Card!Open(r)
    BY <2>1, <2>4 DEF Card!Open, Card!Waiting, phases, carriedOut
  <2> QED
    BY <2>5 DEF Card!Next
<1>5. CASE DecisionSave(r)
  <2>1. /\ kind[r] \in Decisions /\ pc[r] \in {"read", "kept"}
        /\ pc' = [pc EXCEPT ![r] = "answered"] /\ UNCHANGED <<kind, carried, overlapped>>
        /\ loop' = [seen[r] EXCEPT !.waiting = FALSE, !.decisions = Recorded(r),
                                   !.outcome = IF @ = "none" THEN "unknown" ELSE @]
    BY <1>5 DEF DecisionSave, Save
  <2>2. seen[r] = loop /\ loop.waiting
    BY <2>1 DEF IInv, Alone, FoundWaiting, Found, InFlight
  <2>3. PICK card \in Requests :
          card = loop.card /\ pc[card] = "answered" /\ kind[card] = "wait"
    BY <2>2 DEF IInv, TypeOK, LoopType, Carded
  <2>4. loop'.card = card /\ ~loop'.waiting
    BY <2>1, <2>2, <2>3 DEF IInv, TypeOK, LoopType
  <2>5. \A a \in Requests : kind[a] = "wait" => (pc'[a] = "answered" <=> pc[a] = "answered")
    BY <2>1 DEF IInv, TypeOK, Decisions
  <2>6. Phase(card) = "waiting" /\ Phase(card)' = "decided"
    BY <2>1, <2>2, <2>3, <2>4, <2>5 DEF Phase
  <2>7. ASSUME NEW a \in Requests, a # card PROVE Phase(a)' = Phase(a)
    BY <2>1, <2>2, <2>4, <2>5, <2>7 DEF Phase
  <2>8. phases' = [phases EXCEPT ![card] = "decided"]
    BY <2>3, <2>6, <2>7 DEF phases
  <2>9. Card!Decide(card)
    BY <2>1, <2>3, <2>6, <2>8 DEF Card!Decide, Card!Waiting, phases, carriedOut
  <2> QED
    BY <2>3, <2>9 DEF Card!Next
<1>6. CASE OutcomeSave(r) \/ JobSave(r)
  <2>1. /\ kind[r] # "wait" /\ pc[r] = "read"
        /\ pc' = [pc EXCEPT ![r] = "answered"] /\ UNCHANGED <<kind, carried, overlapped>>
    BY <1>6 DEF OutcomeSave, JobSave, Save, Outcomes
  <2>2. seen[r] = loop
    BY <2>1 DEF IInv, Alone, InFlight
  <2>3. loop'.card = loop.card /\ loop'.waiting = loop.waiting
    BY <1>6, <2>2 DEF OutcomeSave, JobSave, Save, IInv, TypeOK, LoopType
  <2>4. \A a \in Requests : Phase(a)' = Phase(a)
    BY <2>1, <2>3 DEF IInv, TypeOK, Phase
  <2> QED
    BY <2>1, <2>4 DEF phases, carriedOut
<1>7. WaitRead(r) \/ (\E d \in Decisions : DecisionRead(r, d))
        \/ (\E o \in Outcomes : OutcomeRead(r, o)) \/ JobRead(r)
      => \E k \in Kinds, goesOn \in BOOLEAN : Read(r, k, goesOn)
  <2>1. loop \in LoopType
    BY DEF IInv, TypeOK
  <2>2. loop.waiting \in BOOLEAN /\ (~loop.waiting) \in BOOLEAN
    BY <2>1, Zenon DEF LoopType
  <2>3. ApplyJobOutcome(loop) \in BOOLEAN
    BY DEF ApplyJobOutcome
  <2>4. "wait" \in Kinds /\ "job" \in Kinds
    BY DEF Kinds
  <2>5. CASE WaitRead(r)
    <3>1. Read(r, "wait", ~loop.waiting)
      BY <2>5 DEF WaitRead
    <3> QED
      BY <2>2, <2>4, <3>1
  <2>6. ASSUME NEW d \in Decisions, DecisionRead(r, d)
        PROVE  \E k \in Kinds, goesOn \in BOOLEAN : Read(r, k, goesOn)
    <3>1. d \in Kinds /\ Read(r, d, loop.waiting)
      BY <2>6 DEF DecisionRead, Kinds
    <3> QED
      BY <2>2, <3>1
  <2>7. ASSUME NEW o \in Outcomes, OutcomeRead(r, o)
        PROVE  \E k \in Kinds, goesOn \in BOOLEAN : Read(r, k, goesOn)
    <3>1. o \in Kinds /\ Read(r, o, TRUE)
      BY <2>7 DEF OutcomeRead, Kinds
    <3> QED
      BY <3>1
  <2>8. CASE JobRead(r)
    BY <2>3, <2>4, <2>8 DEF JobRead
  <2> QED
    BY <2>5, <2>6, <2>7, <2>8
<1> QED
  BY <1>1, <1>2, <1>3, <1>4, <1>5, <1>6, <1>7 DEF Step

\* Until two requests overlap the loop implements GoalCard: one waiting card at a
\* time, nothing carried out unless its card waits, and no answered card waits again.
THEOREM TheLoopKeepsTheCard == Spec => CardPromise
<1>1. Init => Card!Init
  <2> SUFFICES ASSUME Init PROVE Card!Init
    OBVIOUS
  <2>1. \A a \in Requests : Phase(a) = "none" /\ ~(carried[a] > 0)
    BY DEF Init, Phase
  <2> QED
    BY <2>1 DEF Card!Init, phases, carriedOut
<1>2. IInv /\ [Next]_vars => [overlapped' \/ Card!Next]_<<phases, carriedOut>>
  <2> SUFFICES ASSUME IInv, [Next]_vars, ~overlapped'
               PROVE  Card!Next \/ UNCHANGED <<phases, carriedOut>>
    OBVIOUS
  <2>1. CASE UNCHANGED vars
    BY <2>1 DEF vars, phases, Phase, carriedOut
  <2>2. CASE Next
    BY <2>2, StepOfACard DEF Next
  <2> QED
    BY <2>1, <2>2
<1> QED
  BY <1>1, <1>2, InitCarded, NextCarded, PTL DEF Spec, CardPromise

-----------------------------------------------------------------------------
(* What a lone write leaves, and how often a lone keep acts.               *)

\* The newest decision is first, and behind it those that still have room.
LEMMA RecordedOrder ==
  ASSUME TypeOK, NEW r \in Requests
  PROVE  /\ Recorded(r)[1] = r
         /\ \A i \in 1..Len(seen[r].decisions) :
              i < DecisionsKept => Recorded(r)[i + 1] = seen[r].decisions[i]
<1> DEFINE old == seen[r].decisions
           all == <<r>> \o old
           n == IF Len(old) < DecisionsKept THEN Len(old) + 1 ELSE DecisionsKept
<1>1. old \in Seq(Requests) /\ <<r>> \in Seq(Requests) /\ Len(<<r>>) = 1 /\ <<r>>[1] = r
  BY DEF TypeOK, LoopType
<1>2. /\ all \in Seq(Requests) /\ Len(all) = 1 + Len(old)
      /\ \A i \in 1..(1 + Len(old)) : all[i] = IF i <= 1 THEN <<r>>[i] ELSE old[i - 1]
  BY <1>1, ConcatProperties
<1>3. n \in Nat /\ 1 <= n /\ n <= Len(all) /\ Len(old) \in Nat
  BY <1>1, <1>2, KeptAssumption
<1>4. \A i \in 1..n : all[i] \in Requests
  BY <1>2, <1>3, ElementOfSeq
<1>5. \A i \in 1..n : SubSeq(all, 1, n)[i] = all[i]
  <2> HIDE DEF all, n
  <2>1. \A i \in 1..(n - 1 + 1) : SubSeq(all, 1, n)[i] = all[1 + i - 1]
    BY <1>3, <1>4, SubSeqProperties
  <2> QED
    BY <1>3, <2>1
<1>6. Recorded(r) = SubSeq(all, 1, n)
  BY DEF Recorded
<1>7. all[1] = r
  BY <1>1, <1>2, <1>3
<1>8. ASSUME NEW i \in 1..Len(old), i < DecisionsKept
      PROVE  i + 1 \in 1..n /\ all[i + 1] = old[i]
  <2>1. i + 1 \in 1..n
    BY <1>3, <1>8, KeptAssumption
  <2>2. i + 1 \in 1..(1 + Len(old)) /\ ~(i + 1 <= 1) /\ (i + 1) - 1 = i
    BY <1>3
  <2> QED
    BY <1>2, <2>1, <2>2
<1> HIDE DEF all, n, old
<1>9. Recorded(r)[1] = r
  BY <1>3, <1>5, <1>6, <1>7
<1>10. \A i \in 1..Len(old) : i < DecisionsKept => Recorded(r)[i + 1] = old[i]
  BY <1>5, <1>6, <1>8
<1> QED
  BY <1>9, <1>10 DEF old

\* An answer to a decision, and the end of a job, are written by requests of that kind.
LEMMA WhoSaves ==
  ASSUME IInv, Next, NEW r \in Requests, pc'[r] = "answered", pc[r] # "answered"
  PROVE  /\ kind[r] \in Decisions => DecisionSave(r)
         /\ kind[r] = "job" => JobSave(r)
<1>1. PICK q \in Requests : Step(q)
  BY DEF Next
<1>2. WaitSave(q) \/ DecisionSave(q) \/ OutcomeSave(q) \/ JobSave(q)
  BY <1>1 DEF Step, WaitRead, DecisionRead, CarryOut, OutcomeRead, JobRead, Fail, Read, IInv,
     TypeOK
<1>3. q = r
  BY <1>2 DEF WaitSave, DecisionSave, OutcomeSave, JobSave, Save, IInv, TypeOK
<1> QED
  BY <1>2, <1>3 DEF WaitSave, DecisionSave, OutcomeSave, JobSave, Decisions, Outcomes

\* Until two requests overlap, a decision loses none that still has room and the end
\* of a job writes over nothing.
THEOREM NoLoneWriteLoses == Spec => LoneWritesLoseNothing
<1> DEFINE Kept == \A r \in Requests :
                     /\ kind[r] \in Decisions /\ pc'[r] = "answered" /\ pc[r] # "answered"
                     /\ ~overlapped
                     => /\ loop'.decisions[1] = r
                        /\ \A i \in 1..Len(loop.decisions) :
                             i < DecisionsKept => loop'.decisions[i + 1] = loop.decisions[i]
           Filled == \A r \in Requests : ~overlapped => FillsIn(r)
<1>1. IInv /\ [Next]_vars => [Kept]_vars
  <2> SUFFICES ASSUME IInv, Next, NEW r \in Requests, kind[r] \in Decisions,
                      pc'[r] = "answered", pc[r] # "answered", ~overlapped
               PROVE  /\ loop'.decisions[1] = r
                      /\ \A i \in 1..Len(loop.decisions) :
                           i < DecisionsKept => loop'.decisions[i + 1] = loop.decisions[i]
    OBVIOUS
  <2>1. DecisionSave(r)
    BY WhoSaves
  <2>2. seen[r] = loop
    BY <2>1 DEF DecisionSave, IInv, Alone, InFlight
  <2>3. loop'.decisions = Recorded(r)
    <3>1. loop' = [seen[r] EXCEPT !.waiting = FALSE, !.decisions = Recorded(r),
                                  !.outcome = IF @ = "none" THEN "unknown" ELSE @]
      BY <2>1 DEF DecisionSave, Save
    <3> QED
      BY <3>1 DEF IInv, TypeOK, LoopType
  <2>4. TypeOK
    BY DEF IInv
  <2> QED
    BY <2>2, <2>3, <2>4, RecordedOrder
<1>2. IInv /\ [Next]_vars => [Filled]_vars
  <2> SUFFICES ASSUME IInv, Next, NEW r \in Requests, ~overlapped, kind[r] = "job",
                      pc[r] = "read", pc'[r] = "answered", loop' # loop
               PROVE  /\ loop.outcome = "none" /\ ~loop.waiting
                      /\ loop' = [loop EXCEPT !.outcome = "unknown"]
    BY DEF FillsIn
  <2>1. JobSave(r)
    BY WhoSaves
  <2>2. seen[r] = loop /\ ApplyJobOutcome(loop)
    BY <2>1 DEF JobSave, IInv, Alone, FoundWaiting, Found, InFlight
  <2> QED
    BY <2>1, <2>2 DEF JobSave, Save, ApplyJobOutcome
<1>3. Spec => [][Kept]_vars /\ [][Filled]_vars
  BY <1>1, <1>2, InitCarded, NextCarded, PTL DEF Spec
<1> QED
  BY <1>3 DEF LoneWritesLoseNothing, DecisionsAreKept, LoneJobOnlyFillsIn

\* While requests neither overlap nor die, an action that was carried out has left
\* its card, or the keep that did it is about to take the card away.
Once ==
  ~overlapped /\ failures = 0 =>
    \A a \in Requests :
      /\ carried[a] <= 1
      /\ carried[a] > 0 /\ loop.waiting /\ loop.card = a =>
           \E q \in Requests : pc[q] = "kept" /\ seen[q].card = a

\* Nothing is carried out, and who is about to take a card away still is.
LEMMA OnceStays ==
  ASSUME IInv, Once, NEW r \in Requests, pc[r] # "kept", UNCHANGED carried,
         ~overlapped' => ~overlapped, failures' = 0 => failures = 0,
         \A q \in Requests : q # r => pc'[q] = pc[q] /\ seen'[q] = seen[q],
         \/ UNCHANGED loop
         \/ loop'.waiting = loop.waiting /\ loop'.card = loop.card
         \/ ~loop'.waiting
         \/ loop'.card = r /\ carried[r] = 0
         \/ overlapped
  PROVE  Once'
<1> SUFFICES ASSUME ~overlapped', failures' = 0, NEW a \in Requests
             PROVE  /\ carried'[a] <= 1
                    /\ carried'[a] > 0 /\ loop'.waiting /\ loop'.card = a =>
                         \E q \in Requests : pc'[q] = "kept" /\ seen'[q].card = a
  BY DEF Once
<1>1. carried[a] <= 1 /\ carried[a] \in Nat
  BY DEF Once, IInv, TypeOK
<1>2. ASSUME carried[a] > 0, loop'.waiting, loop'.card = a
      PROVE  \E q \in Requests : pc'[q] = "kept" /\ seen'[q].card = a
  <2>a. carried[a] # 0 /\ ~overlapped /\ loop'.waiting
    BY <1>1, <1>2
  <2>b. ~(loop'.card = r /\ carried[r] = 0)
    BY <1>2, <2>a
  <2>1. loop.waiting /\ loop.card = a
    BY <1>2, <2>a, <2>b
  <2>2. PICK q \in Requests : pc[q] = "kept" /\ seen[q].card = a
    BY <1>2, <2>1 DEF Once
  <2> QED
    BY <2>2
<1> QED
  BY <1>1, <1>2

\* No step carries an answer out twice.
LEMMA NextOnce == IInv /\ Once /\ [Next]_vars => Once'
<1> SUFFICES ASSUME IInv, Once, [Next]_vars PROVE Once'
  OBVIOUS
<1>1. CASE UNCHANGED vars
  BY <1>1 DEF vars, Once
<1>2. ASSUME NEW r \in Requests, Step(r) PROVE Once'
  <2>1. CASE WaitRead(r) \/ (\E d \in Decisions : DecisionRead(r, d))
              \/ (\E o \in Outcomes : OutcomeRead(r, o)) \/ JobRead(r)
    <3>1. /\ pc[r] = "idle" /\ UNCHANGED <<loop, carried, failures>>
          /\ \A q \in Requests : q # r => pc'[q] = pc[q] /\ seen'[q] = seen[q]
          /\ ~overlapped' => ~overlapped
      BY <2>1 DEF WaitRead, DecisionRead, OutcomeRead, JobRead, Read, IInv, TypeOK
    <3> QED
      BY <3>1, OnceStays
  <2>2. CASE WaitSave(r)
    <3>1. /\ pc[r] = "read" /\ pc' = [pc EXCEPT ![r] = "answered"]
          /\ UNCHANGED <<seen, carried, overlapped, failures>> /\ carried[r] = 0
          /\ loop' = [seen[r] EXCEPT !.card = r, !.waiting = TRUE]
      BY <2>2 DEF WaitSave, Save, IInv
    <3>2. loop'.card = r
      BY <3>1 DEF IInv, TypeOK, LoopType
    <3> QED
      BY <3>1, <3>2, OnceStays DEF IInv, TypeOK
  <2>3. CASE DecisionSave(r)
    <3>1. ~loop'.waiting /\ UNCHANGED <<carried, overlapped, failures>>
      BY <2>3 DEF DecisionSave, Save, IInv, TypeOK, LoopType
    <3> QED
      BY <3>1 DEF Once
  <2>4. CASE OutcomeSave(r) \/ JobSave(r)
    <3>1. /\ pc[r] = "read" /\ pc' = [pc EXCEPT ![r] = "answered"]
          /\ UNCHANGED <<seen, carried, overlapped, failures>>
      BY <2>4 DEF OutcomeSave, JobSave, Save
    <3>2. ~overlapped => seen[r] = loop
      BY <3>1 DEF IInv, Alone, InFlight
    <3>3. ~overlapped => loop'.waiting = loop.waiting /\ loop'.card = loop.card
      BY <2>4, <3>2 DEF OutcomeSave, JobSave, Save, IInv, TypeOK, LoopType
    <3> QED
      BY <3>1, <3>3, OnceStays DEF IInv, TypeOK
  <2>5. CASE CarryOut(r)
    <3>1. /\ kind[r] = "keep" /\ pc[r] = "read" /\ pc' = [pc EXCEPT ![r] = "kept"]
          /\ UNCHANGED <<loop, seen, overlapped, failures>>
          /\ carried' = [carried EXCEPT ![seen[r].card] = @ + 1] \/ carried' = carried
      BY <2>5 DEF CarryOut, MayCarryOut
    <3> SUFFICES ASSUME ~overlapped, failures = 0, NEW a \in Requests
                 PROVE  /\ carried'[a] <= 1
                        /\ carried'[a] > 0 /\ loop.waiting /\ loop.card = a =>
                             \E q \in Requests : pc'[q] = "kept" /\ seen[q].card = a
      BY <3>1 DEF Once
    <3>2. seen[r] = loop /\ loop.waiting /\ \A q \in Requests : pc[q] # "kept"
      BY <3>1 DEF IInv, Alone, FoundWaiting, Found, InFlight, Decisions
    <3>3. pc'[r] = "kept"
      BY <3>1 DEF IInv, TypeOK
    <3>4. carried[a] \in Nat /\ carried[a] <= 1 /\ (loop.card = a => ~(carried[a] > 0))
      BY <3>2 DEF Once, IInv, TypeOK
    <3>5. carried'[a] <= 1
      BY <3>1, <3>2, <3>4 DEF IInv, TypeOK
    <3> QED
      BY <3>2, <3>3, <3>5
  <2>6. CASE Fail(r)
    BY <2>6 DEF Fail, Once, IInv, TypeOK
  <2> QED
    BY <1>2, <2>1, <2>2, <2>3, <2>4, <2>5, <2>6 DEF Step
<1> QED
  BY <1>1, <1>2 DEF Next

\* A kept action is carried out once while requests neither overlap nor die.
THEOREM ALoneKeepActsOnce == Spec => []LoneKeepCarriesOutOnce
<1>1. Init => Once
  BY DEF Init, Once
<1>2. Once => LoneKeepCarriesOutOnce
  BY DEF Once, LoneKeepCarriesOutOnce, CarriedOutOnce
<1> QED
  BY <1>1, <1>2, InitCarded, NextCarded, NextOnce, PTL DEF Spec
=============================================================================
