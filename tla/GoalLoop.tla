------------------------------ MODULE GoalLoop ------------------------------
(***************************************************************************)
(* The loop column of one goal (server/src/loop: store.ts, wait.ts and     *)
(* routes.ts).                                                             *)
(*                                                                         *)
(* Four kinds of request read the whole column, compute a new value and    *)
(* write it back: a high-risk tool call that must wait, an owner's         *)
(* decision, an owner's outcome, and the end of a job.  Nothing locks the  *)
(* row and the UPDATE compares nothing, so what a request writes is        *)
(* computed from the value it read, however old that is.  A keep calls the *)
(* pending tool between its read and its write.                            *)
(*                                                                         *)
(* A card is named by the request that opened it, a decision record by the *)
(* request that decided.  The texts of the card, the note, the job ids and *)
(* expectedImpact are left out: no guard reads them.                       *)
(***************************************************************************)
EXTENDS Naturals, Sequences, FiniteSets

CONSTANTS MaxRequests,   \* bound: requests ever made about this goal
          MaxInFlight,   \* how many of them may be under way at once
          MaxFailures,   \* bound: requests that die under way
          DecisionsKept  \* DECISIONS_KEPT

ASSUME KeptAssumption == DecisionsKept \in Nat \ {0}
ASSUME RequestsAssumption == MaxRequests \in Nat

\* Numbered in the order they are made.
Requests == 1..MaxRequests
NoCard == 0

Decisions == {"keep", "revise", "revert"}
Outcomes == {"worked", "didn't", "unknown"}
Kinds == {"wait", "job"} \cup Decisions \cup Outcomes

VARIABLES loop,    \* channels.loop
          kind,    \* kind[r]: what request r is, "none" before it is made
          pc,      \* pc[r]
          seen,    \* seen[r]: the loop it read
          carried, \* carried[a]: how often the action of card a was carried out
          overlapped, \* history: two requests have been under way at once
          failures

vars == <<loop, kind, pc, seen, carried, overlapped, failures>>

EmptyLoop == [card |-> NoCard, waiting |-> FALSE,
              decisions |-> <<>>, outcome |-> "none"]

Init == /\ loop = EmptyLoop
        /\ kind = [r \in Requests |-> "none"]
        /\ pc = [r \in Requests |-> "idle"]
        /\ seen = [r \in Requests |-> EmptyLoop]
        /\ carried = [r \in Requests |-> 0]
        /\ overlapped = FALSE
        /\ failures = 0

InFlight == {r \in Requests : pc[r] \in {"read", "kept"}}

(***************************************************************************)
(* The first step of every request: GoalLoopStore.get.  Some have nothing  *)
(* to do with what they read and end there.                                *)
(***************************************************************************)
Read(r, k, goesOn) ==
  /\ pc[r] = "idle" /\ \A q \in 1..(r - 1) : pc[q] # "idle"
  /\ Cardinality(InFlight) < MaxInFlight
  /\ kind' = [kind EXCEPT ![r] = k]
  /\ seen' = [seen EXCEPT ![r] = loop]
  /\ pc' = [pc EXCEPT ![r] = IF goesOn THEN "read" ELSE "refused"]
  /\ overlapped' = (overlapped \/ (goesOn /\ InFlight # {}))
  /\ UNCHANGED <<loop, carried, failures>>

\* Its last step: GoalLoopStore.save, and the answer.
Save(r, next) == /\ loop' = next
                 /\ pc' = [pc EXCEPT ![r] = "answered"]
                 /\ UNCHANGED <<kind, seen, carried, overlapped, failures>>

(***************************************************************************)
(* createHighRiskWait, in the scope of a goal: a second card is refused.   *)
(***************************************************************************)
WaitRead_AnyCard(r) == Read(r, "wait", TRUE)

WaitRead(r) == Read(r, "wait", ~loop.waiting)

WaitSave(r) == /\ kind[r] = "wait" /\ pc[r] = "read"
               /\ Save(r, [seen[r] EXCEPT !.card = r, !.waiting = TRUE])

(***************************************************************************)
(* POST /loop/decision.  409 unless a card waits; a keep carries the       *)
(* pending action out, whose own call to createHighRiskWait returns null   *)
(* because the scope says carryOutHighRisk.  The tool may also be gone or  *)
(* refuse: the decision is recorded all the same.                          *)
(***************************************************************************)
DecisionRead(r, d) == Read(r, d, loop.waiting)

MayCarryOut_AnyDecision(r) == kind[r] \in Decisions /\ pc[r] = "read"

MayCarryOut(r) == kind[r] = "keep" /\ pc[r] = "read"

CarryOut(r) == /\ MayCarryOut(r)
               /\ pc' = [pc EXCEPT ![r] = "kept"]
               /\ \/ carried' = [carried EXCEPT ![seen[r].card] = @ + 1]
                  \/ UNCHANGED carried
               /\ UNCHANGED <<loop, kind, seen, overlapped, failures>>

\* The decisions an answer leaves on the goal, newest first.
Recorded_DropsNewest(r) ==
  SubSeq(seen[r].decisions \o <<r>>, 1,
         IF Len(seen[r].decisions) < DecisionsKept
         THEN Len(seen[r].decisions) + 1 ELSE DecisionsKept)

Recorded(r) ==
  SubSeq(<<r>> \o seen[r].decisions, 1,
         IF Len(seen[r].decisions) < DecisionsKept
         THEN Len(seen[r].decisions) + 1 ELSE DecisionsKept)

DecisionSave_DecisionAsOutcome(r) ==
  /\ kind[r] \in Decisions
  /\ pc[r] = IF kind[r] = "keep" THEN "kept" ELSE "read"
  /\ Save(r, [seen[r] EXCEPT !.waiting = FALSE,
                             !.decisions = Recorded(r), !.outcome = kind[r]])

DecisionSave_CardStays(r) ==
  /\ kind[r] \in Decisions
  /\ pc[r] = IF kind[r] = "keep" THEN "kept" ELSE "read"
  /\ Save(r, [seen[r] EXCEPT !.decisions = Recorded(r),
                             !.outcome = IF @ = "none" THEN "unknown" ELSE @])

DecisionSave(r) ==
  /\ kind[r] \in Decisions
  /\ pc[r] = IF kind[r] = "keep" THEN "kept" ELSE "read"
  /\ Save(r, [seen[r] EXCEPT !.waiting = FALSE,
                             !.decisions = Recorded(r),
                             !.outcome = IF @ = "none" THEN "unknown" ELSE @])

(***************************************************************************)
(* POST /loop/outcome, and recordUnknownOutcomeIfAbsent at the end of a    *)
(* job.                                                                    *)
(***************************************************************************)
OutcomeRead(r, o) == Read(r, o, TRUE)

OutcomeSave(r) == /\ kind[r] \in Outcomes /\ pc[r] = "read"
                  /\ Save(r, [seen[r] EXCEPT !.outcome = kind[r]])

ApplyJobOutcome_Always(l) == TRUE

ApplyJobOutcome(l) == l.outcome = "none" /\ ~l.waiting

JobRead(r) == Read(r, "job", ApplyJobOutcome(loop))

JobSave(r) == /\ kind[r] = "job" /\ pc[r] = "read"
              /\ Save(r, [seen[r] EXCEPT !.outcome = "unknown"])

\* A request dies between its steps: its tool or its UPDATE throws, or the
\* process stops.
Fail(r) == /\ r \in InFlight
           /\ failures < MaxFailures
           /\ failures' = failures + 1
           /\ pc' = [pc EXCEPT ![r] = "dead"]
           /\ UNCHANGED <<loop, kind, seen, carried, overlapped>>

Step(r) == \/ WaitRead(r) \/ WaitSave(r)
           \/ \E d \in Decisions : DecisionRead(r, d)
           \/ CarryOut(r) \/ DecisionSave(r)
           \/ \E o \in Outcomes : OutcomeRead(r, o)
           \/ OutcomeSave(r)
           \/ JobRead(r) \/ JobSave(r)
           \/ Fail(r)

Next == \E r \in Requests : Step(r)

Spec == Init /\ [][Next]_vars

-----------------------------------------------------------------------------
LoopType == [card : Requests \cup {NoCard}, waiting : BOOLEAN,
             decisions : Seq(Requests), outcome : Outcomes \cup {"none"}]

(***************************************************************************)
(* Every column, written or still in a request's hands, is a loop.         *)
(***************************************************************************)
TypeOK == /\ loop \in LoopType
          /\ kind \in [Requests -> Kinds \cup {"none"}]
          /\ pc \in [Requests -> {"idle", "read", "kept", "answered",
                                  "refused", "dead"}]
          /\ seen \in [Requests -> LoopType]
          /\ carried \in [Requests -> Nat]
          /\ overlapped \in BOOLEAN
          /\ failures \in Nat

KeepsOf(a) == {r \in Requests : kind[r] = "keep" /\ seen[r].card = a}

(***************************************************************************)
(* However requests overlap and die, an action is carried out at most once *)
(* for every keep that found its card waiting, and never when its own call *)
(* was refused because another card waited.                                *)
(***************************************************************************)
OnlyKeptIsCarriedOut ==
  TypeOK /\ \A a \in Requests :
    /\ carried[a] <= Cardinality(KeepsOf(a))
    /\ pc[a] # "answered" => carried[a] = 0

(***************************************************************************)
(* Until two requests overlap the loop keeps GoalCard: one waiting card at *)
(* a time, nothing carried out unless its card waits, and an answered card *)
(* never waits again, even when requests die half way.                     *)
(***************************************************************************)
Phase(a) == IF kind[a] # "wait" \/ pc[a] # "answered" THEN "none"
            ELSE IF loop.card = a /\ loop.waiting THEN "waiting" ELSE "decided"

phases == [a \in Requests |-> Phase(a)]
carriedOut == {a \in Requests : carried[a] > 0}

Card == INSTANCE GoalCard WITH
          Cards <- Requests, phase <- phases, carried <- carriedOut

CardPromise == /\ Card!Init
               /\ [][overlapped' \/ Card!Next]_<<phases, carriedOut>>

(***************************************************************************)
(* Until two requests overlap every answered decision is still on the goal *)
(* unless DECISIONS_KEPT newer ones pushed it out, so what the next turn   *)
(* is told of is the decision made last.                                   *)
(***************************************************************************)
DecisionsAreKept ==
  [][\A r \in Requests :
       /\ kind[r] \in Decisions /\ pc'[r] = "answered" /\ pc[r] # "answered"
       /\ ~overlapped
       => /\ loop'.decisions[1] = r
          /\ \A i \in 1..Len(loop.decisions) :
               i < DecisionsKept => loop'.decisions[i + 1] = loop.decisions[i]]_vars

(***************************************************************************)
(* The end of a job writes "unknown" where there is no outcome and no      *)
(* waiting card, and nothing else (recordUnknownOutcomeIfAbsent): always   *)
(* so in JobOnlyFillsIn, and until two requests overlap in                 *)
(* LoneJobOnlyFillsIn.                                                     *)
(***************************************************************************)
FillsIn(r) ==
  kind[r] = "job" /\ pc[r] = "read" /\ pc'[r] = "answered" /\ loop' # loop
  => /\ loop.outcome = "none" /\ ~loop.waiting
     /\ loop' = [loop EXCEPT !.outcome = "unknown"]

JobOnlyFillsIn == [][\A r \in Requests : FillsIn(r)]_vars

LoneJobOnlyFillsIn == [][\A r \in Requests : ~overlapped => FillsIn(r)]_vars

\* Until two requests overlap no write loses what another had put there.
LoneWritesLoseNothing == DecisionsAreKept /\ LoneJobOnlyFillsIn

(***************************************************************************)
(* A kept action is carried out once (routes.ts, decision): always so in   *)
(* CarriedOutOnce, and while no request has overlapped another or died in  *)
(* LoneKeepCarriesOutOnce.                                                 *)
(***************************************************************************)
CarriedOutOnce == \A a \in Requests : carried[a] <= 1

LoneKeepCarriesOutOnce == ~overlapped /\ failures = 0 => CarriedOutOnce

(***************************************************************************)
(* A coworker told to wait for its owner has its card on the goal until    *)
(* some decision has found it there (wait.ts).                             *)
(***************************************************************************)
OpenCardIsShown ==
  \A a \in Requests :
    kind[a] = "wait" /\ pc[a] = "answered"
    => \/ loop.card = a /\ loop.waiting
       \/ \E r \in Requests : kind[r] \in Decisions /\ seen[r].card = a

(***************************************************************************)
(* Once a revise or a revert of a card was answered, its action is not     *)
(* carried out any more (routes.ts, decision).                             *)
(***************************************************************************)
RevisedIsNotCarriedOut ==
  [][\A a, r \in Requests :
       /\ kind[r] \in {"revise", "revert"} /\ pc[r] = "answered"
       /\ seen[r].card = a
       => carried'[a] = carried[a]]_vars
=============================================================================
