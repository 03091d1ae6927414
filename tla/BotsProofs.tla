------------------------------ MODULE BotsProofs ------------------------------
(***************************************************************************)
(* One Bot and what surrounds it, for any number of calls, people, tools   *)
(* and whatever else the parts of Bots are bounded by: the type invariant  *)
(* of Wheel and its hand-over, the promises of Supervisor, of the settings *)
(* and of Crm.                                                             *)
(***************************************************************************)
EXTENDS Bots, FiniteSetTheorems, TLAPS

\* Every variable keeps its type in every behaviour of the control state.
THEOREM TypeCorrect == Spec => []TypeOK
<1>1. ASSUME Init PROVE TypeOK
  <2>1. requested \in BOOLEAN /\ stopping \in BOOLEAN
    BY <1>1, Zenon DEF Init
  <2> QED
    BY <1>1, <2>1, WheelAssumption DEF WheelAssumption, Init, TypeOK, Call
<1>2. TypeOK /\ [Next]_vars => TypeOK'
  <2> SUFFICES ASSUME TypeOK, [Next]_vars PROVE TypeOK'
    OBVIOUS
  <2> USE WheelAssumption DEF WheelAssumption, TypeOK, Call
  <2>1. CASE RequestHelp
    BY <2>1 DEF RequestHelp, calls
  <2>2. CASE Take
    <3>1. requested' \in BOOLEAN
      BY <2>2, Zenon DEF Take
    <3>2. drivers' \subseteq BotCalls \union PersonCalls
      BY <2>2 DEF Take, BotsIn
    <3> QED
      BY <2>2, <3>1, <3>2 DEF Take
  <2>a. ASSUME Released
        PROVE  /\ requested' \in BOOLEAN
               /\ drivers' \subseteq BotCalls \union PersonCalls
    <3>1. requested' \in BOOLEAN
      BY <2>a, Zenon DEF Released
    <3>2. drivers' \subseteq BotCalls \union PersonCalls
      BY <2>a DEF Released, PeopleIn
    <3> QED
      BY <3>1, <3>2
  <2>3. CASE Release
    <3>1. Released
      BY <2>3 DEF Release
    <3>2. requested' \in BOOLEAN /\ drivers' \subseteq BotCalls \union PersonCalls
      BY <3>1, <2>a
    <3> QED
      BY <2>3, <3>2 DEF Release, Released
  <2>4. CASE Stop
    BY <2>4 DEF Stop, control, calls
  <2>5. CASE Stopped
    <3>1. stopping' \in BOOLEAN
      BY <2>5, Zenon DEF Stopped
    <3>2. Released
      BY <2>5 DEF Stopped
    <3>3. requested' \in BOOLEAN /\ drivers' \subseteq BotCalls \union PersonCalls
      BY <3>2, <2>a
    <3> QED
      BY <2>5, <3>1, <3>3 DEF Stopped, Released
  <2>6. CASE BotStep
    <3>1. PICK c \in BotCalls : BotChecks(c) \/ BotActs(c) \/ BotEnds(c)
      BY <2>6 DEF BotStep
    <3> QED
      BY <3>1 DEF BotChecks, BotActs, BotEnds, control
  <2>7. CASE PersonStep
    <3>1. PICK p \in PersonCalls :
            PersonChecks(p) \/ PersonActs(p) \/ PersonEnds(p)
      BY <2>7 DEF PersonStep
    <3> QED
      BY <3>1 DEF PersonChecks, PersonActs, PersonEnds, control
  <2>8. CASE RequestSecret
    BY <2>8 DEF RequestSecret, calls
  <2>9. ASSUME NEW u \in Supplies,
               SupplyBegins(u) \/ SupplyRefused(u) \/ SupplyLands(u) \/ SupplyFails(u)
        PROVE TypeOK'
    <3>1. CASE SupplyBegins(u)
      BY <3>1 DEF SupplyBegins, control, calls
    <3>2. CASE SupplyRefused(u)
      BY <3>2 DEF SupplyRefused, control, calls
    <3>3. CASE SupplyLands(u)
      <4>1. supply[u] \in 1..MaxAsks
        BY <3>3 DEF SupplyLands
      <4>2. typed' \subseteq 1..MaxAsks
        BY <3>3, <4>1 DEF SupplyLands, Answered
      <4>3. supply' \in [Supplies -> 0..MaxAsks]
        BY <3>3 DEF SupplyLands
      <4>4. UNCHANGED <<holder, requested, asked, bot, person, drivers, stopping>>
        BY <3>3 DEF SupplyLands, calls
      <4>5. secret' \in 0..MaxAsks
        BY <3>3 DEF SupplyLands
      <4> QED
        BY <4>2, <4>3, <4>4, <4>5
    <3>4. CASE SupplyFails(u)
      BY <3>4 DEF SupplyFails, calls
    <3> QED
      BY <2>9, <3>1, <3>2, <3>3, <3>4
  <2>10. CASE UNCHANGED vars
    BY <2>10 DEF vars
  <2> QED
    BY <2>1, <2>2, <2>3, <2>4, <2>5, <2>6, <2>7, <2>8, <2>9, <2>10
    DEF Next, SecretStep
<1> QED
  BY <1>1, <1>2, PTL DEF Spec

\* Whoever does not hold the wheel has only the calls at the browser that were
\* there when it changed hands: take, release, stop and reset let no call in,
\* and a call that has ended is not followed by another.
THEOREM HandOverLetsNoCallIn == Spec => []OnlyCallsThatWereIn
<1>1. Init => OnlyCallsThatWereIn
  BY DEF Init, OnlyCallsThatWereIn, BotsIn, PeopleIn
<1>2. TypeOK /\ OnlyCallsThatWereIn /\ [Next]_vars => OnlyCallsThatWereIn'
  <2> SUFFICES ASSUME TypeOK, OnlyCallsThatWereIn, [Next]_vars
               PROVE OnlyCallsThatWereIn'
    OBVIOUS
  <2> USE DEF OnlyCallsThatWereIn, BotsIn, PeopleIn
  <2>1. CASE UNCHANGED <<holder, calls>>
    BY <2>1 DEF calls
  <2>2. CASE Take
    BY <2>2 DEF Take, TypeOK
  <2>3. CASE Released /\ UNCHANGED <<bot, person>>
    BY <2>3 DEF Released, TypeOK
  <2>4. CASE BotStep
    <3>1. PICK c \in BotCalls : BotChecks(c) \/ BotActs(c) \/ BotEnds(c)
      BY <2>4 DEF BotStep
    <3>2. /\ UNCHANGED <<holder, person>>
          /\ \A d \in BotCalls : d # c => bot'[d] = bot[d]
      BY <3>1 DEF BotChecks, BotActs, BotEnds, control, TypeOK
    <3>3. CASE BotChecks(c)
      BY <3>2, <3>3 DEF BotChecks, MayAct
    <3>4. CASE BotActs(c)
      BY <3>2, <3>4 DEF BotActs
    <3>5. CASE BotEnds(c)
      BY <3>2, <3>5 DEF BotEnds, TypeOK
    <3> QED
      BY <3>1, <3>3, <3>4, <3>5
  <2>5. CASE PersonStep
    <3>1. PICK p \in PersonCalls :
            PersonChecks(p) \/ PersonActs(p) \/ PersonEnds(p)
      BY <2>5 DEF PersonStep
    <3>2. /\ UNCHANGED <<holder, bot>>
          /\ \A q \in PersonCalls : q # p => person'[q] = person[q]
      BY <3>1 DEF PersonChecks, PersonActs, PersonEnds, control, TypeOK
    <3>3. CASE PersonChecks(p)
      BY <3>2, <3>3 DEF PersonChecks, MayDrive
    <3>4. CASE PersonActs(p)
      BY <3>2, <3>4 DEF PersonActs
    <3>5. CASE PersonEnds(p)
      BY <3>2, <3>5 DEF PersonEnds, TypeOK
    <3> QED
      BY <3>1, <3>3, <3>4, <3>5
  <2> QED
    <3>1. RequestHelp \/ Stop \/ SecretStep => UNCHANGED <<holder, calls>>
      BY DEF RequestHelp, Stop, SecretStep, RequestSecret, SupplyBegins,
             SupplyRefused, SupplyLands, SupplyFails, control
    <3>2. Release \/ Stopped => Released /\ UNCHANGED <<bot, person>>
      BY DEF Release, Stopped
    <3>3. UNCHANGED vars => UNCHANGED <<holder, calls>>
      BY DEF vars, calls
    <3> QED
      BY <2>1, <2>2, <2>3, <2>4, <2>5, <3>1, <3>2, <3>3 DEF Next
<1> QED
  BY <1>1, <1>2, TypeCorrect, PTL DEF Spec

\* The invariant the run checks, for any calls and any number of requests.
THEOREM HandOverHolds == Spec => []HandOver
  BY TypeCorrect, HandOverLetsNoCallIn, PTL DEF HandOver

-----------------------------------------------------------------------------
(* The container and the profile of one Bot.                               *)

\* A call that no container of somebody else's has disturbed.
Undisturbed(c) == disturbed[c] \cap {"held", "foreign"} = {}

\* Types, and what the numbers say: the name is free when nobody has it, a doomed
\* profile was made before, and a call that is not over has an attempt left.
Numbered ==
  /\ Supervisor!TypeOK
  /\ box.id = 0 <=> box.whose = "nobody"
  /\ profile <= made
  /\ \A c \in Supervisor!Calls :
       /\ doomed[c] <= made
       /\ pc[c] \notin Supervisor!Ended => left[c] > 0

\* Where a call can be, by its kind.
Placed ==
  \A c \in Supervisor!Calls :
    /\ kind[c] = "none" <=> pc[c] = "idle"
    /\ pc[c] = "idle" => left[c] = Attempts
    /\ pc[c] = "stop" => kind[c] = "stop"
    /\ pc[c] \in {"remove", "profile"} => kind[c] = "reset"
    /\ pc[c] \in {"volumes", "create", "conflict", "start", "settle", "wait"} =>
         kind[c] = "ensure"

\* Two calls under way know of each other, and of a foreign container.
Noticed ==
  /\ \A c, d \in Supervisor!Calls :
       c # d /\ Supervisor!Running(c) /\ Supervisor!Running(d) => kind[d] \in disturbed[c]
  /\ \A c \in Supervisor!Calls :
       Supervisor!Running(c) /\ Undisturbed(c) => box.whose # "foreign"

\* Without a reset the container an ensure has seen stays.
Stays ==
  Supervisor!Resets = {} =>
    \A c \in Supervisor!Calls :
      kind[c] = "ensure" /\ pc[c] \in {"start", "settle", "wait", "ok"} =>
        /\ Supervisor!Owned
        /\ pc[c] \in {"wait", "ok"} => answer[c] = box.id

\* A reset of its own stands behind every attempt an ensure has lost.
Removers == {d \in Supervisor!Calls : kind[d] = "reset" /\ pc[d] \in {"profile", "ok"}}

Lost(c) == Attempts - left[c] + (IF pc[c] = "start" /\ box.id = 0 THEN 1 ELSE 0)

Accounted ==
  \A c \in Supervisor!Calls :
    kind[c] = "ensure" /\ Undisturbed(c) =>
      /\ Lost(c) <= Cardinality(Removers)
      /\ pc[c] = "docker" => left[c] = 0

\* An ensure that is told the name is held lost it to an ensure, and that one's
\* container went with a reset.
Outrun ==
  \A c \in Supervisor!Calls :
    kind[c] = "ensure" /\ Undisturbed(c) =>
      /\ pc[c] \in {"volumes", "create"} /\ box.id # 0 => "ensure" \in disturbed[c]
      /\ pc[c] \in {"conflict", "held"} => "ensure" \in disturbed[c]
      /\ pc[c] = "conflict" /\ box.id = 0 => "reset" \in disturbed[c]
      /\ pc[c] = "held" => "reset" \in disturbed[c]

\* A reset that no ensure disturbs finds the name free of ours, and the profile that
\* is made after it is another one.
Thrown ==
  \A c \in Supervisor!Calls :
    kind[c] = "reset" /\ "ensure" \notin disturbed[c] =>
      /\ pc[c] = "profile" => ~Supervisor!Owned
      /\ pc[c] = "ok" => profile = 0 \/ profile > doomed[c]

\* A call that has not seen a foreign container come, and that finds one at the
\* name, has got no further than being told that the name is taken.
ToldOfForeign ==
  \A c \in Supervisor!Calls :
    Supervisor!Running(c) /\ box.whose = "foreign" /\ "foreign" \notin disturbed[c] =>
      pc[c] \in {"inspect", "volumes", "create", "conflict"}

SupervisorInv ==
  /\ Numbered /\ Placed /\ Noticed /\ ToldOfForeign
  /\ Stays /\ Accounted /\ Outrun /\ Thrown

\* What takes the name in the middle of a call.
LEMMA AForeignContainer ==
  Supervisor!Foreign \subseteq
    [id : {made + 1}, whose : {"foreign"}, status : {"running", "exited"}]
  BY DEF Supervisor!Foreign, Supervisor!Ours

\* Types and numbers stay what they are.
LEMMA NumberedIsKept ==
  ASSUME Numbered, Placed, [Supervisor!Next]_supervisor
  PROVE  Numbered'
<1> USE SupervisorAssumption DEF Numbered, Supervisor!TypeOK, Supervisor!Ended,
            Supervisor!Goto, Supervisor!progress
<1>1. ASSUME NEW c \in Supervisor!Calls, Supervisor!EnsureInspect(c) PROVE Numbered'
  BY <1>1 DEF Supervisor!EnsureInspect, Supervisor!Owned
<1>2. ASSUME NEW c \in Supervisor!Calls, Supervisor!CreateVolumes(c) PROVE Numbered'
  BY <1>2 DEF Supervisor!CreateVolumes, Supervisor!ProfileThere
<1>3. ASSUME NEW c \in Supervisor!Calls, Supervisor!CreateContainer(c) PROVE Numbered'
  BY <1>3 DEF Supervisor!CreateContainer, Supervisor!ProfileThere, Supervisor!Ours
<1>4. ASSUME NEW c \in Supervisor!Calls, Supervisor!Conflict(c) PROVE Numbered'
  BY <1>4 DEF Supervisor!Conflict, Supervisor!Owned
<1>5. ASSUME NEW c \in Supervisor!Calls, Supervisor!Start(c) PROVE Numbered'
  BY <1>5 DEF Supervisor!Start
<1>6. ASSUME NEW c \in Supervisor!Calls, Supervisor!Settle(c) PROVE Numbered'
  BY <1>6 DEF Supervisor!Settle, Supervisor!Owned
<1>7. ASSUME NEW c \in Supervisor!Calls, Supervisor!Answers(c) PROVE Numbered'
  BY <1>7 DEF Supervisor!Answers
<1>8. ASSUME NEW c \in Supervisor!Calls, Supervisor!Deadline(c) PROVE Numbered'
  BY <1>8 DEF Supervisor!Deadline
<1>9. ASSUME NEW c \in Supervisor!Calls, Supervisor!InspectFirst(c) PROVE Numbered'
  BY <1>9 DEF Supervisor!InspectFirst, Supervisor!Owned
<1>10. ASSUME NEW c \in Supervisor!Calls, Supervisor!StopContainer(c) PROVE Numbered'
  BY <1>10 DEF Supervisor!StopContainer
<1>11. ASSUME NEW c \in Supervisor!Calls, Supervisor!RemoveContainer(c) PROVE Numbered'
  <2>1. /\ box' = Supervisor!Gone /\ doomed' = [doomed EXCEPT ![c] = profile]
        /\ pc' = [pc EXCEPT ![c] = "profile"] /\ pc[c] \notin Supervisor!Ended
        /\ UNCHANGED <<made, profile, kind, left, answer, disturbed>>
    BY <1>11 DEF Supervisor!RemoveContainer
  <2>2. /\ doomed' \in [Supervisor!Calls -> 0..MaxMade]
        /\ box' \in [id : 0..MaxMade, whose : {"nobody", "ours", "foreign"},
                     status : {"none", "created", "running", "exited"}]
        /\ box'.id = 0 /\ box'.whose = "nobody"
    BY <2>1 DEF Supervisor!Gone
  <2>3. pc' \in [Supervisor!Calls -> {"idle", "inspect", "volumes", "create", "conflict",
                  "start", "settle", "wait", "stop", "remove",
                  "profile"} \cup Supervisor!Ended]
    BY <2>1
  <2>4. Supervisor!TypeOK'
    BY <2>1, <2>2, <2>3
  <2>5. ASSUME NEW d \in Supervisor!Calls
        PROVE  doomed'[d] <= made' /\ (pc'[d] \notin Supervisor!Ended => left'[d] > 0)
    <3>1. left'[d] = left[d] /\ (pc'[d] \notin Supervisor!Ended
                                 => pc[d] \notin Supervisor!Ended)
      BY <2>1
    <3>2. doomed'[d] \in {doomed[d], profile} /\ made' = made
      BY <2>1
    <3> QED
      BY <3>1, <3>2
  <2> QED
    BY <2>1, <2>2, <2>4, <2>5
<1>12. ASSUME NEW c \in Supervisor!Calls, Supervisor!RemoveProfile(c) PROVE Numbered'
  BY <1>12 DEF Supervisor!RemoveProfile
<1>13. ASSUME NEW c \in Supervisor!Calls, NEW k \in {"ensure", "stop", "reset"},
              Supervisor!Begin(c, k)
      PROVE  Numbered'
  <2>1. /\ disturbed' \in [Supervisor!Calls ->
                             SUBSET {"ensure", "stop", "reset", "held", "foreign"}]
    <3>1. \A e \in Supervisor!Calls : Supervisor!Running(e) => kind[e] # "none"
      BY DEF Supervisor!Running, Placed
    <3> QED
      BY <1>13, <3>1 DEF Supervisor!Begin
  <2> QED
    BY <1>13, <2>1 DEF Supervisor!Begin
<1>14. CASE Supervisor!ForeignComes
  <2>1. /\ box.id = 0 /\ made < MaxMade
        /\ box' \in [id : {made + 1}, whose : {"foreign"}, status : {"running", "exited"}]
        /\ made' = made + 1
        /\ UNCHANGED <<profile, pc, kind, left, answer, doomed>>
    BY <1>14, AForeignContainer DEF Supervisor!ForeignComes
  <2>2. disturbed' \in [Supervisor!Calls ->
                           SUBSET {"ensure", "stop", "reset", "held", "foreign"}]
    BY <1>14 DEF Supervisor!ForeignComes
  <2>3. box' \in [id : 0..MaxMade, whose : {"nobody", "ours", "foreign"},
                  status : {"none", "created", "running", "exited"}]
        /\ box'.id # 0 /\ box'.whose = "foreign"
    BY <2>1
  <2> QED
    BY <2>1, <2>2, <2>3
<1>15. CASE Supervisor!ForeignGoes
  BY <1>15 DEF Supervisor!ForeignGoes, Supervisor!Gone
<1>16. CASE UNCHANGED supervisor
  BY <1>16 DEF supervisor
<1> QED
  BY <1>1, <1>2, <1>3, <1>4, <1>5, <1>6, <1>7, <1>8, <1>9,
     <1>10, <1>11, <1>12, <1>13, <1>14, <1>15, <1>16
     DEF Supervisor!Next, Supervisor!CallStep

\* A call stays where its kind can be.
LEMMA PlacedIsKept ==
  ASSUME Numbered, Placed, [Supervisor!Next]_supervisor
  PROVE  Placed'
<1> USE DEF Numbered, Supervisor!TypeOK, Placed, Supervisor!Ended, Supervisor!Goto,
            Supervisor!progress
<1>1. ASSUME NEW c \in Supervisor!Calls, Supervisor!EnsureInspect(c) PROVE Placed'
  BY <1>1 DEF Supervisor!EnsureInspect, Supervisor!Owned
<1>2. ASSUME NEW c \in Supervisor!Calls, Supervisor!CreateVolumes(c) PROVE Placed'
  BY <1>2 DEF Supervisor!CreateVolumes, Supervisor!ProfileThere
<1>3. ASSUME NEW c \in Supervisor!Calls, Supervisor!CreateContainer(c) PROVE Placed'
  BY <1>3 DEF Supervisor!CreateContainer, Supervisor!ProfileThere, Supervisor!Ours
<1>4. ASSUME NEW c \in Supervisor!Calls, Supervisor!Conflict(c) PROVE Placed'
  BY <1>4 DEF Supervisor!Conflict, Supervisor!Owned
<1>5. ASSUME NEW c \in Supervisor!Calls, Supervisor!Start(c) PROVE Placed'
  BY <1>5 DEF Supervisor!Start
<1>6. ASSUME NEW c \in Supervisor!Calls, Supervisor!Settle(c) PROVE Placed'
  BY <1>6 DEF Supervisor!Settle, Supervisor!Owned
<1>7. ASSUME NEW c \in Supervisor!Calls, Supervisor!Answers(c) PROVE Placed'
  BY <1>7 DEF Supervisor!Answers
<1>8. ASSUME NEW c \in Supervisor!Calls, Supervisor!Deadline(c) PROVE Placed'
  BY <1>8 DEF Supervisor!Deadline
<1>9. ASSUME NEW c \in Supervisor!Calls, Supervisor!InspectFirst(c) PROVE Placed'
  BY <1>9 DEF Supervisor!InspectFirst, Supervisor!Owned
<1>10. ASSUME NEW c \in Supervisor!Calls, Supervisor!StopContainer(c) PROVE Placed'
  BY <1>10 DEF Supervisor!StopContainer
<1>11. ASSUME NEW c \in Supervisor!Calls, Supervisor!RemoveContainer(c) PROVE Placed'
  BY <1>11 DEF Supervisor!RemoveContainer, Supervisor!Gone
<1>12. ASSUME NEW c \in Supervisor!Calls, Supervisor!RemoveProfile(c) PROVE Placed'
  BY <1>12 DEF Supervisor!RemoveProfile
<1>13. ASSUME NEW c \in Supervisor!Calls, NEW k \in {"ensure", "stop", "reset"},
              Supervisor!Begin(c, k)
      PROVE  Placed'
  BY <1>13 DEF Supervisor!Begin
<1>14. CASE Supervisor!ForeignComes
  BY <1>14 DEF Supervisor!ForeignComes, Supervisor!Foreign, Supervisor!Ours
<1>15. CASE Supervisor!ForeignGoes
  BY <1>15 DEF Supervisor!ForeignGoes, Supervisor!Gone
<1>16. CASE UNCHANGED supervisor
  BY <1>16 DEF supervisor
<1> QED
  BY <1>1, <1>2, <1>3, <1>4, <1>5, <1>6, <1>7, <1>8, <1>9,
     <1>10, <1>11, <1>12, <1>13, <1>14, <1>15, <1>16
     DEF Supervisor!Next, Supervisor!CallStep

\* Calls under way keep knowing of each other.
LEMMA NoticedIsKept ==
  ASSUME Numbered, Placed, Noticed, [Supervisor!Next]_supervisor
  PROVE  Noticed'
<1> USE DEF Numbered, Supervisor!TypeOK, Placed, Noticed, Undisturbed, Supervisor!Running,
            Supervisor!Ended, Supervisor!Goto, Supervisor!progress
<1>1. ASSUME NEW c \in Supervisor!Calls, Supervisor!EnsureInspect(c) PROVE Noticed'
  BY <1>1 DEF Supervisor!EnsureInspect, Supervisor!Owned
<1>2. ASSUME NEW c \in Supervisor!Calls, Supervisor!CreateVolumes(c) PROVE Noticed'
  BY <1>2 DEF Supervisor!CreateVolumes, Supervisor!ProfileThere
<1>3. ASSUME NEW c \in Supervisor!Calls, Supervisor!CreateContainer(c) PROVE Noticed'
  BY <1>3 DEF Supervisor!CreateContainer, Supervisor!ProfileThere, Supervisor!Ours
<1>4. ASSUME NEW c \in Supervisor!Calls, Supervisor!Conflict(c) PROVE Noticed'
  BY <1>4 DEF Supervisor!Conflict, Supervisor!Owned
<1>5. ASSUME NEW c \in Supervisor!Calls, Supervisor!Start(c) PROVE Noticed'
  BY <1>5 DEF Supervisor!Start
<1>6. ASSUME NEW c \in Supervisor!Calls, Supervisor!Settle(c) PROVE Noticed'
  BY <1>6 DEF Supervisor!Settle, Supervisor!Owned
<1>7. ASSUME NEW c \in Supervisor!Calls, Supervisor!Answers(c) PROVE Noticed'
  BY <1>7 DEF Supervisor!Answers
<1>8. ASSUME NEW c \in Supervisor!Calls, Supervisor!Deadline(c) PROVE Noticed'
  BY <1>8 DEF Supervisor!Deadline
<1>9. ASSUME NEW c \in Supervisor!Calls, Supervisor!InspectFirst(c) PROVE Noticed'
  BY <1>9 DEF Supervisor!InspectFirst, Supervisor!Owned
<1>10. ASSUME NEW c \in Supervisor!Calls, Supervisor!StopContainer(c) PROVE Noticed'
  BY <1>10 DEF Supervisor!StopContainer
<1>11. ASSUME NEW c \in Supervisor!Calls, Supervisor!RemoveContainer(c) PROVE Noticed'
  BY <1>11 DEF Supervisor!RemoveContainer, Supervisor!Gone
<1>12. ASSUME NEW c \in Supervisor!Calls, Supervisor!RemoveProfile(c) PROVE Noticed'
  BY <1>12 DEF Supervisor!RemoveProfile
<1>13. ASSUME NEW c \in Supervisor!Calls, NEW k \in {"ensure", "stop", "reset"},
              Supervisor!Begin(c, k)
      PROVE  Noticed'
  BY <1>13 DEF Supervisor!Begin
<1>14. CASE Supervisor!ForeignComes
  BY <1>14 DEF Supervisor!ForeignComes, Supervisor!Foreign, Supervisor!Ours
<1>15. CASE Supervisor!ForeignGoes
  BY <1>15 DEF Supervisor!ForeignGoes, Supervisor!Gone
<1>16. CASE UNCHANGED supervisor
  BY <1>16 DEF supervisor
<1> QED
  BY <1>1, <1>2, <1>3, <1>4, <1>5, <1>6, <1>7, <1>8, <1>9,
     <1>10, <1>11, <1>12, <1>13, <1>14, <1>15, <1>16
     DEF Supervisor!Next, Supervisor!CallStep

\* Nobody gets further with a container of somebody else's.
LEMMA ToldIsKept ==
  ASSUME Numbered, Placed, ToldOfForeign, [Supervisor!Next]_supervisor
  PROVE  ToldOfForeign'
<1> USE DEF Numbered, Supervisor!TypeOK, Placed, ToldOfForeign, Supervisor!Running,
            Supervisor!Owned, Supervisor!Ended,
            Supervisor!Goto, Supervisor!progress
<1>1. ASSUME NEW c \in Supervisor!Calls, Supervisor!EnsureInspect(c) PROVE ToldOfForeign'
  BY <1>1 DEF Supervisor!EnsureInspect, Supervisor!Owned
<1>2. ASSUME NEW c \in Supervisor!Calls, Supervisor!CreateVolumes(c) PROVE ToldOfForeign'
  BY <1>2 DEF Supervisor!CreateVolumes, Supervisor!ProfileThere
<1>3. ASSUME NEW c \in Supervisor!Calls, Supervisor!CreateContainer(c) PROVE ToldOfForeign'
  BY <1>3 DEF Supervisor!CreateContainer, Supervisor!ProfileThere, Supervisor!Ours
<1>4. ASSUME NEW c \in Supervisor!Calls, Supervisor!Conflict(c) PROVE ToldOfForeign'
  BY <1>4 DEF Supervisor!Conflict, Supervisor!Owned
<1>5. ASSUME NEW c \in Supervisor!Calls, Supervisor!Start(c) PROVE ToldOfForeign'
  BY <1>5 DEF Supervisor!Start
<1>6. ASSUME NEW c \in Supervisor!Calls, Supervisor!Settle(c) PROVE ToldOfForeign'
  BY <1>6 DEF Supervisor!Settle, Supervisor!Owned
<1>7. ASSUME NEW c \in Supervisor!Calls, Supervisor!Answers(c) PROVE ToldOfForeign'
  BY <1>7 DEF Supervisor!Answers
<1>8. ASSUME NEW c \in Supervisor!Calls, Supervisor!Deadline(c) PROVE ToldOfForeign'
  BY <1>8 DEF Supervisor!Deadline
<1>9. ASSUME NEW c \in Supervisor!Calls, Supervisor!InspectFirst(c) PROVE ToldOfForeign'
  BY <1>9 DEF Supervisor!InspectFirst, Supervisor!Owned
<1>10. ASSUME NEW c \in Supervisor!Calls, Supervisor!StopContainer(c) PROVE ToldOfForeign'
  BY <1>10 DEF Supervisor!StopContainer
<1>11. ASSUME NEW c \in Supervisor!Calls, Supervisor!RemoveContainer(c) PROVE ToldOfForeign'
  BY <1>11 DEF Supervisor!RemoveContainer, Supervisor!Gone
<1>12. ASSUME NEW c \in Supervisor!Calls, Supervisor!RemoveProfile(c) PROVE ToldOfForeign'
  BY <1>12 DEF Supervisor!RemoveProfile
<1>13. ASSUME NEW c \in Supervisor!Calls, NEW k \in {"ensure", "stop", "reset"},
              Supervisor!Begin(c, k)
      PROVE  ToldOfForeign'
  BY <1>13 DEF Supervisor!Begin
<1>14. CASE Supervisor!ForeignComes
  BY <1>14 DEF Supervisor!ForeignComes, Supervisor!Foreign, Supervisor!Ours
<1>15. CASE Supervisor!ForeignGoes
  BY <1>15 DEF Supervisor!ForeignGoes, Supervisor!Gone
<1>16. CASE UNCHANGED supervisor
  BY <1>16 DEF supervisor
<1> QED
  BY <1>1, <1>2, <1>3, <1>4, <1>5, <1>6, <1>7, <1>8, <1>9,
     <1>10, <1>11, <1>12, <1>13, <1>14, <1>15, <1>16
     DEF Supervisor!Next, Supervisor!CallStep

\* Only a reset takes away what an ensure has seen.
LEMMA StaysIsKept ==
  ASSUME Numbered, Placed, Stays, [Supervisor!Next]_supervisor
  PROVE  Stays'
<1> USE DEF Numbered, Supervisor!TypeOK, Placed, Stays, Supervisor!Resets, Supervisor!Owned,
            Supervisor!Ended,
            Supervisor!Goto, Supervisor!progress
<1>1. ASSUME NEW c \in Supervisor!Calls, Supervisor!EnsureInspect(c) PROVE Stays'
  BY <1>1 DEF Supervisor!EnsureInspect, Supervisor!Owned
<1>2. ASSUME NEW c \in Supervisor!Calls, Supervisor!CreateVolumes(c) PROVE Stays'
  BY <1>2 DEF Supervisor!CreateVolumes, Supervisor!ProfileThere
<1>3. ASSUME NEW c \in Supervisor!Calls, Supervisor!CreateContainer(c) PROVE Stays'
  BY <1>3 DEF Supervisor!CreateContainer, Supervisor!ProfileThere, Supervisor!Ours
<1>4. ASSUME NEW c \in Supervisor!Calls, Supervisor!Conflict(c) PROVE Stays'
  BY <1>4 DEF Supervisor!Conflict, Supervisor!Owned
<1>5. ASSUME NEW c \in Supervisor!Calls, Supervisor!Start(c) PROVE Stays'
  BY <1>5 DEF Supervisor!Start
<1>6. ASSUME NEW c \in Supervisor!Calls, Supervisor!Settle(c) PROVE Stays'
  BY <1>6 DEF Supervisor!Settle, Supervisor!Owned
<1>7. ASSUME NEW c \in Supervisor!Calls, Supervisor!Answers(c) PROVE Stays'
  BY <1>7 DEF Supervisor!Answers
<1>8. ASSUME NEW c \in Supervisor!Calls, Supervisor!Deadline(c) PROVE Stays'
  BY <1>8 DEF Supervisor!Deadline
<1>9. ASSUME NEW c \in Supervisor!Calls, Supervisor!InspectFirst(c) PROVE Stays'
  BY <1>9 DEF Supervisor!InspectFirst, Supervisor!Owned
<1>10. ASSUME NEW c \in Supervisor!Calls, Supervisor!StopContainer(c) PROVE Stays'
  BY <1>10 DEF Supervisor!StopContainer
<1>11. ASSUME NEW c \in Supervisor!Calls, Supervisor!RemoveContainer(c) PROVE Stays'
  BY <1>11 DEF Supervisor!RemoveContainer, Supervisor!Gone
<1>12. ASSUME NEW c \in Supervisor!Calls, Supervisor!RemoveProfile(c) PROVE Stays'
  BY <1>12 DEF Supervisor!RemoveProfile
<1>13. ASSUME NEW c \in Supervisor!Calls, NEW k \in {"ensure", "stop", "reset"},
              Supervisor!Begin(c, k)
      PROVE  Stays'
  BY <1>13 DEF Supervisor!Begin
<1>14. CASE Supervisor!ForeignComes
  BY <1>14 DEF Supervisor!ForeignComes, Supervisor!Foreign, Supervisor!Ours
<1>15. CASE Supervisor!ForeignGoes
  BY <1>15 DEF Supervisor!ForeignGoes, Supervisor!Gone
<1>16. CASE UNCHANGED supervisor
  BY <1>16 DEF supervisor
<1> QED
  BY <1>1, <1>2, <1>3, <1>4, <1>5, <1>6, <1>7, <1>8, <1>9,
     <1>10, <1>11, <1>12, <1>13, <1>14, <1>15, <1>16
     DEF Supervisor!Next, Supervisor!CallStep

\* Only other calls outrun an ensure.
LEMMA OutrunIsKept ==
  ASSUME Numbered, Placed, Noticed, Outrun, [Supervisor!Next]_supervisor
  PROVE  Outrun'
<1> USE DEF Numbered, Supervisor!TypeOK, Placed, Noticed, Undisturbed, Outrun,
            Supervisor!Running,
            Supervisor!Ended, Supervisor!Goto, Supervisor!progress
<1>1. ASSUME NEW c \in Supervisor!Calls, Supervisor!EnsureInspect(c) PROVE Outrun'
  BY <1>1 DEF Supervisor!EnsureInspect, Supervisor!Owned
<1>2. ASSUME NEW c \in Supervisor!Calls, Supervisor!CreateVolumes(c) PROVE Outrun'
  BY <1>2 DEF Supervisor!CreateVolumes, Supervisor!ProfileThere
<1>3. ASSUME NEW c \in Supervisor!Calls, Supervisor!CreateContainer(c) PROVE Outrun'
  BY <1>3 DEF Supervisor!CreateContainer, Supervisor!ProfileThere, Supervisor!Ours
<1>4. ASSUME NEW c \in Supervisor!Calls, Supervisor!Conflict(c) PROVE Outrun'
  BY <1>4 DEF Supervisor!Conflict, Supervisor!Owned
<1>5. ASSUME NEW c \in Supervisor!Calls, Supervisor!Start(c) PROVE Outrun'
  BY <1>5 DEF Supervisor!Start
<1>6. ASSUME NEW c \in Supervisor!Calls, Supervisor!Settle(c) PROVE Outrun'
  BY <1>6 DEF Supervisor!Settle, Supervisor!Owned
<1>7. ASSUME NEW c \in Supervisor!Calls, Supervisor!Answers(c) PROVE Outrun'
  BY <1>7 DEF Supervisor!Answers
<1>8. ASSUME NEW c \in Supervisor!Calls, Supervisor!Deadline(c) PROVE Outrun'
  BY <1>8 DEF Supervisor!Deadline
<1>9. ASSUME NEW c \in Supervisor!Calls, Supervisor!InspectFirst(c) PROVE Outrun'
  BY <1>9 DEF Supervisor!InspectFirst, Supervisor!Owned
<1>10. ASSUME NEW c \in Supervisor!Calls, Supervisor!StopContainer(c) PROVE Outrun'
  BY <1>10 DEF Supervisor!StopContainer
<1>11. ASSUME NEW c \in Supervisor!Calls, Supervisor!RemoveContainer(c) PROVE Outrun'
  BY <1>11 DEF Supervisor!RemoveContainer, Supervisor!Gone
<1>12. ASSUME NEW c \in Supervisor!Calls, Supervisor!RemoveProfile(c) PROVE Outrun'
  BY <1>12 DEF Supervisor!RemoveProfile
<1>13. ASSUME NEW c \in Supervisor!Calls, NEW k \in {"ensure", "stop", "reset"},
              Supervisor!Begin(c, k)
      PROVE  Outrun'
  BY <1>13 DEF Supervisor!Begin
<1>14. CASE Supervisor!ForeignComes
  BY <1>14 DEF Supervisor!ForeignComes, Supervisor!Foreign, Supervisor!Ours
<1>15. CASE Supervisor!ForeignGoes
  BY <1>15 DEF Supervisor!ForeignGoes, Supervisor!Gone
<1>16. CASE UNCHANGED supervisor
  BY <1>16 DEF supervisor
<1> QED
  BY <1>1, <1>2, <1>3, <1>4, <1>5, <1>6, <1>7, <1>8, <1>9,
     <1>10, <1>11, <1>12, <1>13, <1>14, <1>15, <1>16
     DEF Supervisor!Next, Supervisor!CallStep

\* A profile that was thrown away does not come back.
LEMMA ThrownIsKept ==
  ASSUME Numbered, Placed, Noticed, Thrown, [Supervisor!Next]_supervisor
  PROVE  Thrown'
<1> USE DEF Numbered, Supervisor!TypeOK, Placed, Noticed, Thrown, Supervisor!Running,
            Supervisor!Ended,
            Supervisor!Owned, Supervisor!Goto, Supervisor!progress
<1>1. ASSUME NEW c \in Supervisor!Calls, Supervisor!EnsureInspect(c) PROVE Thrown'
  BY <1>1 DEF Supervisor!EnsureInspect, Supervisor!Owned
<1>2. ASSUME NEW c \in Supervisor!Calls, Supervisor!CreateVolumes(c) PROVE Thrown'
  BY <1>2 DEF Supervisor!CreateVolumes, Supervisor!ProfileThere
<1>3. ASSUME NEW c \in Supervisor!Calls, Supervisor!CreateContainer(c) PROVE Thrown'
  BY <1>3 DEF Supervisor!CreateContainer, Supervisor!ProfileThere, Supervisor!Ours
<1>4. ASSUME NEW c \in Supervisor!Calls, Supervisor!Conflict(c) PROVE Thrown'
  BY <1>4 DEF Supervisor!Conflict, Supervisor!Owned
<1>5. ASSUME NEW c \in Supervisor!Calls, Supervisor!Start(c) PROVE Thrown'
  BY <1>5 DEF Supervisor!Start
<1>6. ASSUME NEW c \in Supervisor!Calls, Supervisor!Settle(c) PROVE Thrown'
  BY <1>6 DEF Supervisor!Settle, Supervisor!Owned
<1>7. ASSUME NEW c \in Supervisor!Calls, Supervisor!Answers(c) PROVE Thrown'
  BY <1>7 DEF Supervisor!Answers
<1>8. ASSUME NEW c \in Supervisor!Calls, Supervisor!Deadline(c) PROVE Thrown'
  BY <1>8 DEF Supervisor!Deadline
<1>9. ASSUME NEW c \in Supervisor!Calls, Supervisor!InspectFirst(c) PROVE Thrown'
  BY <1>9 DEF Supervisor!InspectFirst, Supervisor!Owned
<1>10. ASSUME NEW c \in Supervisor!Calls, Supervisor!StopContainer(c) PROVE Thrown'
  BY <1>10 DEF Supervisor!StopContainer
<1>11. ASSUME NEW c \in Supervisor!Calls, Supervisor!RemoveContainer(c) PROVE Thrown'
  BY <1>11 DEF Supervisor!RemoveContainer, Supervisor!Gone
<1>12. ASSUME NEW c \in Supervisor!Calls, Supervisor!RemoveProfile(c) PROVE Thrown'
  BY <1>12 DEF Supervisor!RemoveProfile
<1>13. ASSUME NEW c \in Supervisor!Calls, NEW k \in {"ensure", "stop", "reset"},
              Supervisor!Begin(c, k)
      PROVE  Thrown'
  BY <1>13 DEF Supervisor!Begin
<1>14. CASE Supervisor!ForeignComes
  BY <1>14, AForeignContainer DEF Supervisor!ForeignComes
<1>15. CASE Supervisor!ForeignGoes
  BY <1>15 DEF Supervisor!ForeignGoes, Supervisor!Gone
<1>16. CASE UNCHANGED supervisor
  BY <1>16 DEF supervisor
<1> QED
  BY <1>1, <1>2, <1>3, <1>4, <1>5, <1>6, <1>7, <1>8, <1>9,
     <1>10, <1>11, <1>12, <1>13, <1>14, <1>15, <1>16
     DEF Supervisor!Next, Supervisor!CallStep

\* The resets that removed a container can be counted.
LEMMA RemoversAreFinite ==
  /\ IsFiniteSet(Removers) /\ Cardinality(Removers) \in Nat
  /\ IsFiniteSet(Supervisor!Resets) /\ Cardinality(Supervisor!Resets) \in Nat
  /\ Cardinality(Removers) <= Cardinality(Supervisor!Resets)
<1>1. IsFiniteSet(Supervisor!Calls)
  BY FS_Interval, SupervisorAssumption DEF Supervisor!Calls
<1>2. Removers \subseteq Supervisor!Resets /\ Supervisor!Resets \subseteq Supervisor!Calls
  BY DEF Removers, Supervisor!Resets
<1>3. IsFiniteSet(Supervisor!Resets)
  BY <1>1, <1>2, FS_Subset
<1> QED
  BY <1>2, <1>3, FS_Subset, FS_CardinalityType

\* An ensure that lost no attempt in a step that removed nothing.
LEMMA NothingRemoved ==
  ASSUME Numbered, Numbered', Accounted, Removers' = Removers,
         \A d \in Supervisor!Calls : kind'[d] = "ensure" /\ Undisturbed(d)' =>
           /\ Lost(d)' = 0 \/ (kind[d] = "ensure" /\ Undisturbed(d) /\ Lost(d)' <= Lost(d))
           /\ pc'[d] = "docker" => left'[d] = 0
  PROVE  Accounted'
<1> SUFFICES ASSUME NEW d \in Supervisor!Calls, kind'[d] = "ensure", Undisturbed(d)'
             PROVE  Lost(d)' <= Cardinality(Removers')
  BY DEF Accounted
<1>1. Lost(d) \in Int /\ Lost(d)' \in Int
  BY SupervisorAssumption DEF Lost, Numbered, Supervisor!TypeOK
<1> QED
  BY <1>1, RemoversAreFinite DEF Accounted

\* An attempt is lost only to one more reset.
LEMMA AccountedIsKept ==
  ASSUME Numbered, Placed, Noticed, Accounted, [Supervisor!Next]_supervisor
  PROVE  Accounted'
<1>0. Numbered'
  BY NumberedIsKept
<1> USE SupervisorAssumption
    DEF Supervisor!TypeOK, Numbered, Placed, Noticed, Removers, Lost, Undisturbed,
        Supervisor!Running, Supervisor!Ended, Supervisor!Goto, Supervisor!progress
<1>1. ASSUME NEW c \in Supervisor!Calls, Supervisor!EnsureInspect(c) PROVE Accounted'
  <2>1. Removers' = Removers
    BY <1>1 DEF Supervisor!EnsureInspect, Supervisor!Owned
  <2>2. ASSUME NEW d \in Supervisor!Calls, kind'[d] = "ensure", Undisturbed(d)'
        PROVE  /\ Lost(d)' = 0 \/ (kind[d] = "ensure" /\ Undisturbed(d) /\ Lost(d)' <= Lost(d))
               /\ pc'[d] = "docker" => left'[d] = 0
    <3>1. kind[d] = "ensure" /\ Undisturbed(d)
      BY <1>1, <2>2 DEF Supervisor!EnsureInspect, Supervisor!Owned
    <3>2. pc[d] = "docker" => left[d] = 0
      BY <3>1 DEF Accounted
    <3> QED
      BY <1>1, <2>2, <3>1, <3>2 DEF Supervisor!EnsureInspect, Supervisor!Owned
  <2> QED
    BY <1>0, <2>1, <2>2, NothingRemoved
<1>2. ASSUME NEW c \in Supervisor!Calls, Supervisor!CreateVolumes(c) PROVE Accounted'
  <2>1. Removers' = Removers
    BY <1>2 DEF Supervisor!CreateVolumes, Supervisor!ProfileThere
  <2>2. ASSUME NEW d \in Supervisor!Calls, kind'[d] = "ensure", Undisturbed(d)'
        PROVE  /\ Lost(d)' = 0 \/ (kind[d] = "ensure" /\ Undisturbed(d) /\ Lost(d)' <= Lost(d))
               /\ pc'[d] = "docker" => left'[d] = 0
    <3>1. kind[d] = "ensure" /\ Undisturbed(d)
      BY <1>2, <2>2 DEF Supervisor!CreateVolumes, Supervisor!ProfileThere
    <3>2. pc[d] = "docker" => left[d] = 0
      BY <3>1 DEF Accounted
    <3> QED
      BY <1>2, <2>2, <3>1, <3>2 DEF Supervisor!CreateVolumes, Supervisor!ProfileThere
  <2> QED
    BY <1>0, <2>1, <2>2, NothingRemoved
<1>3. ASSUME NEW c \in Supervisor!Calls, Supervisor!CreateContainer(c) PROVE Accounted'
  <2>1. Removers' = Removers
    BY <1>3 DEF Supervisor!CreateContainer, Supervisor!ProfileThere, Supervisor!Ours
  <2>2. ASSUME NEW d \in Supervisor!Calls, kind'[d] = "ensure", Undisturbed(d)'
        PROVE  /\ Lost(d)' = 0 \/ (kind[d] = "ensure" /\ Undisturbed(d) /\ Lost(d)' <= Lost(d))
               /\ pc'[d] = "docker" => left'[d] = 0
    <3>1. kind[d] = "ensure" /\ Undisturbed(d)
      BY <1>3, <2>2 DEF Supervisor!CreateContainer, Supervisor!ProfileThere, Supervisor!Ours
    <3>2. pc[d] = "docker" => left[d] = 0
      BY <3>1 DEF Accounted
    <3> QED
      BY <1>3, <2>2, <3>1, <3>2 DEF Supervisor!CreateContainer, Supervisor!ProfileThere,
           Supervisor!Ours
  <2> QED
    BY <1>0, <2>1, <2>2, NothingRemoved
<1>4. ASSUME NEW c \in Supervisor!Calls, Supervisor!Conflict(c) PROVE Accounted'
  <2>1. Removers' = Removers
    BY <1>4 DEF Supervisor!Conflict, Supervisor!Owned
  <2>2. ASSUME NEW d \in Supervisor!Calls, kind'[d] = "ensure", Undisturbed(d)'
        PROVE  /\ Lost(d)' = 0 \/ (kind[d] = "ensure" /\ Undisturbed(d) /\ Lost(d)' <= Lost(d))
               /\ pc'[d] = "docker" => left'[d] = 0
    <3>1. kind[d] = "ensure" /\ Undisturbed(d)
      BY <1>4, <2>2 DEF Supervisor!Conflict, Supervisor!Owned
    <3>2. pc[d] = "docker" => left[d] = 0
      BY <3>1 DEF Accounted
    <3> QED
      BY <1>4, <2>2, <3>1, <3>2 DEF Supervisor!Conflict, Supervisor!Owned
  <2> QED
    BY <1>0, <2>1, <2>2, NothingRemoved
<1>5. ASSUME NEW c \in Supervisor!Calls, Supervisor!Start(c) PROVE Accounted'
  <2>1. Removers' = Removers
    BY <1>5 DEF Supervisor!Start
  <2>2. ASSUME NEW d \in Supervisor!Calls, kind'[d] = "ensure", Undisturbed(d)'
        PROVE  /\ Lost(d)' = 0 \/ (kind[d] = "ensure" /\ Undisturbed(d) /\ Lost(d)' <= Lost(d))
               /\ pc'[d] = "docker" => left'[d] = 0
    <3>1. kind[d] = "ensure" /\ Undisturbed(d)
      BY <1>5, <2>2 DEF Supervisor!Start
    <3>2. pc[d] = "docker" => left[d] = 0
      BY <3>1 DEF Accounted
    <3> QED
      BY <1>5, <2>2, <3>1, <3>2 DEF Supervisor!Start
  <2> QED
    BY <1>0, <2>1, <2>2, NothingRemoved
<1>6. ASSUME NEW c \in Supervisor!Calls, Supervisor!Settle(c) PROVE Accounted'
  <2>1. Removers' = Removers
    BY <1>6 DEF Supervisor!Settle, Supervisor!Owned
  <2>2. ASSUME NEW d \in Supervisor!Calls, kind'[d] = "ensure", Undisturbed(d)'
        PROVE  /\ Lost(d)' = 0 \/ (kind[d] = "ensure" /\ Undisturbed(d) /\ Lost(d)' <= Lost(d))
               /\ pc'[d] = "docker" => left'[d] = 0
    <3>1. kind[d] = "ensure" /\ Undisturbed(d)
      BY <1>6, <2>2 DEF Supervisor!Settle, Supervisor!Owned
    <3>2. pc[d] = "docker" => left[d] = 0
      BY <3>1 DEF Accounted
    <3> QED
      BY <1>6, <2>2, <3>1, <3>2 DEF Supervisor!Settle, Supervisor!Owned
  <2> QED
    BY <1>0, <2>1, <2>2, NothingRemoved
<1>7. ASSUME NEW c \in Supervisor!Calls, Supervisor!Answers(c) PROVE Accounted'
  <2>1. Removers' = Removers
    BY <1>7 DEF Supervisor!Answers
  <2>2. ASSUME NEW d \in Supervisor!Calls, kind'[d] = "ensure", Undisturbed(d)'
        PROVE  /\ Lost(d)' = 0 \/ (kind[d] = "ensure" /\ Undisturbed(d) /\ Lost(d)' <= Lost(d))
               /\ pc'[d] = "docker" => left'[d] = 0
    <3>1. kind[d] = "ensure" /\ Undisturbed(d)
      BY <1>7, <2>2 DEF Supervisor!Answers
    <3>2. pc[d] = "docker" => left[d] = 0
      BY <3>1 DEF Accounted
    <3> QED
      BY <1>7, <2>2, <3>1, <3>2 DEF Supervisor!Answers
  <2> QED
    BY <1>0, <2>1, <2>2, NothingRemoved
<1>8. ASSUME NEW c \in Supervisor!Calls, Supervisor!Deadline(c) PROVE Accounted'
  <2>1. Removers' = Removers
    BY <1>8 DEF Supervisor!Deadline
  <2>2. ASSUME NEW d \in Supervisor!Calls, kind'[d] = "ensure", Undisturbed(d)'
        PROVE  /\ Lost(d)' = 0 \/ (kind[d] = "ensure" /\ Undisturbed(d) /\ Lost(d)' <= Lost(d))
               /\ pc'[d] = "docker" => left'[d] = 0
    <3>1. kind[d] = "ensure" /\ Undisturbed(d)
      BY <1>8, <2>2 DEF Supervisor!Deadline
    <3>2. pc[d] = "docker" => left[d] = 0
      BY <3>1 DEF Accounted
    <3> QED
      BY <1>8, <2>2, <3>1, <3>2 DEF Supervisor!Deadline
  <2> QED
    BY <1>0, <2>1, <2>2, NothingRemoved
<1>9. ASSUME NEW c \in Supervisor!Calls, Supervisor!InspectFirst(c) PROVE Accounted'
  <2>1. Removers' = Removers
    BY <1>9 DEF Supervisor!InspectFirst, Supervisor!Owned
  <2>2. ASSUME NEW d \in Supervisor!Calls, kind'[d] = "ensure", Undisturbed(d)'
        PROVE  /\ Lost(d)' = 0 \/ (kind[d] = "ensure" /\ Undisturbed(d) /\ Lost(d)' <= Lost(d))
               /\ pc'[d] = "docker" => left'[d] = 0
    <3>1. kind[d] = "ensure" /\ Undisturbed(d)
      BY <1>9, <2>2 DEF Supervisor!InspectFirst, Supervisor!Owned
    <3>2. pc[d] = "docker" => left[d] = 0
      BY <3>1 DEF Accounted
    <3> QED
      BY <1>9, <2>2, <3>1, <3>2 DEF Supervisor!InspectFirst, Supervisor!Owned
  <2> QED
    BY <1>0, <2>1, <2>2, NothingRemoved
<1>10. ASSUME NEW c \in Supervisor!Calls, Supervisor!StopContainer(c) PROVE Accounted'
  <2>1. Removers' = Removers
    BY <1>10 DEF Supervisor!StopContainer
  <2>2. ASSUME NEW d \in Supervisor!Calls, kind'[d] = "ensure", Undisturbed(d)'
        PROVE  /\ Lost(d)' = 0 \/ (kind[d] = "ensure" /\ Undisturbed(d) /\ Lost(d)' <= Lost(d))
               /\ pc'[d] = "docker" => left'[d] = 0
    <3>1. kind[d] = "ensure" /\ Undisturbed(d)
      BY <1>10, <2>2 DEF Supervisor!StopContainer
    <3>2. pc[d] = "docker" => left[d] = 0
      BY <3>1 DEF Accounted
    <3> QED
      BY <1>10, <2>2, <3>1, <3>2 DEF Supervisor!StopContainer
  <2> QED
    BY <1>0, <2>1, <2>2, NothingRemoved
<1>11. ASSUME NEW c \in Supervisor!Calls, Supervisor!RemoveContainer(c) PROVE Accounted'
  <2>1. Removers' = Removers \cup {c} /\ c \notin Removers
    BY <1>11 DEF Supervisor!RemoveContainer
  <2>2. Cardinality(Removers') = Cardinality(Removers) + 1
    <3> HIDE DEF Removers
    <3> QED
      BY <2>1, RemoversAreFinite, FS_AddElement
  <2> SUFFICES ASSUME NEW d \in Supervisor!Calls, kind'[d] = "ensure", Undisturbed(d)'
               PROVE  /\ Lost(d)' <= Cardinality(Removers')
                      /\ pc'[d] = "docker" => left'[d] = 0
    BY DEF Accounted
  <2>3. /\ kind[d] = "ensure" /\ Undisturbed(d) /\ d # c /\ left' = left /\ pc'[d] = pc[d]
        /\ left[d] \in Nat
    BY <1>11 DEF Supervisor!RemoveContainer
  <2>4. Lost(d) <= Cardinality(Removers) /\ (pc[d] = "docker" => left[d] = 0)
    BY <2>3 DEF Accounted
  <2>5. Lost(d)' <= Lost(d) + 1 /\ Lost(d) \in Int /\ Lost(d)' \in Int
    BY <2>3
  <2> QED
    BY <2>2, <2>3, <2>4, <2>5, RemoversAreFinite
<1>12. ASSUME NEW c \in Supervisor!Calls, Supervisor!RemoveProfile(c) PROVE Accounted'
  <2>1. Removers' = Removers
    BY <1>12 DEF Supervisor!RemoveProfile
  <2>2. ASSUME NEW d \in Supervisor!Calls, kind'[d] = "ensure", Undisturbed(d)'
        PROVE  /\ Lost(d)' = 0 \/ (kind[d] = "ensure" /\ Undisturbed(d) /\ Lost(d)' <= Lost(d))
               /\ pc'[d] = "docker" => left'[d] = 0
    <3>1. kind[d] = "ensure" /\ Undisturbed(d)
      BY <1>12, <2>2 DEF Supervisor!RemoveProfile
    <3>2. pc[d] = "docker" => left[d] = 0
      BY <3>1 DEF Accounted
    <3> QED
      BY <1>12, <2>2, <3>1, <3>2 DEF Supervisor!RemoveProfile
  <2> QED
    BY <1>0, <2>1, <2>2, NothingRemoved
<1>13. ASSUME NEW c \in Supervisor!Calls, NEW k \in {"ensure", "stop", "reset"},
              Supervisor!Begin(c, k)
      PROVE  Accounted'
  <2>1. Removers' = Removers
    BY <1>13 DEF Supervisor!Begin
  <2>2. ASSUME NEW d \in Supervisor!Calls, kind'[d] = "ensure", Undisturbed(d)'
        PROVE  /\ Lost(d)' = 0 \/ (kind[d] = "ensure" /\ Undisturbed(d) /\ Lost(d)' <= Lost(d))
               /\ pc'[d] = "docker" => left'[d] = 0
    <3>1. CASE d = c
      BY <1>13, <3>1 DEF Supervisor!Begin
    <3>2. CASE d # c
      <4>1. kind[d] = "ensure" /\ Undisturbed(d)
        BY <1>13, <2>2, <3>2 DEF Supervisor!Begin
      <4>2. pc[d] = "docker" => left[d] = 0
        BY <4>1 DEF Accounted
      <4> QED
        BY <1>13, <2>2, <3>2, <4>1, <4>2 DEF Supervisor!Begin
    <3> QED
      BY <3>1, <3>2
  <2> QED
    BY <1>0, <2>1, <2>2, NothingRemoved
<1>14. CASE Supervisor!ForeignComes
  <2>1. Removers' = Removers
    BY <1>14 DEF Supervisor!ForeignComes, Supervisor!Foreign, Supervisor!Ours
  <2>2. ASSUME NEW d \in Supervisor!Calls, kind'[d] = "ensure", Undisturbed(d)'
        PROVE  /\ Lost(d)' = 0 \/ (kind[d] = "ensure" /\ Undisturbed(d) /\ Lost(d)' <= Lost(d))
               /\ pc'[d] = "docker" => left'[d] = 0
    <3>1. kind[d] = "ensure" /\ Undisturbed(d)
      BY <1>14, <2>2 DEF Supervisor!ForeignComes, Supervisor!Foreign, Supervisor!Ours
    <3>2. pc[d] = "docker" => left[d] = 0
      BY <3>1 DEF Accounted
    <3> QED
      BY <1>14, <2>2, <3>1, <3>2 DEF Supervisor!ForeignComes, Supervisor!Foreign,
           Supervisor!Ours
  <2> QED
    BY <1>0, <2>1, <2>2, NothingRemoved
<1>15. CASE Supervisor!ForeignGoes
  <2>1. Removers' = Removers
    BY <1>15 DEF Supervisor!ForeignGoes, Supervisor!Gone
  <2>2. ASSUME NEW d \in Supervisor!Calls, kind'[d] = "ensure", Undisturbed(d)'
        PROVE  /\ Lost(d)' = 0 \/ (kind[d] = "ensure" /\ Undisturbed(d) /\ Lost(d)' <= Lost(d))
               /\ pc'[d] = "docker" => left'[d] = 0
    <3>1. kind[d] = "ensure" /\ Undisturbed(d)
      BY <1>15, <2>2 DEF Supervisor!ForeignGoes, Supervisor!Gone
    <3>2. pc[d] = "docker" => left[d] = 0
      BY <3>1 DEF Accounted
    <3> QED
      BY <1>15, <2>2, <3>1, <3>2 DEF Supervisor!ForeignGoes, Supervisor!Gone
  <2> QED
    BY <1>0, <2>1, <2>2, NothingRemoved
<1>16. CASE UNCHANGED supervisor
  BY <1>16 DEF supervisor, Accounted
<1> QED
  BY <1>1, <1>2, <1>3, <1>4, <1>5, <1>6, <1>7, <1>8,
     <1>9, <1>10, <1>11, <1>12, <1>13, <1>14, <1>15, <1>16
     DEF Supervisor!Next, Supervisor!CallStep

\* The strengthening holds when the supervisor starts and is kept by every step.
LEMMA SupervisorInvHolds == Supervisor!Spec => []SupervisorInv
<1>1. Supervisor!Init => SupervisorInv
  <2> SUFFICES ASSUME Supervisor!Init PROVE SupervisorInv
    OBVIOUS
  <2> USE SupervisorAssumption
      DEF Supervisor!Init, Supervisor!Gone, Supervisor!Ended, Supervisor!Running
  <2>1. Numbered /\ Placed
    BY DEF Numbered, Supervisor!TypeOK, Placed
  <2>2. Noticed /\ ToldOfForeign /\ Stays /\ Outrun /\ Thrown
    BY DEF Noticed, ToldOfForeign, Stays, Outrun, Thrown
  <2>3. Accounted
    BY DEF Accounted
  <2> QED
    BY <2>1, <2>2, <2>3 DEF SupervisorInv
<1>2. SupervisorInv /\ [Supervisor!Next]_supervisor => SupervisorInv'
  BY NumberedIsKept, PlacedIsKept, NoticedIsKept, ToldIsKept, StaysIsKept, AccountedIsKept,
     OutrunIsKept, ThrownIsKept DEF SupervisorInv
<1> QED
  BY <1>1, <1>2, PTL DEF Supervisor!Spec, Supervisor!vars, supervisor

\* Cardinality is the same operator for the supervisor.
\* Cardinality is the same operator for the supervisor.
LEMMA SameCardinality == \A S : Supervisor!Cardinality(S) = Cardinality(S)
  BY Zenon DEF Supervisor!Cardinality, Cardinality

\* Ensures of one Bot are answered with one container until it is reset, none fails for
\* another call's sake but for as many resets as it has attempts, and a reset throws
\* the profile away, for any number of calls, containers and attempts.
THEOREM ComputersStayOne == Supervisor!Spec => []ComputersAreOne
<1>1. ASSUME SupervisorInv PROVE Supervisor!EnsuresAgree
  <2> USE <1>1 DEF SupervisorInv
  <2>1. Supervisor!TypeOK
    BY DEF Numbered
  <2>2. Supervisor!Resets = {} =>
          \A c, d \in Supervisor!Calls :
            Supervisor!Ensured(c) /\ Supervisor!Ensured(d) => answer[c] = answer[d]
    BY DEF Stays, Supervisor!Ensured
  <2>3. ASSUME NEW c \in Supervisor!Calls, kind[c] = "ensure", Undisturbed(c)
        PROVE  /\ pc[c] = "docker" => Supervisor!Cardinality(Supervisor!Resets) >= Attempts
               /\ pc[c] = "held" => {"reset", "ensure"} \subseteq disturbed[c]
    <3>1. pc[c] = "docker" => Attempts <= Cardinality(Removers)
      BY <2>1, <2>3, SupervisorAssumption DEF Accounted, Lost, Supervisor!TypeOK
    <3> QED
      BY <2>3, <3>1, RemoversAreFinite, SameCardinality, SupervisorAssumption DEF Outrun
  <2> QED
    BY <2>1, <2>2, <2>3 DEF Supervisor!EnsuresAgree, Undisturbed
<1>2. SupervisorInv => Supervisor!ResetThrowsAway
  BY DEF SupervisorInv, Thrown, Numbered, Supervisor!TypeOK, Supervisor!ResetThrowsAway
<1> QED
  BY <1>1, <1>2, SupervisorInvHolds, PTL DEF ComputersAreOne

\* ensure, stop and reset leave a container of the name that this deployment does not
\* own as it is, and hand none out, whatever the calls and however they interleave.
THEOREM OthersAreLeftAlone == Supervisor!Spec => Supervisor!OnlyOurs
<1> DEFINE LeftAlone ==
      \A c \in Supervisor!Calls :
        pc'[c] # pc[c] /\ box.whose = "foreign" /\ "foreign" \notin disturbed[c] =>
          box' = box /\ pc'[c] # "ok"
<1>1. SupervisorInv /\ [Supervisor!Next]_supervisor => [LeftAlone]_supervisor
  <2> SUFFICES ASSUME SupervisorInv, Supervisor!Next PROVE LeftAlone
    OBVIOUS
  <2> USE DEF SupervisorInv, Numbered, Supervisor!TypeOK, Placed, ToldOfForeign,
              Supervisor!Running, Supervisor!Owned, Supervisor!Ended, Supervisor!Goto,
              Supervisor!progress
  <2>1. ASSUME NEW c \in Supervisor!Calls, Supervisor!EnsureInspect(c) PROVE LeftAlone
    BY <2>1 DEF Supervisor!EnsureInspect, Supervisor!Owned
  <2>2. ASSUME NEW c \in Supervisor!Calls, Supervisor!CreateVolumes(c) PROVE LeftAlone
    BY <2>2 DEF Supervisor!CreateVolumes, Supervisor!ProfileThere
  <2>3. ASSUME NEW c \in Supervisor!Calls, Supervisor!CreateContainer(c) PROVE LeftAlone
    BY <2>3 DEF Supervisor!CreateContainer, Supervisor!ProfileThere, Supervisor!Ours
  <2>4. ASSUME NEW c \in Supervisor!Calls, Supervisor!Conflict(c) PROVE LeftAlone
    BY <2>4 DEF Supervisor!Conflict, Supervisor!Owned
  <2>5. ASSUME NEW c \in Supervisor!Calls, Supervisor!Start(c) PROVE LeftAlone
    BY <2>5 DEF Supervisor!Start
  <2>6. ASSUME NEW c \in Supervisor!Calls, Supervisor!Settle(c) PROVE LeftAlone
    BY <2>6 DEF Supervisor!Settle, Supervisor!Owned
  <2>7. ASSUME NEW c \in Supervisor!Calls, Supervisor!Answers(c) PROVE LeftAlone
    BY <2>7 DEF Supervisor!Answers
  <2>8. ASSUME NEW c \in Supervisor!Calls, Supervisor!Deadline(c) PROVE LeftAlone
    BY <2>8 DEF Supervisor!Deadline
  <2>9. ASSUME NEW c \in Supervisor!Calls, Supervisor!InspectFirst(c) PROVE LeftAlone
    BY <2>9 DEF Supervisor!InspectFirst, Supervisor!Owned
  <2>10. ASSUME NEW c \in Supervisor!Calls, Supervisor!StopContainer(c) PROVE LeftAlone
    BY <2>10 DEF Supervisor!StopContainer
  <2>11. ASSUME NEW c \in Supervisor!Calls, Supervisor!RemoveContainer(c) PROVE LeftAlone
    BY <2>11 DEF Supervisor!RemoveContainer, Supervisor!Gone
  <2>12. ASSUME NEW c \in Supervisor!Calls, Supervisor!RemoveProfile(c) PROVE LeftAlone
    BY <2>12 DEF Supervisor!RemoveProfile
  <2>13. ASSUME NEW c \in Supervisor!Calls, NEW k \in {"ensure", "stop", "reset"},
                Supervisor!Begin(c, k)
        PROVE  LeftAlone
    BY <2>13 DEF Supervisor!Begin
  <2>14. CASE Supervisor!ForeignComes
    BY <2>14 DEF Supervisor!ForeignComes, Supervisor!Foreign, Supervisor!Ours
  <2>15. CASE Supervisor!ForeignGoes
    BY <2>15 DEF Supervisor!ForeignGoes, Supervisor!Gone
  <2> QED
    BY <2>1, <2>2, <2>3, <2>4, <2>5, <2>6, <2>7, <2>8, <2>9, <2>10, <2>11, <2>12, <2>13,
       <2>14, <2>15
       DEF Supervisor!Next, Supervisor!CallStep
<1> QED
  BY <1>1, SupervisorInvHolds, PTL
     DEF Supervisor!Spec, Supervisor!OnlyOurs, Supervisor!vars, supervisor

-----------------------------------------------------------------------------
(* A skill and the Bots it is on.                                          *)

\* A request that nobody crossed may still do what it was let to.
StillMay ==
  \A c \in Skills!Calls : Skills!Writing(c) =>
    /\ request[c].kind \in {"grant", "revoke"} => request[c].bot \in Bots
    /\ request[c].kind = "save for all" => request[c].who = Admin
    /\ request[c].kind \in {"save", "save for all", "remove"} /\ ~muddled =>
         Skills!MayEdit(request[c].who)
    /\ request[c].kind \in {"grant", "revoke"} /\ ~muddled =>
         Skills!MayEnable(request[c].who, request[c].bot)

SkillsInv == Skills!SkillPromise /\ StillMay

-----------------------------------------------------------------------------
(* The tools of an MCP server.                                             *)

\* Refreshes that do not overlap come one after the other, and one that is to insert
\* finds nothing there.
OneRefresh ==
  ~tangled =>
    /\ \A r, s \in ToolListing!Refreshes : ToolListing!Busy(r) /\ ToolListing!Busy(s) => r = s
    /\ \A r \in ToolListing!Refreshes : refresh[r].pc = "insert" => tools = {}

ListingInv == ToolListing!ListingPromise /\ OneRefresh

\* What a request for a skill holds.
ASkillRequest ==
  [kind : {"none", "save", "save for all", "remove", "grant", "revoke"},
   who : People \cup {Nobody}, bot : Bots \cup {Nobody}, pc : {"idle", "write", "over"}]

\* A request that writes is over, and it crossed whoever else was about to write.
LEMMA SkillsAreWritten ==
  ASSUME Skills!TypeOK, NEW c \in Skills!Calls, Skills!Wrote(c)
  PROVE  /\ request' \in [Skills!Calls -> ASkillRequest] /\ request'[c].pc = "over"
         /\ \A d \in Skills!Calls \ {c} : request'[d] = request[d]
         /\ muddled' \in BOOLEAN
         /\ ~muddled' =>
              ~muddled /\ \A d \in Skills!Calls \ {c} : ~Skills!Writing(d)
<1>1. request \in [Skills!Calls -> ASkillRequest] /\ muddled \in BOOLEAN
  BY DEF Skills!TypeOK, ASkillRequest
<1>2. Skills!Over \in ASkillRequest /\ Skills!Over.pc = "over"
  BY DEF Skills!Over, Skills!Unborn, ASkillRequest
<1>3. request' = [request EXCEPT ![c] = Skills!Over]
  BY DEF Skills!Wrote
<1>4. /\ request' \in [Skills!Calls -> ASkillRequest] /\ request'[c] = Skills!Over
      /\ \A d \in Skills!Calls \ {c} : request'[d] = request[d]
  BY <1>1, <1>2, <1>3
<1>5. muddled' = (muddled \/ \E d \in Skills!Calls : d # c /\ Skills!Writing(d))
  BY DEF Skills!Wrote
<1> QED
  BY <1>1, <1>2, <1>4, <1>5

\* What is kept of the settings of skills in every behaviour.
LEMMA SkillsInvHolds == Skills!Spec => []SkillsInv
<1>1. Skills!Init => SkillsInv
  <2> SUFFICES ASSUME Skills!Init PROVE SkillsInv
    OBVIOUS
  <2> USE DEF Skills!Init, Skills!NoSkill, Skills!Unborn
  <2>1. muddled \in BOOLEAN /\ orphaned \in BOOLEAN /\ skill.there \in BOOLEAN
    OBVIOUS
  <2>2. Skills!TypeOK
    BY <2>1 DEF Skills!TypeOK
  <2> QED
    BY <2>2 DEF SkillsInv, Skills!SkillPromise, StillMay, Skills!Granted, Skills!Writing
<1>2. SkillsInv /\ [Skills!Next]_skills => SkillsInv'
  <2> SUFFICES ASSUME SkillsInv, [Skills!Next]_skills PROVE SkillsInv'
    OBVIOUS
  <2>0. /\ Skills!TypeOK /\ request \in [Skills!Calls -> ASkillRequest]
        /\ skill \in [there : BOOLEAN, owner : People \cup {Nobody}, text : People \cup {Nobody}]
        /\ grant \in [Bots -> People \cup {Nobody}] /\ orphaned \in BOOLEAN
    BY DEF SkillsInv, Skills!SkillPromise, Skills!TypeOK, ASkillRequest
  <2>1. ASSUME NEW c \in Skills!Calls, NEW let \in ASkillRequest, let.pc \in {"write", "over"},
               request' = [request EXCEPT ![c] = let],
               UNCHANGED <<skill, grant, muddled, orphaned>>,
               let.pc = "write" =>
                 /\ let.kind \in {"grant", "revoke"} =>
                      let.bot \in Bots /\ Skills!MayEnable(let.who, let.bot)
                 /\ let.kind \in {"save", "save for all", "remove"} => Skills!MayEdit(let.who)
                 /\ let.kind = "save for all" => let.who = Admin
        PROVE  SkillsInv'
    <3>1. /\ request' \in [Skills!Calls -> ASkillRequest] /\ request'[c] = let
          /\ \A d \in Skills!Calls \ {c} : request'[d] = request[d]
      BY <2>0, <2>1
    <3>2. Skills!SkillPromise'
      BY <2>0, <2>1, <3>1
         DEF SkillsInv, Skills!SkillPromise, Skills!TypeOK, ASkillRequest, Skills!Granted
    <3>3. StillMay'
      <4>1. skill' = skill /\ muddled' = muddled
        BY <2>1
      <4>2. ASSUME NEW d \in Skills!Calls, Skills!Writing(d)'
            PROVE  /\ request'[d].kind \in {"grant", "revoke"} => request'[d].bot \in Bots
                   /\ request'[d].kind = "save for all" => request'[d].who = Admin
                   /\ request'[d].kind \in {"save", "save for all", "remove"} /\ ~muddled' =>
                        Skills!MayEdit(request'[d].who)
                   /\ request'[d].kind \in {"grant", "revoke"} /\ ~muddled' =>
                        Skills!MayEnable(request'[d].who, request'[d].bot)
        <5>1. CASE d = c
          <6>1. let.pc = "write"
            BY <3>1, <4>2, <5>1 DEF Skills!Writing
          <6> QED
            BY <2>1, <3>1, <5>1, <6>1
        <5>2. CASE d # c
          <6>1. request'[d] = request[d] /\ Skills!Writing(d)
            BY <3>1, <4>2, <5>2 DEF Skills!Writing
          <6> QED
            BY <4>1, <6>1 DEF SkillsInv, StillMay
        <5> QED
          BY <5>1, <5>2
      <4> QED
        BY <4>1, <4>2 DEF StillMay, Skills!MayEdit, Skills!MayEnable
    <3> QED
      BY <3>2, <3>3 DEF SkillsInv
  <2>over. Skills!Over \in ASkillRequest /\ Skills!Over.pc = "over"
    BY DEF Skills!Over, Skills!Unborn, ASkillRequest
  <2>2. ASSUME NEW c \in Skills!Calls, NEW p \in People,
               NEW k \in {"save", "save for all", "remove"}, Skills!AsksForSkill(c, k, p)
        PROVE  SkillsInv'
    <3> DEFINE write == [kind |-> k, who |-> p, bot |-> Nobody, pc |-> "write"]
    <3>1. /\ UNCHANGED <<skill, grant, muddled, orphaned>>
          /\ k = "save for all" => p = Admin
          /\ request' = [request EXCEPT ![c] = IF Skills!MayEdit(p) THEN write ELSE Skills!Over]
      BY <2>2 DEF Skills!AsksForSkill, Skills!Asks
    <3>2. /\ write \in ASkillRequest /\ write.pc = "write" /\ write.who = p /\ write.kind = k
          /\ write.kind \notin {"grant", "revoke"}
      BY DEF ASkillRequest
    <3> HIDE DEF write
    <3>3. CASE Skills!MayEdit(p)
      <4>1. request' = [request EXCEPT ![c] = write]
        BY <3>1, <3>3
      <4> QED
        BY <2>1, <3>1, <3>2, <3>3, <4>1
    <3>4. CASE ~Skills!MayEdit(p)
      <4>1. request' = [request EXCEPT ![c] = Skills!Over]
        BY <3>1, <3>4
      <4> QED
        BY <2>1, <2>over, <3>1, <4>1
    <3> QED
      BY <3>3, <3>4
  <2>3. ASSUME NEW c \in Skills!Calls, NEW p \in People, NEW b \in Bots,
               NEW k \in {"grant", "revoke"}, Skills!AsksForBot(c, k, p, b)
        PROVE  SkillsInv'
    <3> DEFINE write == [kind |-> k, who |-> p, bot |-> b, pc |-> "write"]
    <3>1. /\ UNCHANGED <<skill, grant, muddled, orphaned>>
          /\ request' = [request EXCEPT ![c] = IF Skills!MayEnable(p, b) THEN write ELSE Skills!Over]
      BY <2>3 DEF Skills!AsksForBot, Skills!Asks
    <3>2. /\ write \in ASkillRequest /\ write.pc = "write" /\ write.who = p /\ write.bot = b
          /\ write.kind \notin {"save", "save for all", "remove"}
      BY DEF ASkillRequest
    <3> HIDE DEF write
    <3>3. CASE Skills!MayEnable(p, b)
      <4>1. request' = [request EXCEPT ![c] = write]
        BY <3>1, <3>3
      <4> QED
        BY <2>1, <3>1, <3>2, <3>3, <4>1
    <3>4. CASE ~Skills!MayEnable(p, b)
      <4>1. request' = [request EXCEPT ![c] = Skills!Over]
        BY <3>1, <3>4
      <4> QED
        BY <2>1, <2>over, <3>1, <4>1
    <3> QED
      BY <3>3, <3>4
  <2>4. ASSUME NEW c \in Skills!Calls, Skills!Wrote(c),
               /\ skill' \in [there : BOOLEAN, owner : People \cup {Nobody},
                              text : People \cup {Nobody}]
               /\ grant' \in [Bots -> People \cup {Nobody}] /\ orphaned' \in BOOLEAN,
               ~muddled' /\ skill'.there => skill'.text \in {skill'.owner, Admin},
               ~muddled' /\ ~orphaned' => \A b \in Bots : Skills!Granted(b)' =>
                 \/ grant'[b] = Admin
                 \/ skill'.there /\ grant'[b] = skill'.owner /\ Owner[b] = skill'.owner
        PROVE  SkillsInv'
    <3>1. /\ request' \in [Skills!Calls -> ASkillRequest] /\ request'[c].pc = "over"
          /\ \A d \in Skills!Calls \ {c} : request'[d] = request[d]
          /\ muddled' \in BOOLEAN
          /\ ~muddled' => ~muddled /\ \A d \in Skills!Calls \ {c} : ~Skills!Writing(d)
      BY <2>0, <2>4, SkillsAreWritten
    <3>2. Skills!SkillPromise'
      BY <2>4, <3>1 DEF Skills!SkillPromise, Skills!TypeOK, ASkillRequest
    <3>3. StillMay'
      BY <3>1 DEF SkillsInv, StillMay, Skills!Writing
    <3> QED
      BY <3>2, <3>3 DEF SkillsInv
  <2>5. ASSUME NEW c \in Skills!Calls, Skills!Wrote(c)
        PROVE  ~muddled' => ~muddled
    BY <2>0, <2>5, SkillsAreWritten
  <2>6. \A c \in Skills!Calls : request[c] \in ASkillRequest
    BY <2>0
  <2>7. \A c \in Skills!Calls : Skills!Writing(c) =>
          /\ request[c].kind \in {"grant", "revoke"} => request[c].bot \in Bots
          /\ request[c].kind = "save for all" => request[c].who = Admin
          /\ request[c].kind \in {"save", "save for all", "remove"} /\ ~muddled =>
               Skills!MayEdit(request[c].who)
          /\ request[c].kind \in {"grant", "revoke"} /\ ~muddled =>
               Skills!MayEnable(request[c].who, request[c].bot)
    BY DEF SkillsInv, StillMay
  <2>8. /\ ~muddled /\ skill.there => skill.text \in {skill.owner, Admin}
        /\ ~muddled /\ ~orphaned => \A b \in Bots : Skills!Granted(b) =>
             \/ grant[b] = Admin
             \/ skill.there /\ grant[b] = skill.owner /\ Owner[b] = skill.owner
    BY DEF SkillsInv, Skills!SkillPromise
  <2>9. ASSUME NEW c \in Skills!Calls, Skills!Saves(c) PROVE SkillsInv'
    <3>1. request[c].who \in People \cup {Nobody}
      BY <2>6 DEF ASkillRequest
    <3>2. /\ Skills!Writing(c) /\ request[c].kind \in {"save", "save for all"}
          /\ Skills!Wrote(c) /\ UNCHANGED <<grant, orphaned>>
          /\ skill' = [there |-> TRUE, text |-> request[c].who,
                       owner |-> IF skill.there THEN skill.owner
                                 ELSE IF request[c].kind = "save" THEN request[c].who
                                 ELSE Nobody]
      BY <2>9 DEF Skills!Saves
    <3>3. /\ skill'.there /\ skill'.text = request[c].who
          /\ skill.there => skill'.owner = skill.owner
          /\ ~skill.there /\ request[c].kind = "save" => skill'.owner = request[c].who
      BY <3>2
    <3>4. skill' \in [there : BOOLEAN, owner : People \cup {Nobody}, text : People \cup {Nobody}]
      BY <2>0, <3>1, <3>2
    <3>5. ~muddled' => skill'.text \in {skill'.owner, Admin}
      BY <2>5, <2>7, <3>2, <3>3 DEF Skills!MayEdit
    <3>6. ~muddled' /\ ~orphaned' => \A b \in Bots : Skills!Granted(b)' =>
            \/ grant'[b] = Admin
            \/ skill'.there /\ grant'[b] = skill'.owner /\ Owner[b] = skill'.owner
      BY <2>5, <2>8, <3>2, <3>3 DEF Skills!Granted
    <3> QED
      BY <2>0, <2>4, <3>2, <3>4, <3>5, <3>6
  <2>10. ASSUME NEW c \in Skills!Calls, Skills!Removes(c) PROVE SkillsInv'
    <3>1. /\ Skills!Wrote(c) /\ UNCHANGED grant /\ skill' = Skills!NoSkill
          /\ orphaned' = (orphaned \/ \E b \in Bots : Skills!Granted(b))
      BY <2>10 DEF Skills!Removes
    <3>2. /\ skill' \in [there : BOOLEAN, owner : People \cup {Nobody},
                         text : People \cup {Nobody}]
          /\ ~skill'.there /\ orphaned' \in BOOLEAN
          /\ ~orphaned' => \A b \in Bots : ~Skills!Granted(b)
      BY <2>0, <3>1 DEF Skills!NoSkill
    <3>3. ~orphaned' => \A b \in Bots : ~Skills!Granted(b)'
      BY <3>1, <3>2 DEF Skills!Granted
    <3> QED
      BY <2>0, <2>4, <3>1, <3>2, <3>3
  <2>11. ASSUME NEW c \in Skills!Calls, NEW p \in People \cup {Nobody}, NEW b \in Bots,
                Skills!Wrote(c), UNCHANGED <<skill, orphaned>>,
                grant' = [grant EXCEPT ![b] = p],
                ~muddled => p \in {Nobody, Admin}
                              \/ (skill.there /\ p = skill.owner /\ Owner[b] = skill.owner)
         PROVE  SkillsInv'
    <3>1. /\ grant' \in [Bots -> People \cup {Nobody}] /\ grant'[b] = p
          /\ \A a \in Bots \ {b} : grant'[a] = grant[a]
      BY <2>0, <2>11
    <3>2. ~muddled' /\ ~orphaned' => \A a \in Bots : Skills!Granted(a)' =>
            \/ grant'[a] = Admin
            \/ skill'.there /\ grant'[a] = skill'.owner /\ Owner[a] = skill'.owner
      BY <2>5, <2>8, <2>11, <3>1 DEF Skills!Granted
    <3>3. ~muddled' /\ skill'.there => skill'.text \in {skill'.owner, Admin}
      BY <2>5, <2>8, <2>11
    <3> QED
      BY <2>0, <2>4, <2>11, <3>1, <3>2, <3>3
  <2>12. ASSUME NEW c \in Skills!Calls, Skills!Grants(c) PROVE SkillsInv'
    <3>1. /\ Skills!Writing(c) /\ request[c].kind = "grant" /\ Skills!Wrote(c)
          /\ UNCHANGED <<skill, orphaned>>
          /\ grant' = [grant EXCEPT ![request[c].bot] = request[c].who]
      BY <2>12 DEF Skills!Grants
    <3>2. request[c].bot \in Bots /\ request[c].who \in People \cup {Nobody}
      BY <2>6, <2>7, <3>1 DEF ASkillRequest
    <3>3. ~muddled => \/ request[c].who = Admin
                      \/ /\ skill.there /\ request[c].who = skill.owner
                         /\ Owner[request[c].bot] = skill.owner
      BY <2>7, <3>1 DEF Skills!MayEnable
    <3> QED
      BY <2>11, <3>1, <3>2, <3>3
  <2>13. ASSUME NEW c \in Skills!Calls, Skills!Revokes(c) PROVE SkillsInv'
    <3>1. /\ Skills!Writing(c) /\ request[c].kind = "revoke" /\ Skills!Wrote(c)
          /\ UNCHANGED <<skill, orphaned>>
          /\ grant' = [grant EXCEPT ![request[c].bot] = Nobody]
      BY <2>13 DEF Skills!Revokes
    <3>2. request[c].bot \in Bots
      BY <2>7, <3>1
    <3> QED
      BY <2>11, <3>1, <3>2
  <2>14. CASE UNCHANGED skills
    BY <2>14 DEF skills, SkillsInv, Skills!SkillPromise, Skills!TypeOK, StillMay,
       Skills!Granted, Skills!Writing, Skills!MayEdit, Skills!MayEnable
  <2> QED
    BY <2>2, <2>3, <2>9, <2>10, <2>12, <2>13, <2>14 DEF Skills!Next
<1> QED
  BY <1>1, <1>2, PTL DEF Skills!Spec, Skills!vars, skills

\* A refresh that goes on is typed, and no other moves.
ARefresh == [pc : {"idle", "delete", "insert", "done"}, got : SUBSET Tools]

LEMMA ARefreshTurns ==
  ASSUME refresh \in [ToolListing!Refreshes -> ARefresh], NEW r \in ToolListing!Refreshes,
         NEW label \in {"insert", "done"}, ToolListing!Turns(r, label)
  PROVE  /\ refresh' \in [ToolListing!Refreshes -> ARefresh] /\ refresh'[r].pc = label
         /\ \A s \in ToolListing!Refreshes \ {r} : refresh'[s] = refresh[s]
<1> DEFINE rest == IF label = "done" THEN {} ELSE refresh[r].got
           now == [refresh[r] EXCEPT !.pc = label, !.got = rest]
<1>1. refresh[r] \in ARefresh
  OBVIOUS
<1>2. rest \in SUBSET Tools
  BY <1>1 DEF ARefresh
<1>3. refresh' = [refresh EXCEPT ![r] = now]
  BY Zenon DEF ToolListing!Turns
<1> HIDE DEF rest
<1>4. now \in ARefresh /\ now.pc = label
  BY <1>1, <1>2 DEF ARefresh
<1> HIDE DEF now
<1>5. refresh' \in [ToolListing!Refreshes -> ARefresh] /\ refresh'[r] = now
  BY <1>3, <1>4
<1>6. \A s \in ToolListing!Refreshes \ {r} : refresh'[s] = refresh[s]
  BY <1>3
<1> QED
  BY <1>4, <1>5, <1>6

\* The types of the tools held, their refreshes and what the vendor offers.
LEMMA ListingTypes ==
  ASSUME ToolListing!TypeOK, [ToolListing!Next]_toolVars
  PROVE  ToolListing!TypeOK'
<1> USE ListingAssumption
<1>0. /\ vendor \subseteq Tools /\ tools \subseteq Tools /\ listing \subseteq Tools
      /\ refresh \in [ToolListing!Refreshes -> ARefresh]
      /\ tangled \in BOOLEAN /\ changes \in 0..MaxChanges
  BY DEF ToolListing!TypeOK, ARefresh
<1>1. ASSUME NEW s \in SUBSET Tools, ToolListing!VendorChanges(s) PROVE ToolListing!TypeOK'
  BY <1>0, <1>1 DEF ToolListing!VendorChanges, ToolListing!Changes, ToolListing!TypeOK, ARefresh
<1>2. ASSUME NEW r \in ToolListing!Refreshes, ToolListing!ListsTools(r)
      PROVE  ToolListing!TypeOK'
  <2>1. [pc |-> "delete", got |-> vendor] \in ARefresh
    BY <1>0 DEF ARefresh
  <2>2. refresh' \in [ToolListing!Refreshes -> ARefresh]
    BY <1>0, <1>2, <2>1 DEF ToolListing!ListsTools
  <2> QED
    BY <1>0, <1>2, <2>2 DEF ToolListing!ListsTools, ToolListing!TypeOK, ARefresh
<1>3. ASSUME NEW r \in ToolListing!Refreshes, NEW label \in {"insert", "done"},
             ToolListing!Turns(r, label),
             tools' \subseteq Tools /\ listing' \subseteq Tools /\ UNCHANGED vendor,
             tangled' \in BOOLEAN /\ changes' \in 0..MaxChanges
      PROVE  ToolListing!TypeOK'
  <2>1. refresh' \in [ToolListing!Refreshes -> ARefresh]
    BY <1>0, <1>3, ARefreshTurns
  <2> QED
    BY <1>0, <1>3, <2>1 DEF ToolListing!TypeOK, ARefresh
<1>4. ASSUME NEW r \in ToolListing!Refreshes, ToolListing!VendorFails(r)
      PROVE  ToolListing!TypeOK'
  <2>1. changes' \in 0..MaxChanges
    BY <1>0, <1>4 DEF ToolListing!VendorFails, ToolListing!Changes
  <2> QED
    BY <1>0, <1>3, <1>4, <2>1 DEF ToolListing!VendorFails
<1>5. ASSUME NEW r \in ToolListing!Refreshes, ToolListing!DeletesTools(r)
      PROVE  ToolListing!TypeOK'
  <2>1. \E label \in {"insert", "done"} : ToolListing!Turns(r, label)
    BY <1>5 DEF ToolListing!DeletesTools
  <2> QED
    BY <1>0, <1>3, <1>5, <2>1 DEF ToolListing!DeletesTools
<1>6. ASSUME NEW r \in ToolListing!Refreshes, ToolListing!InsertsTools(r)
      PROVE  ToolListing!TypeOK'
  <2>1. refresh[r].got \subseteq Tools
    BY <1>0 DEF ARefresh
  <2>2. tools' \subseteq Tools /\ listing' \subseteq Tools
    BY <1>0, <1>6, <2>1 DEF ToolListing!InsertsTools
  <2> QED
    BY <1>0, <1>3, <1>6, <2>2 DEF ToolListing!InsertsTools
<1>7. ASSUME NEW r \in ToolListing!Refreshes, ToolListing!RefreshFails(r)
      PROVE  ToolListing!TypeOK'
  <2>1. changes' \in 0..MaxChanges
    BY <1>0, <1>7 DEF ToolListing!RefreshFails, ToolListing!Changes
  <2> QED
    BY <1>0, <1>3, <1>7, <2>1 DEF ToolListing!RefreshFails
<1>8. CASE UNCHANGED toolVars
  BY <1>0, <1>8 DEF toolVars, ToolListing!TypeOK, ARefresh
<1> QED
  BY <1>1, <1>2, <1>4, <1>5, <1>6, <1>7, <1>8 DEF ToolListing!Next

\* What is kept of the lists of tools in every behaviour.
LEMMA ListingInvHolds == ToolListing!Spec => []ListingInv
<1>1. ToolListing!Init => ListingInv
  <2> SUFFICES ASSUME ToolListing!Init PROVE ListingInv
    OBVIOUS
  <2> USE ListingAssumption DEF ToolListing!Init
  <2>1. tangled \in BOOLEAN
    OBVIOUS
  <2>2. ToolListing!TypeOK
    BY <2>1 DEF ToolListing!TypeOK
  <2> QED
    BY <2>2 DEF ListingInv, ToolListing!ListingPromise, OneRefresh, ToolListing!Busy
<1>2. ListingInv /\ [ToolListing!Next]_toolVars => ListingInv'
  <2> SUFFICES ASSUME ListingInv, [ToolListing!Next]_toolVars, ~tangled'
               PROVE  /\ OneRefresh'
                      /\ \/ tools' = listing'
                         \/ /\ tools' = {}
                            /\ \E r \in ToolListing!Refreshes : refresh'[r].pc = "insert"
    BY ListingTypes DEF ListingInv, ToolListing!ListingPromise, OneRefresh
  <2> DEFINE Held == /\ OneRefresh'
                     /\ \/ tools' = listing'
                        \/ /\ tools' = {}
                           /\ \E r \in ToolListing!Refreshes : refresh'[r].pc = "insert"
  <2>0. /\ refresh \in [ToolListing!Refreshes -> ARefresh]
        /\ tangled \in BOOLEAN
    BY DEF ListingInv, ToolListing!ListingPromise, ToolListing!TypeOK, ARefresh
  <2> USE DEF ListingInv, ToolListing!ListingPromise, OneRefresh, ToolListing!Busy
  <2>1. ASSUME NEW s \in SUBSET Tools, ToolListing!VendorChanges(s) PROVE Held
    BY <2>1 DEF ToolListing!VendorChanges
  <2>2. ASSUME NEW r \in ToolListing!Refreshes, ToolListing!ListsTools(r) PROVE Held
    <3>1. /\ ~tangled /\ \A s \in ToolListing!Refreshes : ~ToolListing!Busy(s)
          /\ UNCHANGED <<tools, listing>>
          /\ refresh' = [refresh EXCEPT ![r] = [pc |-> "delete", got |-> vendor]]
      BY <2>0, <2>2 DEF ToolListing!ListsTools
    <3>2. /\ refresh'[r].pc = "delete"
          /\ \A s \in ToolListing!Refreshes \ {r} : refresh'[s] = refresh[s]
      BY <2>0, <3>1
    <3> QED
      BY <2>0, <3>1, <3>2
  <2>3. ASSUME NEW r \in ToolListing!Refreshes, ToolListing!VendorFails(r) PROVE Held
    <3>1. /\ ~tangled /\ UNCHANGED <<tools, listing>> /\ refresh[r].pc = "idle"
          /\ ToolListing!Turns(r, "done")
      BY <2>3 DEF ToolListing!VendorFails
    <3>2. /\ refresh'[r].pc = "done"
          /\ \A s \in ToolListing!Refreshes \ {r} : refresh'[s] = refresh[s]
      BY <2>0, <3>1, ARefreshTurns
    <3> QED
      BY <2>0, <3>1, <3>2
  <2>4. ASSUME NEW r \in ToolListing!Refreshes, ToolListing!DeletesTools(r) PROVE Held
    <3>1. /\ ~tangled /\ tools' = {} /\ refresh[r].pc = "delete"
      BY <2>4 DEF ToolListing!DeletesTools
    <3>2. PICK label \in {"insert", "done"} :
            /\ ToolListing!Turns(r, label)
            /\ label = "done" => listing' = {}
      BY <2>4 DEF ToolListing!DeletesTools
    <3>3. /\ refresh'[r].pc = label
          /\ \A s \in ToolListing!Refreshes \ {r} : refresh'[s] = refresh[s]
      BY <2>0, <3>2, ARefreshTurns
    <3> QED
      BY <2>0, <3>1, <3>2, <3>3
  <2>5. ASSUME NEW r \in ToolListing!Refreshes, ToolListing!InsertsTools(r) PROVE Held
    <3>1. ~tangled /\ refresh[r].pc = "insert" /\ ToolListing!Turns(r, "done")
      BY <2>5 DEF ToolListing!InsertsTools
    <3>2. tools = {} /\ tools' = listing'
      BY <2>5, <3>1 DEF ToolListing!InsertsTools
    <3>3. /\ refresh'[r].pc = "done"
          /\ \A s \in ToolListing!Refreshes \ {r} : refresh'[s] = refresh[s]
      BY <2>0, <3>1, ARefreshTurns
    <3> QED
      BY <2>0, <3>1, <3>2, <3>3
  <2>6. ASSUME NEW r \in ToolListing!Refreshes, ToolListing!RefreshFails(r) PROVE Held
    <3>1. /\ ~tangled /\ UNCHANGED <<tools, listing>> /\ refresh[r].pc \notin {"idle", "insert"}
          /\ ToolListing!Turns(r, "done")
      BY <2>0, <2>6 DEF ToolListing!RefreshFails
    <3>2. /\ refresh'[r].pc = "done"
          /\ \A s \in ToolListing!Refreshes \ {r} : refresh'[s] = refresh[s]
      BY <2>0, <3>1, ARefreshTurns
    <3> QED
      BY <2>0, <3>1, <3>2
  <2>7. CASE UNCHANGED toolVars
    BY <2>7 DEF toolVars
  <2> QED
    BY <2>1, <2>2, <2>3, <2>4, <2>5, <2>6, <2>7 DEF ToolListing!Next
<1> QED
  BY <1>1, <1>2, PTL DEF ToolListing!Spec, ToolListing!vars, toolVars

-----------------------------------------------------------------------------
(* The key of a Bot's own server.                                          *)

\* One request has the Bot's row locked and knows its key; a Bot is made once.
OneAtTheRow ==
  /\ \A c, d \in AgentKeys!Calls : AgentKeys!Locked(c) /\ AgentKeys!Locked(d) => c = d
  /\ \A c \in AgentKeys!Calls : AgentKeys!Locked(c) => there = "there" /\ edit[c].old = key
  /\ \A c, d \in AgentKeys!Calls : edit[c].kind = "create" /\ edit[d].kind = "create" => c = d
  /\ \A c \in AgentKeys!Calls :
       edit[c].kind = "create" /\ edit[c].pc \in {"store", "commit"} => there = "absent"
  /\ there = "absent" => key = 0

\* Where a request can be, and which key it has made by then: none that was there.
KeyMade ==
  /\ key # 0 => vault[key] # "none"
  /\ \A c \in AgentKeys!Calls :
       /\ edit[c].pc = "idle" <=> edit[c].kind = "none"
       /\ edit[c].pc \in {"idle", "lock", "store"} => edit[c].new = 0
       /\ edit[c].pc = "lock" => edit[c].kind # "create"
       /\ edit[c].pc = "store" => edit[c].kind \in {"create", "rekey"}
       /\ edit[c].pc = "retire" => edit[c].kind \in {"rekey", "delete"}
       /\ edit[c].pc \in {"retire", "commit"} =>
            (edit[c].new # 0 <=> edit[c].kind \in {"create", "rekey"})
       /\ edit[c].new # 0 => edit[c].new # edit[c].old /\ vault[edit[c].new] # "none"
       /\ edit[c].old # 0 => vault[edit[c].old] # "none"

\* A key of the vault was there in the beginning, or was made by a request or an operator.
Makers == {c \in AgentKeys!Calls : edit[c].new # 0}
KeysUsed == {k \in AgentKeys!Keys : vault[k] # "none"}
KeysLeft ==
  /\ rotations \in 0..MaxRotations
  /\ Cardinality(KeysUsed) <= 1 + Cardinality(Makers) + rotations

\* A key that is not the Bot's own is on its way there, or was left behind; what a
\* request is about to replace was revoked, or the failure to is known.
KeysAccounted ==
  /\ \A k \in AgentKeys!Keys : vault[k] = "live" =>
       (k = key /\ there # "deleted") \/ k \in strays \/ AgentKeys!Fresh(k)
  /\ \A c \in AgentKeys!Calls :
       edit[c].pc = "commit" /\ edit[c].kind \in {"rekey", "delete"} /\ edit[c].old # 0 =>
         vault[edit[c].old] # "live" \/ edit[c].old \in strays
  /\ \A c \in AgentKeys!Calls : AgentKeys!Underway(c) /\ edit[c].new # 0 =>
       vault[edit[c].new] = "live" \/ edit[c].new \in cut
  /\ there = "there" /\ key # 0 =>
       \/ vault[key] = "live" \/ key \in cut
       \/ \E c \in AgentKeys!Calls : /\ edit[c].pc = "commit" /\ edit[c].old = key
                                     /\ edit[c].kind \in {"rekey", "delete"}

KeysInv == AgentKeys!TypeOK /\ OneAtTheRow /\ KeyMade /\ KeysLeft /\ KeysAccounted

\* There is a number for every key that is stored: requests and operators make one each.
LEMMA AKeyIsUnused ==
  ASSUME AgentKeys!TypeOK, KeyMade, KeysLeft,
         rotations < MaxRotations \/ \E c \in AgentKeys!Calls : edit[c].new = 0
  PROVE  /\ AgentKeys!Unused \in AgentKeys!Keys /\ vault[AgentKeys!Unused] = "none"
         /\ IsFiniteSet(KeysUsed) /\ IsFiniteSet(Makers)
         /\ Cardinality(KeysUsed) \in Nat /\ Cardinality(Makers) \in Nat
<1> USE KeysAssumption
<1>1. /\ IsFiniteSet(AgentKeys!Keys) /\ IsFiniteSet(AgentKeys!Calls)
      /\ Cardinality(AgentKeys!Keys) = MaxEditions + MaxRotations + 1
      /\ Cardinality(AgentKeys!Calls) = MaxEditions
  <2>1. \A n \in Nat : IsFiniteSet(1..n) /\ Cardinality(1..n) = n
    <3> TAKE n \in Nat
    <3>1. /\ IsFiniteSet(1..n)
          /\ Cardinality(1..n) = IF 1 > n THEN 0 ELSE n - 1 + 1
      BY FS_Interval
    <3> QED
      BY <3>1
  <2>2. AgentKeys!Keys = 1..(MaxEditions + MaxRotations + 1) /\ AgentKeys!Calls = 1..MaxEditions
    BY DEF AgentKeys!Keys, AgentKeys!Calls
  <2>3. MaxEditions + MaxRotations + 1 \in Nat /\ MaxEditions \in Nat
    OBVIOUS
  <2> QED
    BY <2>1, <2>2, <2>3, Zenon
<1>2. KeysUsed \subseteq AgentKeys!Keys /\ Makers \subseteq AgentKeys!Calls
  BY DEF KeysUsed, Makers
<1>3. /\ IsFiniteSet(KeysUsed) /\ IsFiniteSet(Makers)
      /\ Cardinality(KeysUsed) \in Nat /\ Cardinality(Makers) \in Nat
      /\ Cardinality(Makers) <= MaxEditions
  BY <1>1, <1>2, FS_Subset, FS_CardinalityType
<1>4. KeysUsed # AgentKeys!Keys
  <2> SUFFICES ASSUME KeysUsed = AgentKeys!Keys PROVE FALSE
    OBVIOUS
  <2>1. rotations = MaxRotations /\ Cardinality(Makers) = MaxEditions
    BY <1>1, <1>3 DEF KeysLeft
  <2>2. PICK c \in AgentKeys!Calls : edit[c].new = 0
    BY <2>1
  <2>3. Makers \subseteq AgentKeys!Calls /\ Makers # AgentKeys!Calls
    BY <1>2, <2>2 DEF Makers
  <2> QED
    BY <1>1, <2>1, <2>3, FS_Subset
<1>5. \E k \in AgentKeys!Keys : vault[k] = "none"
  BY <1>2, <1>4 DEF KeysUsed
<1> QED
  BY <1>3, <1>5, Zenon DEF AgentKeys!Unused

\* A step keeps the types, one request at the row, and what requests have made.
LEMMA KeysTypesAreKept ==
  ASSUME AgentKeys!TypeOK, OneAtTheRow, KeyMade, KeysLeft, [AgentKeys!Next]_keys
  PROVE  (AgentKeys!TypeOK /\ OneAtTheRow /\ KeyMade)'
<1> USE DEF AgentKeys!TypeOK, OneAtTheRow, KeyMade, AgentKeys!Locked, AgentKeys!Underway
<1>1. ASSUME NEW c \in AgentKeys!Calls, NEW k \in {"create", "rekey", "edit", "delete"},
             AgentKeys!Begins(c, k)
      PROVE  (AgentKeys!TypeOK /\ OneAtTheRow /\ KeyMade)'
  BY <1>1 DEF AgentKeys!Begins
<1>2. ASSUME NEW c \in AgentKeys!Calls, AgentKeys!Locks(c)
      PROVE  (AgentKeys!TypeOK /\ OneAtTheRow /\ KeyMade)'
  BY <1>2 DEF AgentKeys!Locks, AgentKeys!FirstStep
<1>3. ASSUME NEW c \in AgentKeys!Calls, AgentKeys!Stores(c)
      PROVE  (AgentKeys!TypeOK /\ OneAtTheRow /\ KeyMade)'
  <2>1. AgentKeys!Unused \in AgentKeys!Keys /\ 0 \notin AgentKeys!Keys
    BY <1>3, AKeyIsUnused, KeysAssumption DEF AgentKeys!Stores, AgentKeys!Keys
  <2> QED
    BY <1>3, <2>1 DEF AgentKeys!Stores
<1>4. ASSUME NEW c \in AgentKeys!Calls, AgentKeys!Retires(c)
      PROVE  (AgentKeys!TypeOK /\ OneAtTheRow /\ KeyMade)'
  BY <1>4 DEF AgentKeys!Retires
<1>5. ASSUME NEW c \in AgentKeys!Calls, AgentKeys!Commits(c)
      PROVE  (AgentKeys!TypeOK /\ OneAtTheRow /\ KeyMade)'
  BY <1>5 DEF AgentKeys!Commits
<1>6. ASSUME NEW c \in AgentKeys!Calls, AgentKeys!Fails(c)
      PROVE  (AgentKeys!TypeOK /\ OneAtTheRow /\ KeyMade)'
  BY <1>6 DEF AgentKeys!Fails
<1>7. CASE AgentKeys!OperatorStores
  <2>1. AgentKeys!Unused \in AgentKeys!Keys
    BY <1>7, AKeyIsUnused DEF AgentKeys!OperatorStores
  <2> QED
    BY <1>7, <2>1 DEF AgentKeys!OperatorStores
<1>8. ASSUME NEW k \in AgentKeys!Keys, AgentKeys!OperatorRevokes(k)
      PROVE  (AgentKeys!TypeOK /\ OneAtTheRow /\ KeyMade)'
  <2>1. /\ vault[k] # "none" /\ vault' = [vault EXCEPT ![k] = "revoked"] /\ cut' = cut \cup {k}
        /\ UNCHANGED <<there, key, edit, faults, strays>>
    BY <1>8 DEF AgentKeys!OperatorRevokes
  <2>2. \A l \in AgentKeys!Keys : vault'[l] = "none" <=> vault[l] = "none"
    BY <2>1
  <2>3. AgentKeys!TypeOK'
    BY <2>1
  <2> QED
    BY <2>1, <2>2, <2>3
<1>9. CASE UNCHANGED keys
  BY <1>9 DEF keys
<1> HIDE DEF AgentKeys!TypeOK, OneAtTheRow, KeyMade
<1> QED
  BY <1>1, <1>2, <1>3, <1>4, <1>5, <1>6, <1>7, <1>8, <1>9 DEF AgentKeys!Next

\* A step accounts for the key it stores, retires or leaves behind.
LEMMA KeysStayAccounted ==
  ASSUME AgentKeys!TypeOK, OneAtTheRow, KeyMade, KeysLeft, KeysAccounted, [AgentKeys!Next]_keys
  PROVE  KeysAccounted'
<1> USE DEF AgentKeys!TypeOK, OneAtTheRow, KeyMade, KeysAccounted, AgentKeys!Locked,
            AgentKeys!Underway, AgentKeys!Fresh, AgentKeys!Taken
<1>0. 0 \notin AgentKeys!Keys
  BY KeysAssumption DEF AgentKeys!Keys
<1>1. ASSUME NEW c \in AgentKeys!Calls, NEW k \in {"create", "rekey", "edit", "delete"},
             AgentKeys!Begins(c, k)
      PROVE  KeysAccounted'
  BY <1>1 DEF AgentKeys!Begins
<1>2. ASSUME NEW c \in AgentKeys!Calls, AgentKeys!Locks(c) PROVE KeysAccounted'
  BY <1>2 DEF AgentKeys!Locks, AgentKeys!FirstStep
<1>3. ASSUME NEW c \in AgentKeys!Calls, AgentKeys!Stores(c) PROVE KeysAccounted'
  <2>1. AgentKeys!Unused \in AgentKeys!Keys /\ vault[AgentKeys!Unused] = "none"
    BY <1>3, AKeyIsUnused DEF AgentKeys!Stores
  <2> QED
    BY <1>0, <1>3, <2>1 DEF AgentKeys!Stores
<1>4. ASSUME NEW c \in AgentKeys!Calls, AgentKeys!Retires(c) PROVE KeysAccounted'
  <2>1. /\ edit[c].pc = "retire" /\ edit' = [edit EXCEPT ![c].pc = "commit"]
        /\ edit[c].kind \in {"rekey", "delete"} /\ edit[c].old = key
        /\ UNCHANGED <<there, key, rotations, cut>>
    BY <1>4 DEF AgentKeys!Retires
  <2>2. \A d \in AgentKeys!Calls :
          /\ edit'[d].new = edit[d].new /\ edit'[d].old = edit[d].old
          /\ edit'[d].kind = edit[d].kind /\ d # c => edit'[d] = edit[d]
          /\ AgentKeys!Underway(d) <=> AgentKeys!Underway(d)'
    BY <2>1
  <2>3. CASE edit[c].old = 0 /\ UNCHANGED <<vault, strays>>
    BY <1>0, <2>1, <2>2, <2>3
  <2>4. CASE edit[c].old # 0 /\ vault' = [vault EXCEPT ![edit[c].old] = "revoked"]
             /\ strays' = strays
    <3>1. ASSUME NEW d \in AgentKeys!Calls, AgentKeys!Underway(d)', edit'[d].new # 0
          PROVE  edit[d].new # edit[c].old
      <4>1. d = c \/ edit[d].kind = "create"
        BY <2>1, <2>2, <3>1
      <4> QED
        BY <2>1, <2>2, <3>1, <4>1
    <3> QED
      BY <1>0, <2>1, <2>2, <2>4, <3>1
  <2>5. CASE edit[c].old # 0 /\ vault' = vault /\ strays' = strays \cup {edit[c].old}
    BY <1>0, <2>1, <2>2, <2>5
  <2> QED
    BY <1>4, <2>3, <2>4, <2>5 DEF AgentKeys!Retires
<1>5. ASSUME NEW c \in AgentKeys!Calls, AgentKeys!Commits(c) PROVE KeysAccounted'
  BY <1>0, <1>5 DEF AgentKeys!Commits
<1>6. ASSUME NEW c \in AgentKeys!Calls, AgentKeys!Fails(c) PROVE KeysAccounted'
  BY <1>0, <1>6 DEF AgentKeys!Fails
<1>7. CASE AgentKeys!OperatorStores
  <2>1. AgentKeys!Unused \in AgentKeys!Keys /\ vault[AgentKeys!Unused] = "none"
    BY <1>7, AKeyIsUnused DEF AgentKeys!OperatorStores
  <2> QED
    BY <1>0, <1>7, <2>1 DEF AgentKeys!OperatorStores
<1>8. ASSUME NEW k \in AgentKeys!Keys, AgentKeys!OperatorRevokes(k) PROVE KeysAccounted'
  BY <1>0, <1>8 DEF AgentKeys!OperatorRevokes
<1>9. CASE UNCHANGED keys
  BY <1>9 DEF keys
<1> HIDE DEF AgentKeys!TypeOK, OneAtTheRow, KeyMade, KeysAccounted
<1> QED
  BY <1>1, <1>2, <1>3, <1>4, <1>5, <1>6, <1>7, <1>8, <1>9 DEF AgentKeys!Next

\* One key more is one maker or one rotation more.
LEMMA KeysAreLeft ==
  ASSUME AgentKeys!TypeOK, KeyMade, KeysLeft, [AgentKeys!Next]_keys
  PROVE  KeysLeft'
<1> USE KeysAssumption DEF AgentKeys!TypeOK, KeyMade
<1>1. CASE KeysUsed' = KeysUsed /\ Makers' = Makers /\ rotations' = rotations
  BY <1>1 DEF KeysLeft
<1>2. ASSUME NEW c \in AgentKeys!Calls, AgentKeys!Stores(c) PROVE KeysLeft'
  <2> DEFINE k == AgentKeys!Unused
  <2>1. /\ k \in AgentKeys!Keys /\ vault[k] = "none" /\ k # 0
        /\ IsFiniteSet(KeysUsed) /\ IsFiniteSet(Makers)
        /\ Cardinality(KeysUsed) \in Nat /\ Cardinality(Makers) \in Nat
    BY <1>2, AKeyIsUnused DEF AgentKeys!Stores, AgentKeys!Keys
  <2> HIDE DEF k
  <2>2. KeysUsed' = KeysUsed \cup {k} /\ Makers' = Makers \cup {c} /\ c \notin Makers
    BY <1>2, <2>1 DEF AgentKeys!Stores, KeysUsed, Makers, k
  <2>3. k \notin KeysUsed
    BY <2>1 DEF KeysUsed
  <2>4. Cardinality(KeysUsed') = Cardinality(KeysUsed) + 1
    BY <2>1, <2>2, <2>3, FS_AddElement
  <2>5. Cardinality(Makers') = Cardinality(Makers) + 1 /\ rotations' = rotations
    BY <1>2, <2>1, <2>2, FS_AddElement DEF AgentKeys!Stores
  <2> QED
    BY <2>1, <2>4, <2>5 DEF KeysLeft
<1>3. CASE AgentKeys!OperatorStores
  <2> DEFINE k == AgentKeys!Unused
  <2>1. /\ k \in AgentKeys!Keys /\ vault[k] = "none"
        /\ IsFiniteSet(KeysUsed) /\ IsFiniteSet(Makers)
        /\ Cardinality(KeysUsed) \in Nat /\ Cardinality(Makers) \in Nat
    BY <1>3, AKeyIsUnused DEF AgentKeys!OperatorStores
  <2> HIDE DEF k
  <2>2. KeysUsed' = KeysUsed \cup {k} /\ Makers' = Makers
    BY <1>3, <2>1 DEF AgentKeys!OperatorStores, KeysUsed, Makers, k
  <2>3. k \notin KeysUsed
    BY <2>1 DEF KeysUsed
  <2>4. Cardinality(KeysUsed') = Cardinality(KeysUsed) + 1
    BY <2>1, <2>2, <2>3, FS_AddElement
  <2>5. rotations < MaxRotations /\ rotations' = rotations + 1
    BY <1>3 DEF AgentKeys!OperatorStores
  <2> QED
    BY <2>1, <2>2, <2>4, <2>5 DEF KeysLeft
<1>4. ASSUME NEW k \in AgentKeys!Keys, AgentKeys!OperatorRevokes(k) PROVE KeysLeft'
  <2>1. KeysUsed' = KeysUsed /\ Makers' = Makers /\ rotations < MaxRotations
        /\ rotations' = rotations + 1
    BY <1>4 DEF AgentKeys!OperatorRevokes, KeysUsed, Makers
  <2>2. Cardinality(KeysUsed) \in Nat /\ Cardinality(Makers) \in Nat
    BY <2>1, AKeyIsUnused
  <2> QED
    BY <2>1, <2>2 DEF KeysLeft
<1>5. ASSUME NEW c \in AgentKeys!Calls, AgentKeys!Retires(c) PROVE KeysLeft'
  BY <1>1, <1>5 DEF AgentKeys!Retires, KeysUsed, Makers
<1>6. ASSUME NEW c \in AgentKeys!Calls, NEW k \in {"create", "rekey", "edit", "delete"},
             AgentKeys!Begins(c, k) \/ AgentKeys!Locks(c) \/ AgentKeys!Commits(c)
             \/ AgentKeys!Fails(c)
      PROVE  KeysLeft'
  BY <1>1, <1>6 DEF AgentKeys!Begins, AgentKeys!Locks, AgentKeys!Commits, AgentKeys!Fails,
                    KeysUsed, Makers
<1>7. CASE UNCHANGED keys
  BY <1>1, <1>7 DEF keys, KeysUsed, Makers
<1> HIDE DEF AgentKeys!TypeOK, KeyMade
<1> QED
  BY <1>2, <1>3, <1>4, <1>5, <1>6, <1>7 DEF AgentKeys!Next

\* What is known of the keys, in every behaviour.
LEMMA KeysInvHolds == AgentKeys!Spec => []KeysInv
<1>1. AgentKeys!Init => KeysInv
  <2> SUFFICES ASSUME AgentKeys!Init PROVE KeysInv
    OBVIOUS
  <2> USE KeysAssumption DEF AgentKeys!Init, AgentKeys!Unborn
  <2>1. 0 \notin AgentKeys!Keys /\ 1 \in AgentKeys!Keys
    BY DEF AgentKeys!Keys
  <2>2. AgentKeys!TypeOK
    BY <2>1 DEF AgentKeys!TypeOK
  <2>3. OneAtTheRow /\ KeyMade
    <3>1. key # 0 => vault[key] = "live"
      BY <2>1
    <3> QED
      BY <3>1 DEF OneAtTheRow, KeyMade, AgentKeys!Locked
  <2>4. KeysAccounted
    BY <2>1 DEF KeysAccounted, AgentKeys!Underway
  <2>5. Makers = {} /\ KeysUsed \subseteq {1}
    BY <2>1 DEF Makers, KeysUsed
  <2>6. Cardinality(Makers) = 0 /\ Cardinality(KeysUsed) <= 1
    <3>1. IsFiniteSet({1}) /\ Cardinality({1}) = 1
      BY FS_Singleton
    <3>2. Cardinality(KeysUsed) <= Cardinality({1})
      BY <2>5, <3>1, FS_Subset
    <3> QED
      BY <2>5, <3>1, <3>2, FS_EmptySet
  <2>7. Cardinality(KeysUsed) \in Nat
    BY <2>5, FS_Singleton, FS_Subset, FS_CardinalityType
  <2> QED
    BY <2>2, <2>3, <2>4, <2>6, <2>7 DEF KeysInv, KeysLeft
<1>2. KeysInv /\ [AgentKeys!Next]_keys => KeysInv'
  BY KeysTypesAreKept, KeysStayAccounted, KeysAreLeft DEF KeysInv
<1> QED
  BY <1>1, <1>2, PTL DEF AgentKeys!Spec, AgentKeys!vars, keys

-----------------------------------------------------------------------------
(* The human a Bot writes to.                                              *)

ASend ==
  [pc : {"idle", "check", "blocked", "insert", "deliver", "update", "read", "write", "over"},
   linked : BOOLEAN, status : Crm!Statuses, out : BOOLEAN,
   outcome : {"none", "logged", "sent", "failed"}, seen : Crm!Statuses,
   opens : Nat, clicks : Nat]

CrmTypes ==
  /\ humans \in Nat /\ contact \in [flag : BOOLEAN, stage : {"dnc", "lead"}]
  /\ create \in [Crm!Creates ->
                   [pc : {"idle", "insert", "update", "over"}, patch : Crm!Patches]]
  /\ send \in [Crm!Sends -> ASend]
  /\ event \in [Crm!Events -> [pc : {"idle", "write", "over"}, send : Nat,
                               kind : {"opened", "clicked"}, seen : Crm!Statuses]]
  /\ \A e \in Crm!Events : event[e].pc = "write" => event[e].send \in Crm!Sends
  /\ spared \subseteq Crm!Sends /\ overlapped \in BOOLEAN /\ edits \in 0..MaxEdits

\* A create writes one row, and those that come one at a time find it.
Written == {c \in Crm!Creates : create[c].pc = "over"}
OneCreate ==
  /\ humans <= 1 + Cardinality(Written)
  /\ ~overlapped =>
       /\ humans <= 1
       /\ \A c, d \in Crm!Creates :
            create[c].pc \in {"insert", "update"} /\ create[d].pc \in {"insert", "update"}
              => c = d
       /\ \A c \in Crm!Creates : create[c].pc = "insert" => humans = 0

\* A send that names a person who is marked all along gets no further than the check.
MarkedAllAlong ==
  /\ spared # {} => Crm!Marked(contact)
  /\ \A s \in Crm!Sends :
       send[s].pc \in {"idle", "check", "blocked", "insert", "deliver"} => ~send[s].out
  /\ \A s \in spared : send[s].linked => send[s].pc \in {"check", "blocked"}

CrmInv == CrmTypes /\ OneCreate /\ MarkedAllAlong

\* A step keeps the types of the person, the sends and the openings.
LEMMA CrmTypesAreKept ==
  ASSUME CrmTypes, [Crm!Next]_crm
  PROVE  CrmTypes'
<1> USE CrmAssumption DEF CrmTypes, Crm!Statuses, Crm!Steps, Crm!InTurn, Crm!Stays
<1>1. ASSUME NEW f \in Crm!Patches, Crm!Edits(f) PROVE CrmTypes'
  <2>1. contact' \in [flag : BOOLEAN, stage : {"dnc", "lead"}]
    BY <1>1 DEF Crm!Edits, Crm!Patched, Crm!Patches
  <2> QED
    BY <1>1, <2>1 DEF Crm!Edits
<1>2. ASSUME NEW f \in Crm!Patches, NEW c \in Crm!Creates, Crm!Looks(c, f) PROVE CrmTypes'
  BY <1>2 DEF Crm!Looks
<1>3. ASSUME NEW c \in Crm!Creates, Crm!Writes(c) PROVE CrmTypes'
  <2>1. contact' \in [flag : BOOLEAN, stage : {"dnc", "lead"}]
    <3>1. \A f \in Crm!Patches :
            /\ Crm!Patched(contact, f) \in [flag : BOOLEAN, stage : {"dnc", "lead"}]
            /\ Crm!Fresh(f) \in [flag : BOOLEAN, stage : {"dnc", "lead"}]
      BY DEF Crm!Patched, Crm!Fresh, Crm!Patches
    <3> QED
      BY <1>3, <3>1 DEF Crm!Writes
  <2>2. create' \in [Crm!Creates ->
                       [pc : {"idle", "insert", "update", "over"}, patch : Crm!Patches]]
    BY <1>3 DEF Crm!Writes, Crm!Unborn, Crm!Patches
  <2> QED
    BY <1>3, <2>1, <2>2 DEF Crm!Writes
<1>b. ASSUME NEW s \in Crm!Sends, NEW r \in ASend, send' = [send EXCEPT ![s] = r],
             spared' \subseteq Crm!Sends,
             UNCHANGED <<humans, contact, create, event, edits, overlapped>>
      PROVE  CrmTypes'
  <2>1. send' \in [Crm!Sends -> ASend]
    BY <1>b
  <2> QED
    BY <1>b, <2>1
<1>4. ASSUME NEW s \in Crm!Sends, NEW b \in BOOLEAN, Crm!Begins(s, b) PROVE CrmTypes'
  <2> DEFINE r == [send[s] EXCEPT !.pc = "check", !.linked = b]
  <2>3. spared' \subseteq Crm!Sends
    BY <1>4 DEF Crm!Begins
  <2>1. send' = [send EXCEPT ![s] = r]
          /\ UNCHANGED <<humans, contact, create, event, edits, overlapped>>
    BY <1>4 DEF Crm!Begins
  <2>2. r \in ASend
    <3>1. send[s] \in ASend
      OBVIOUS
    <3> HIDE DEF CrmTypes
    <3> QED
      BY <3>1 DEF ASend
  <2> QED
    BY <1>b, <2>1, <2>2, <2>3
<1>5. ASSUME NEW s \in Crm!Sends, NEW b \in BOOLEAN, NEW o \in {"logged", "sent", "failed"},
             Crm!Delivers(s, o, b)
      PROVE  CrmTypes'
  <2> DEFINE r == [send[s] EXCEPT !.pc = "update", !.outcome = o, !.out = b]
  <2>1. send' = [send EXCEPT ![s] = r]
          /\ UNCHANGED <<humans, contact, create, event, edits, overlapped, spared>>
    BY <1>5 DEF Crm!Delivers
  <2>2. r \in ASend
    <3>1. send[s] \in ASend
      OBVIOUS
    <3> HIDE DEF CrmTypes
    <3> QED
      BY <3>1 DEF ASend
  <2> QED
    BY <1>b, <2>1, <2>2
<1>6. ASSUME NEW s \in Crm!Sends, Crm!Checks(s) PROVE CrmTypes'
  <2> DEFINE r == [send[s] EXCEPT !.pc = IF send[s].linked /\ Crm!Blocked(contact)
                                         THEN "blocked" ELSE "insert"]
  <2>1. send' = [send EXCEPT ![s] = r]
        /\ UNCHANGED <<humans, contact, create, event, edits, overlapped, spared>>
    BY <1>6 DEF Crm!Checks
  <2>2. r \in ASend
    <3>1. send[s] \in ASend
      OBVIOUS
    <3> HIDE DEF CrmTypes
    <3> QED
      BY <3>1 DEF ASend
  <2> QED
    BY <1>b, <2>1, <2>2
<1>7. ASSUME NEW s \in Crm!Sends, Crm!Inserts(s) PROVE CrmTypes'
  <2> DEFINE r == [send[s] EXCEPT !.pc = "deliver", !.status = "queued"]
  <2>1. send' = [send EXCEPT ![s] = r]
          /\ UNCHANGED <<humans, contact, create, event, edits, overlapped, spared>>
    BY <1>7 DEF Crm!Inserts
  <2>2. r \in ASend
    <3>1. send[s] \in ASend
      OBVIOUS
    <3> HIDE DEF CrmTypes
    <3> QED
      BY <3>1 DEF ASend
  <2> QED
    BY <1>b, <2>1, <2>2
<1>8. ASSUME NEW s \in Crm!Sends, Crm!Updates(s) PROVE CrmTypes'
  <2> DEFINE r == [send[s] EXCEPT !.pc = IF send[s].outcome = "logged" THEN "over" ELSE "read",
                             !.status = send[s].outcome]
  <2>1. send' = [send EXCEPT ![s] = r]
          /\ UNCHANGED <<humans, contact, create, event, edits, overlapped, spared>>
    BY <1>8 DEF Crm!Updates
  <2>2. r \in ASend
    <3>1. send[s] \in ASend
      OBVIOUS
    <3> HIDE DEF CrmTypes
    <3> QED
      BY <3>1 DEF ASend
  <2> QED
    BY <1>b, <2>1, <2>2
<1>9. ASSUME NEW s \in Crm!Sends, Crm!ReadsSend(s) PROVE CrmTypes'
  <2> DEFINE r == [send[s] EXCEPT !.pc = "write", !.seen = send[s].status]
  <2>1. send' = [send EXCEPT ![s] = r]
          /\ UNCHANGED <<humans, contact, create, event, edits, overlapped, spared>>
    BY <1>9 DEF Crm!ReadsSend
  <2>2. r \in ASend
    <3>1. send[s] \in ASend
      OBVIOUS
    <3> HIDE DEF CrmTypes
    <3> QED
      BY <3>1 DEF ASend
  <2> QED
    BY <1>b, <2>1, <2>2
<1>a. \A seen, new, st \in Crm!Statuses : Crm!Settled(seen, new, st) \in Crm!Statuses
  BY DEF Crm!Settled, Crm!NextStatus
<1>10. ASSUME NEW s \in Crm!Sends, Crm!WritesSend(s) PROVE CrmTypes'
  <2> DEFINE new == Crm!Settled(send[s].seen, send[s].outcome, send[s].status)
             r == [send[s] EXCEPT !.pc = "over", !.seen = "none", !.status = new]
  <2>1. send' = [send EXCEPT ![s] = r]
          /\ UNCHANGED <<humans, contact, create, event, edits, overlapped, spared>>
    BY <1>10 DEF Crm!WritesSend
  <2>2. send[s].seen \in Crm!Statuses /\ send[s].outcome \in Crm!Statuses
        /\ send[s].status \in Crm!Statuses
    BY DEF ASend
  <2>3. new \in Crm!Statuses
    BY <1>a, <2>2
  <2> HIDE DEF new
  <2>4. r \in ASend
    <3>1. send[s] \in ASend
      OBVIOUS
    <3> HIDE DEF CrmTypes
    <3> QED
      BY <2>3, <3>1 DEF ASend
  <2> QED
    BY <1>b, <2>1, <2>4
<1>11. ASSUME NEW s \in Crm!Sends, NEW e \in Crm!Events, NEW k \in {"opened", "clicked"},
              Crm!Opens(e, s, k)
       PROVE  CrmTypes'
  <2> DEFINE a == send[s].opens + IF k = "opened" THEN 1 ELSE 0
             b == send[s].clicks + IF k = "clicked" THEN 1 ELSE 0
             r == [send[s] EXCEPT !.opens = a, !.clicks = b]
  <2>1. /\ send' = [send EXCEPT ![s] = r]
        /\ event' = [event EXCEPT ![e] = [pc |-> "write", send |-> s, kind |-> k,
                                          seen |-> send[s].status]]
        /\ UNCHANGED <<humans, contact, create, edits, overlapped, spared>>
    BY <1>11 DEF Crm!Opens, Crm!Tracked
  <2>2. r \in ASend
    <3>1. send[s] \in ASend
      OBVIOUS
    <3>2. a \in Nat /\ b \in Nat
      BY <3>1 DEF ASend
    <3> HIDE DEF CrmTypes, a, b
    <3> QED
      BY <3>1, <3>2 DEF ASend
  <2>3. send' \in [Crm!Sends -> ASend]
    BY <2>1, <2>2
  <2>4. s \in Nat /\ send[s].status \in Crm!Statuses
    BY DEF Crm!Sends, ASend
  <2> HIDE DEF r
  <2> QED
    BY <2>1, <2>3, <2>4
<1>12. ASSUME NEW e \in Crm!Events, Crm!Reports(e) PROVE CrmTypes'
  <2> DEFINE s == event[e].send
             new == Crm!Settled(event[e].seen, event[e].kind, send[s].status)
             r == [send[s] EXCEPT !.status = new]
  <2>1. /\ s \in Crm!Sends /\ send' = [send EXCEPT ![s] = r]
        /\ event' = [event EXCEPT ![e] = [Crm!Unopened EXCEPT !.pc = "over"]]
        /\ UNCHANGED <<humans, contact, create, edits, overlapped, spared>>
    BY <1>12 DEF Crm!Reports
  <2>2. event[e].seen \in Crm!Statuses /\ event[e].kind \in Crm!Statuses
        /\ send[s].status \in Crm!Statuses
    BY <2>1 DEF ASend
  <2>3. new \in Crm!Statuses
    BY <1>a, <2>2
  <2> HIDE DEF new
  <2>4. r \in ASend
    <3>1. send[s] \in ASend
      BY <2>1
    <3> HIDE DEF CrmTypes, s
    <3> QED
      BY <2>3, <3>1 DEF ASend
  <2>5. send' \in [Crm!Sends -> ASend]
    BY <2>1, <2>4
  <2> HIDE DEF r, s
  <2> QED
    BY <2>1, <2>5 DEF Crm!Unopened
<1>13. CASE UNCHANGED crm
  BY <1>13 DEF crm
<1> HIDE DEF CrmTypes
<1> QED
  BY <1>1, <1>2, <1>3, <1>4, <1>5, <1>6, <1>7, <1>8, <1>9, <1>10, <1>11, <1>12, <1>13
     DEF Crm!Next

\* Creates that come one at a time leave one row.
LEMMA OneCreateIsKept ==
  ASSUME CrmTypes, OneCreate, [Crm!Next]_crm
  PROVE  OneCreate'
<1> USE CrmAssumption DEF CrmTypes
<1>0. IsFiniteSet(Written) /\ Cardinality(Written) \in Nat
  <2>1. IsFiniteSet(Crm!Creates) /\ Written \subseteq Crm!Creates
    BY FS_Interval DEF Written, Crm!Creates
  <2> QED
    BY <2>1, FS_Subset, FS_CardinalityType
<1>1. ASSUME NEW f \in Crm!Patches, NEW c \in Crm!Creates, Crm!Looks(c, f) PROVE OneCreate'
  <2>1. Written' = Written
    BY <1>1 DEF Crm!Looks, Crm!InTurn, Written
  <2>2. /\ UNCHANGED humans /\ create[c].pc = "idle"
        /\ overlapped' = (overlapped
                            \/ \E d \in Crm!Creates : create[d].pc \in {"insert", "update"})
        /\ create' = [create EXCEPT ![c] =
                        [pc |-> IF humans = 0 THEN "insert" ELSE "update", patch |-> f]]
    BY <1>1 DEF Crm!Looks, Crm!InTurn
  <2>3. /\ create'[c].pc = IF humans = 0 THEN "insert" ELSE "update"
        /\ \A d \in Crm!Creates \ {c} : create'[d] = create[d]
    BY <2>2
  <2>4. CASE overlapped'
    BY <2>1, <2>2, <2>4 DEF OneCreate
  <2>5. CASE ~overlapped'
    <3>1. ~overlapped /\ \A d \in Crm!Creates : create[d].pc \notin {"insert", "update"}
      BY <2>2, <2>5
    <3> HIDE DEF CrmTypes
    <3> QED
      BY <2>1, <2>2, <2>3, <3>1 DEF OneCreate
  <2> QED
    BY <2>4, <2>5
<1>2. ASSUME NEW c \in Crm!Creates, Crm!Writes(c) PROVE OneCreate'
  <2>1. Written' = Written \cup {c} /\ c \notin Written
    BY <1>2 DEF Crm!Writes, Written
  <2>2. Cardinality(Written') = Cardinality(Written) + 1
    BY <1>0, <2>1, FS_AddElement
  <2> QED
    BY <1>0, <1>2, <2>2 DEF Crm!Writes, OneCreate
<1>3. CASE UNCHANGED <<humans, create, overlapped>>
  BY <1>3 DEF OneCreate, Written
<1>4. ASSUME NEW s \in Crm!Sends
      PROVE  /\ \A b \in BOOLEAN : Crm!Begins(s, b) => OneCreate'
             /\ \A b \in BOOLEAN, o \in {"logged", "sent", "failed"} :
                  Crm!Delivers(s, o, b) => OneCreate'
             /\ Crm!Checks(s) \/ Crm!Inserts(s) \/ Crm!Updates(s) \/ Crm!ReadsSend(s)
                  \/ Crm!WritesSend(s) => OneCreate'
  BY <1>3 DEF Crm!Begins, Crm!Delivers, Crm!Checks, Crm!Inserts, Crm!Updates, Crm!ReadsSend,
     Crm!WritesSend
<1>5. /\ \A f \in Crm!Patches : Crm!Edits(f) => OneCreate'
      /\ \A e \in Crm!Events, s \in Crm!Sends, k \in {"opened", "clicked"} :
           Crm!Opens(e, s, k) => OneCreate'
      /\ \A e \in Crm!Events : Crm!Reports(e) => OneCreate'
      /\ UNCHANGED crm => OneCreate'
  BY <1>3 DEF Crm!Edits, Crm!Opens, Crm!Reports, crm
<1> HIDE DEF CrmTypes
<1> QED
  BY <1>1, <1>2, <1>4, <1>5 DEF Crm!Next

\* A person who is marked all along is not written to.
LEMMA MarkedIsKept ==
  ASSUME CrmTypes, MarkedAllAlong, [Crm!Next]_crm
  PROVE  MarkedAllAlong'
<1> USE DEF CrmTypes, MarkedAllAlong, Crm!Steps, Crm!InTurn
<1>1. CASE UNCHANGED send /\ Crm!Stays(contact')
  BY <1>1 DEF Crm!Stays
<1>2. ASSUME NEW s \in Crm!Sends, NEW b \in BOOLEAN, Crm!Begins(s, b) PROVE MarkedAllAlong'
  BY <1>2 DEF Crm!Begins
<1>3. ASSUME NEW s \in Crm!Sends, NEW b \in BOOLEAN, NEW o \in {"logged", "sent", "failed"},
             Crm!Delivers(s, o, b)
      PROVE  MarkedAllAlong'
  BY <1>3 DEF Crm!Delivers
<1>4. ASSUME NEW s \in Crm!Sends, Crm!Checks(s) PROVE MarkedAllAlong'
  BY <1>4 DEF Crm!Checks, Crm!Blocked, Crm!Marked
<1>5. ASSUME NEW s \in Crm!Sends,
             Crm!Inserts(s) \/ Crm!Updates(s) \/ Crm!ReadsSend(s) \/ Crm!WritesSend(s)
      PROVE  MarkedAllAlong'
  <2>1. CASE Crm!Inserts(s)
    BY <2>1 DEF Crm!Inserts, ASend
  <2>2. CASE Crm!Updates(s)
    BY <2>2 DEF Crm!Updates, ASend
  <2>3. CASE Crm!ReadsSend(s)
    BY <2>3 DEF Crm!ReadsSend, ASend
  <2>4. CASE Crm!WritesSend(s)
    BY <2>4 DEF Crm!WritesSend, ASend
  <2> QED
    BY <1>5, <2>1, <2>2, <2>3, <2>4
<1>6. CASE /\ UNCHANGED <<contact, spared>>
           /\ \A s \in Crm!Sends : send'[s].pc = send[s].pc /\ send'[s].out = send[s].out
                                   /\ send'[s].linked = send[s].linked
  BY <1>6
<1>7. ASSUME NEW s \in Crm!Sends, NEW e \in Crm!Events, NEW k \in {"opened", "clicked"},
             Crm!Opens(e, s, k)
      PROVE  MarkedAllAlong'
  BY <1>6, <1>7 DEF Crm!Opens, Crm!Tracked
<1>8. ASSUME NEW e \in Crm!Events, Crm!Reports(e) PROVE MarkedAllAlong'
  BY <1>6, <1>8 DEF Crm!Reports
<1>9. CASE UNCHANGED crm
  BY <1>6, <1>9 DEF crm
<1>10. ASSUME NEW f \in Crm!Patches, NEW c \in Crm!Creates,
              Crm!Edits(f) \/ Crm!Looks(c, f) \/ Crm!Writes(c)
       PROVE  MarkedAllAlong'
  BY <1>1, <1>6, <1>10 DEF Crm!Edits, Crm!Looks, Crm!Writes
<1>11. ASSUME NEW f \in Crm!Patches, Crm!Edits(f) PROVE MarkedAllAlong'
  BY <1>1, <1>11 DEF Crm!Edits
<1> HIDE DEF CrmTypes, MarkedAllAlong
<1>12. ASSUME NEW c \in Crm!Creates, Crm!Writes(c) PROVE MarkedAllAlong'
  BY <1>1, <1>12 DEF Crm!Writes
<1> QED
  BY <1>2, <1>3, <1>4, <1>5, <1>7, <1>8, <1>9, <1>10, <1>11, <1>12 DEF Crm!Next

\* What is known of the human and the sends, in every behaviour.
LEMMA CrmInvHolds == Crm!Spec => []CrmInv
<1>1. Crm!Init => CrmInv
  <2> SUFFICES ASSUME Crm!Init PROVE CrmInv
    OBVIOUS
  <2> USE CrmAssumption DEF Crm!Init, Crm!Unborn, Crm!Unopened
  <2>1. contact \in [flag : BOOLEAN, stage : {"dnc", "lead"}]
    <3>1. \/ contact \in [flag : BOOLEAN, stage : {"dnc", "lead"}]
          \/ contact = [flag |-> FALSE, stage |-> "lead"]
      BY Zenon
    <3>2. [flag |-> FALSE, stage |-> "lead"] \in [flag : BOOLEAN, stage : {"dnc", "lead"}]
      OBVIOUS
    <3> QED
      BY <3>1, <3>2, Zenon
  <2>b. overlapped \in BOOLEAN
    BY Zenon
  <2>2. CrmTypes
    BY <2>1, <2>b DEF CrmTypes, ASend, Crm!Patches, Crm!Statuses
  <2>3. Written = {}
    BY DEF Written
  <2>4. OneCreate
    BY <2>3, FS_EmptySet DEF OneCreate
  <2> QED
    BY <2>2, <2>4 DEF CrmInv, MarkedAllAlong
<1>2. CrmInv /\ [Crm!Next]_crm => CrmInv'
  BY CrmTypesAreKept, OneCreateIsKept, MarkedIsKept DEF CrmInv
<1> QED
  BY <1>1, <1>2, PTL DEF Crm!Spec, Crm!vars, crm

\* A person who is marked is not written to in their name, threads say what happened to
\* them, and creates that do not overlap leave one row, for any number of requests.
THEOREM TheCrmKeepsItsPromise == Crm!Spec => []CrmPromise
<1>1. ASSUME CrmInv PROVE Crm!CrmPromise
  <2> USE <1>1 DEF CrmInv
  <2>1. humans <= 1 + MaxCreates
    <3>1. Written \subseteq Crm!Creates
      BY DEF Written
    <3>2. IsFiniteSet(Crm!Creates) /\ Cardinality(Crm!Creates) = MaxCreates
      BY CrmAssumption, FS_Interval DEF Crm!Creates
    <3>3. Cardinality(Written) <= MaxCreates /\ Cardinality(Written) \in Nat
      BY <3>1, <3>2, FS_Subset, FS_CardinalityType
    <3> QED
      BY <3>3, CrmAssumption DEF OneCreate, CrmTypes
  <2>2. Crm!TypeOK
    <3>1. \A s \in Crm!Sends : send[s].status \in Crm!Statuses /\ send[s].seen \in Crm!Statuses
      BY DEF CrmTypes, ASend
    <3> QED
      BY <2>1, <3>1, CrmAssumption DEF CrmTypes, Crm!TypeOK
  <2> QED
    BY <2>2 DEF Crm!CrmPromise, Crm!ThreadStatus, CrmTypes, OneCreate, MarkedAllAlong
<1> QED
  BY <1>1, CrmInvHolds, PTL DEF CrmPromise

-----------------------------------------------------------------------------
(* The components a Bot may answer with.                                   *)

\* A request that has written its version, if it writes one: a build's announcement and
\* a draft write theirs at the end, a save of the card at the beginning.
Authors ==
  {c \in Catalogue!Calls :
     change[c].pc # "idle" /\ ~(change[c].kind \in {"announce", "draft"}
                                /\ change[c].pc = "write")}

ARequest ==
  [kind : {"none", "announce", "save", "publish", "remove", "withhold", "grant", "call"}
          \cup Catalogue!Administers,
   name : Catalogue!Names \cup {Nobody}, for : Orgs \cup Bots \cup {Nobody}, read : Nat,
   alone : BOOLEAN, pc : {"idle", "write", "finish", "ran", "over"}]

AComponent == [there : BOOLEAN, draft : Nat, published : BOOLEAN, wording : Nat]

RowTypes ==
  /\ gov \in [Catalogue!Names -> AComponent]
  /\ source \in [there : BOOLEAN, draft : Nat, published : Nat]
  /\ withheld \subseteq Catalogue!Names \X Bots
  /\ granted \in [Catalogue!Names -> Orgs \cup {Nobody}]
  /\ version \in Nat
  /\ decided \in [off : SUBSET Catalogue!Names, held : SUBSET (Catalogue!Names \X Bots)]
  /\ mixed \in BOOLEAN

CatalogueTypes == RowTypes /\ change \in [Catalogue!Calls -> ARequest]

\* Nothing is newer than the last version, which one request or another has written.
Older ==
  /\ \A n \in Catalogue!Names : gov[n].draft <= version /\ gov[n].wording <= version
  /\ source.draft <= version
  /\ \A c \in Catalogue!Calls : change[c].read <= version

Versions == version <= Cardinality(Authors) /\ Older

\* What a request is about.
About ==
  \A c \in Catalogue!Calls :
    /\ change[c].pc \in {"idle", "over"} => change[c].kind = "none"
    /\ Catalogue!Under(c) => change[c].name \in Catalogue!Names
    /\ change[c].kind \in {"announce"} => change[c].name = "chart"
    /\ change[c].kind \in {"save", "publish", "remove"} => change[c].name = "card"
    /\ change[c].kind \in Catalogue!Administers => change[c].for \in Orgs
    /\ change[c].kind \in {"withhold", "grant", "call"} => change[c].for \in Bots
    /\ change[c].kind \in Catalogue!Administers /\ change[c].name = "chart"
         => gov["chart"].there
    /\ change[c].kind = "call" => change[c].pc # "over" /\ change[c].name \in Catalogue!Names
    /\ change[c].pc = "ran" => change[c].kind = "call"

\* A publish that is alone has the source to itself.
Alone ==
  \A c \in Catalogue!Calls : Catalogue!Releasing(c) /\ change[c].alone =>
    /\ \A d \in Catalogue!Calls : Catalogue!Releasing(d) => d = c
    /\ change[c].kind = "publish" => source.there
    /\ change[c].kind = "publish" /\ change[c].pc = "finish"
         => source.published = change[c].read

\* What administrators decided is in the rows.
InTheRows ==
  /\ decided.held \subseteq withheld
  /\ \A n \in Catalogue!Names : ~gov[n].there => ~gov[n].published
  /\ \A n \in decided.off : ~Catalogue!Published(n)
  /\ "chart" \in decided.off => gov["chart"].there

\* A call that reads was let to, so far as it has asked.
LetSoFar ==
  \A c \in Catalogue!Calls :
    /\ change[c].kind # "call" => free[c] = {}
    /\ change[c].kind = "call" =>
         /\ free[c] \subseteq {"use", "read"}
         /\ "use" \in free[c]
         /\ change[c].pc \in {"finish", "ran"} => "read" \in free[c]

CatalogueInv ==
  /\ CatalogueTypes /\ Versions /\ About /\ Alone /\ InTheRows /\ LetSoFar
  /\ Catalogue!DrawnAsOffered

\* What a request is, whichever way it goes on.
LEMMA RequestsAreTyped ==
  ASSUME change \in [Catalogue!Calls -> ARequest], NEW c \in Catalogue!Calls
  PROVE  /\ \A k \in {"announce", "save", "publish", "remove", "withhold", "grant", "call"}
                     \cup Catalogue!Administers, n \in Catalogue!Names,
              x \in Orgs \cup Bots \cup {Nobody}, read \in Nat :
              Catalogue!Begins(c, k, n, x, read) => change' \in [Catalogue!Calls -> ARequest]
         /\ \A label \in {"finish", "ran"} :
              Catalogue!Goes(c, label) => change' \in [Catalogue!Calls -> ARequest]
         /\ Catalogue!Ends(c) => change' \in [Catalogue!Calls -> ARequest]
<1>1. ASSUME NEW k \in {"announce", "save", "publish", "remove", "withhold", "grant", "call"}
                       \cup Catalogue!Administers,
             NEW n \in Catalogue!Names, NEW x \in Orgs \cup Bots \cup {Nobody},
             NEW read \in Nat,
             Catalogue!Begins(c, k, n, x, read)
      PROVE  change' \in [Catalogue!Calls -> ARequest]
  <2> DEFINE a == \A e \in Catalogue!Calls : ~Catalogue!Releasing(e)
             new == [kind |-> k, name |-> n, for |-> x, read |-> read, pc |-> "write",
                     alone |-> a]
  <2>1. a \in BOOLEAN
    OBVIOUS
  <2>2. change' = [d \in Catalogue!Calls |->
          IF d = c THEN new
          ELSE IF k \in {"publish", "remove"} THEN [change[d] EXCEPT !.alone = FALSE]
          ELSE change[d]]
    BY <1>1 DEF Catalogue!Begins
  <2> HIDE DEF a
  <2>3. new \in ARequest
    BY <2>1 DEF ARequest
  <2>4. \A d \in Catalogue!Calls : [change[d] EXCEPT !.alone = FALSE] \in ARequest
    BY DEF ARequest
  <2> HIDE DEF new
  <2> QED
    BY <2>2, <2>3, <2>4
<1>2. ASSUME NEW pc_ \in {"finish", "ran"}, Catalogue!Goes(c, pc_)
      PROVE  change' \in [Catalogue!Calls -> ARequest]
  BY <1>2 DEF Catalogue!Goes, ARequest
<1>3. Catalogue!Ends(c) => change' \in [Catalogue!Calls -> ARequest]
  <2>1. Catalogue!Over \in ARequest
    BY DEF Catalogue!Over, Catalogue!Unborn, ARequest
  <2> QED
    BY <2>1 DEF Catalogue!Ends
<1> QED
  BY <1>1, <1>2, <1>3

\* A request stays one.
LEMMA RequestTypesAreKept ==
  ASSUME CatalogueTypes, About, [Catalogue!Next]_catalogue
  PROVE  (change \in [Catalogue!Calls -> ARequest])'
<1> USE RequestsAreTyped DEF About, CatalogueTypes, RowTypes, Catalogue!Names,
        Catalogue!Administers,
        Catalogue!At, Catalogue!Under
<1>1. ASSUME NEW c \in Catalogue!Calls, Catalogue!Announces(c)
      PROVE  (change \in [Catalogue!Calls -> ARequest])'
  BY <1>1 DEF Catalogue!Announces
<1>2. ASSUME NEW c \in Catalogue!Calls, Catalogue!Inserts(c)
      PROVE  (change \in [Catalogue!Calls -> ARequest])'
  BY <1>2 DEF Catalogue!Inserts, Catalogue!Arrived
<1>3. ASSUME NEW c \in Catalogue!Calls, Catalogue!SavesSource(c)
      PROVE  (change \in [Catalogue!Calls -> ARequest])'
  <2>1. version' \in Nat /\ Catalogue!Begins(c, "save", "card", Nobody, version')
    BY <1>3 DEF Catalogue!SavesSource
  <2>2. "save" \in {"announce", "save", "publish", "remove", "withhold", "grant", "call"}
                   \cup Catalogue!Administers
    OBVIOUS
  <2>3. "card" \in Catalogue!Names /\ Nobody \in Orgs \cup Bots \cup {Nobody}
    OBVIOUS
  <2> QED
    BY <2>1, <2>2, <2>3, RequestsAreTyped
<1>4. ASSUME NEW c \in Catalogue!Calls, Catalogue!SavesRow(c)
      PROVE  (change \in [Catalogue!Calls -> ARequest])'
  BY <1>4 DEF Catalogue!SavesRow
<1>5. ASSUME NEW c \in Catalogue!Calls, Catalogue!Publishes(c)
      PROVE  (change \in [Catalogue!Calls -> ARequest])'
  BY <1>5 DEF Catalogue!Publishes
<1>6. ASSUME NEW c \in Catalogue!Calls, Catalogue!PublishesSource(c)
      PROVE  (change \in [Catalogue!Calls -> ARequest])'
  BY <1>6 DEF Catalogue!PublishesSource
<1>7. ASSUME NEW c \in Catalogue!Calls, Catalogue!PublishesRow(c)
      PROVE  (change \in [Catalogue!Calls -> ARequest])'
  BY <1>7 DEF Catalogue!PublishesRow, Catalogue!Released, Catalogue!Promoted
<1>8. ASSUME NEW c \in Catalogue!Calls, NEW n \in Catalogue!Names,
             Catalogue!Removes(c, n)
      PROVE  (change \in [Catalogue!Calls -> ARequest])'
  BY <1>8 DEF Catalogue!Removes, Catalogue!MayRemove
<1>9. ASSUME NEW c \in Catalogue!Calls, Catalogue!RemovesSource(c)
      PROVE  (change \in [Catalogue!Calls -> ARequest])'
  BY <1>9 DEF Catalogue!RemovesSource, Catalogue!NoSource
<1>10. ASSUME NEW c \in Catalogue!Calls, Catalogue!RemovesRow(c)
      PROVE  (change \in [Catalogue!Calls -> ARequest])'
  BY <1>10 DEF Catalogue!RemovesRow, Catalogue!NoRow
<1>11. ASSUME NEW c \in Catalogue!Calls, NEW n \in Catalogue!Names, NEW o \in Orgs,
             Catalogue!Disallows(c, n, o)
      PROVE  (change \in [Catalogue!Calls -> ARequest])'
  BY <1>11 DEF Catalogue!Disallows
<1>12. ASSUME NEW c \in Catalogue!Calls, NEW n \in Catalogue!Names, NEW o \in Orgs,
              NEW k \in Catalogue!Administers,
             Catalogue!Requires(c, k, n, o)
      PROVE  (change \in [Catalogue!Calls -> ARequest])'
  <2>1. gov[n].draft \in Nat
    BY DEF AComponent
  <2> QED
    BY <1>12, <2>1 DEF Catalogue!Requires
<1>13. ASSUME NEW c \in Catalogue!Calls, NEW n \in Catalogue!Names, NEW b \in Bots,
             Catalogue!Decides(c, n, b)
      PROVE  (change \in [Catalogue!Calls -> ARequest])'
  BY <1>13 DEF Catalogue!Decides, Catalogue!MayUse, Catalogue!Visible
<1>14. ASSUME NEW c \in Catalogue!Calls, NEW n \in Catalogue!Names, NEW b \in Bots,
              NEW k \in {"withhold", "grant"},
             Catalogue!RequiresFor(c, k, n, b)
      PROVE  (change \in [Catalogue!Calls -> ARequest])'
  BY <1>14 DEF Catalogue!RequiresFor, Catalogue!Visible
<1>15. ASSUME NEW c \in Catalogue!Calls, Catalogue!SavesDraft(c)
      PROVE  (change \in [Catalogue!Calls -> ARequest])'
  BY <1>15 DEF Catalogue!SavesDraft
<1>16. ASSUME NEW c \in Catalogue!Calls, Catalogue!Releases(c)
      PROVE  (change \in [Catalogue!Calls -> ARequest])'
  BY <1>16 DEF Catalogue!Releases, Catalogue!Released
<1>17. ASSUME NEW c \in Catalogue!Calls, Catalogue!Unpublishes(c)
      PROVE  (change \in [Catalogue!Calls -> ARequest])'
  BY <1>17 DEF Catalogue!Unpublishes
<1>18. ASSUME NEW c \in Catalogue!Calls, Catalogue!Withholds(c)
      PROVE  (change \in [Catalogue!Calls -> ARequest])'
  BY <1>18 DEF Catalogue!Withholds
<1>19. ASSUME NEW c \in Catalogue!Calls, Catalogue!Grants(c)
      PROVE  (change \in [Catalogue!Calls -> ARequest])'
  BY <1>19 DEF Catalogue!Grants
<1>20. ASSUME NEW c \in Catalogue!Calls, Catalogue!Allows(c)
      PROVE  (change \in [Catalogue!Calls -> ARequest])'
  BY <1>20 DEF Catalogue!Allows
<1>21. ASSUME NEW c \in Catalogue!Calls, Catalogue!Asks(c)
      PROVE  (change \in [Catalogue!Calls -> ARequest])'
  BY <1>21 DEF Catalogue!Asks, Catalogue!MayCall
<1>22. ASSUME NEW c \in Catalogue!Calls, Catalogue!Reads(c)
      PROVE  (change \in [Catalogue!Calls -> ARequest])'
  BY <1>22 DEF Catalogue!Reads
<1>23. ASSUME NEW c \in Catalogue!Calls, Catalogue!Dies(c)
      PROVE  (change \in [Catalogue!Calls -> ARequest])'
  BY <1>23 DEF Catalogue!Dies
<1>24. CASE UNCHANGED catalogue
  BY <1>24 DEF catalogue
<1> QED
  BY <1>1, <1>2, <1>3, <1>4, <1>5, <1>6, <1>7, <1>8, <1>9, <1>10, <1>11, <1>12,
     <1>13, <1>14, <1>15, <1>16, <1>17, <1>18, <1>19, <1>20, <1>21, <1>22, <1>23, <1>24
     DEF Catalogue!Next, Catalogue!Step

\* A release writes a row of a component (store.ts, publish).
LEMMA RowIsReleased ==
  ASSUME gov \in [Catalogue!Names -> AComponent], NEW n \in Catalogue!Names, NEW w \in Nat
  PROVE  Catalogue!Released(n, w) \in [Catalogue!Names -> AComponent]
<1> DEFINE new == [gov[n] EXCEPT !.published = TRUE, !.wording = w]
<1>1. new \in AComponent
  BY DEF AComponent
<1>2. [gov EXCEPT ![n].published = TRUE, ![n].wording = w] = [gov EXCEPT ![n] = new]
  OBVIOUS
<1> HIDE DEF new
<1> QED
  BY <1>1, <1>2 DEF Catalogue!Released

\* The rows keep their types, whatever a request writes into them.
LEMMA RowTypesAreKept ==
  ASSUME CatalogueTypes, About, [Catalogue!Next]_catalogue
  PROVE  RowTypes'
<1> USE DEF CatalogueTypes, RowTypes, ARequest, About, Catalogue!Names, Catalogue!Administers,
            Catalogue!At, Catalogue!Under, Catalogue!Releasing, Catalogue!rows,
            Catalogue!Visible
<1>1. ASSUME NEW c \in Catalogue!Calls, Catalogue!Announces(c)
      PROVE  RowTypes'
  BY <1>1 DEF Catalogue!Announces
<1>2. ASSUME NEW c \in Catalogue!Calls, Catalogue!Inserts(c)
      PROVE  RowTypes'
  BY <1>2 DEF Catalogue!Inserts, AComponent, Catalogue!Arrived
<1>3. ASSUME NEW c \in Catalogue!Calls, Catalogue!SavesSource(c)
      PROVE  RowTypes'
  <2>1. version' \in Nat
    BY <1>3 DEF Catalogue!SavesSource
  <2>2. source' \in [there : BOOLEAN, draft : Nat, published : Nat]
    BY <1>3, <2>1 DEF Catalogue!SavesSource
  <2> QED
    BY <1>3, <2>1, <2>2 DEF Catalogue!SavesSource
<1>4. ASSUME NEW c \in Catalogue!Calls, Catalogue!SavesRow(c)
      PROVE  RowTypes'
  <2> DEFINE new == [gov["card"] EXCEPT !.there = TRUE, !.draft = change[c].read]
  <2>1. new \in AComponent
    <3>1. gov["card"] \in AComponent /\ change[c].read \in Nat
      OBVIOUS
    <3> HIDE DEF CatalogueTypes, RowTypes, About
    <3> QED
      BY <3>1 DEF AComponent
  <2>2. gov' = [gov EXCEPT !["card"] = new]
    BY <1>4 DEF Catalogue!SavesRow
  <2> HIDE DEF new
  <2>3. gov' \in [Catalogue!Names -> AComponent]
    BY <2>1, <2>2
  <2> QED
    BY <1>4, <2>3 DEF Catalogue!SavesRow
<1>5. ASSUME NEW c \in Catalogue!Calls, Catalogue!Publishes(c)
      PROVE  RowTypes'
  BY <1>5 DEF Catalogue!Publishes
<1>6. ASSUME NEW c \in Catalogue!Calls, Catalogue!PublishesSource(c)
      PROVE  RowTypes'
  BY <1>6 DEF Catalogue!PublishesSource
<1>7. ASSUME NEW c \in Catalogue!Calls, Catalogue!PublishesRow(c)
      PROVE  RowTypes'
  <2>1. gov' \in [Catalogue!Names -> AComponent]
    BY <1>7, RowIsReleased DEF Catalogue!PublishesRow, Catalogue!Promoted
  <2>2. decided' \in [off : SUBSET Catalogue!Names, held : SUBSET (Catalogue!Names \X Bots)]
    BY <1>7 DEF Catalogue!PublishesRow
  <2>3. mixed' \in BOOLEAN
    BY <1>7, Zenon DEF Catalogue!PublishesRow
  <2> QED
    BY <1>7, <2>1, <2>2, <2>3 DEF Catalogue!PublishesRow
<1>8. ASSUME NEW c \in Catalogue!Calls, NEW n \in Catalogue!Names,
             Catalogue!Removes(c, n)
      PROVE  RowTypes'
  BY <1>8 DEF Catalogue!Removes, Catalogue!MayRemove
<1>9. ASSUME NEW c \in Catalogue!Calls, Catalogue!RemovesSource(c)
      PROVE  RowTypes'
  BY <1>9 DEF Catalogue!RemovesSource, Catalogue!NoSource
<1>10. ASSUME NEW c \in Catalogue!Calls, Catalogue!RemovesRow(c)
      PROVE  RowTypes'
  BY <1>10 DEF Catalogue!RemovesRow, AComponent, Catalogue!NoRow
<1>11. ASSUME NEW c \in Catalogue!Calls, NEW n \in Catalogue!Names, NEW o \in Orgs,
             Catalogue!Disallows(c, n, o)
      PROVE  RowTypes'
  BY <1>11 DEF Catalogue!Disallows
<1>12. ASSUME NEW c \in Catalogue!Calls, NEW n \in Catalogue!Names, NEW o \in Orgs,
              NEW k \in Catalogue!Administers,
             Catalogue!Requires(c, k, n, o)
      PROVE  RowTypes'
  BY <1>12 DEF Catalogue!Requires, Catalogue!Visible
<1>13. ASSUME NEW c \in Catalogue!Calls, NEW n \in Catalogue!Names, NEW b \in Bots,
             Catalogue!Decides(c, n, b)
      PROVE  RowTypes'
  BY <1>13 DEF Catalogue!Decides, Catalogue!MayUse, Catalogue!Visible
<1>14. ASSUME NEW c \in Catalogue!Calls, NEW n \in Catalogue!Names, NEW b \in Bots,
              NEW k \in {"withhold", "grant"},
             Catalogue!RequiresFor(c, k, n, b)
      PROVE  RowTypes'
  BY <1>14 DEF Catalogue!RequiresFor, Catalogue!Visible
<1>15. ASSUME NEW c \in Catalogue!Calls, Catalogue!SavesDraft(c)
      PROVE  RowTypes'
  BY <1>15 DEF Catalogue!SavesDraft, AComponent
<1>16. ASSUME NEW c \in Catalogue!Calls, Catalogue!Releases(c)
      PROVE  RowTypes'
  <2>1. change[c].name \in Catalogue!Names /\ change[c].read \in Nat
    BY <1>16 DEF Catalogue!Releases
  <2>2. gov' \in [Catalogue!Names -> AComponent]
    BY <1>16, <2>1, RowIsReleased DEF Catalogue!Releases
  <2>3. decided' \in [off : SUBSET Catalogue!Names, held : SUBSET (Catalogue!Names \X Bots)]
    BY <1>16 DEF Catalogue!Releases
  <2>4. mixed' \in BOOLEAN
    BY <1>16, Zenon DEF Catalogue!Releases
  <2> QED
    BY <1>16, <2>2, <2>3, <2>4 DEF Catalogue!Releases
<1>17. ASSUME NEW c \in Catalogue!Calls, Catalogue!Unpublishes(c)
      PROVE  RowTypes'
  <2>1. change[c].name \in Catalogue!Names
    BY <1>17 DEF Catalogue!Unpublishes
  <2> DEFINE new == [gov[change[c].name] EXCEPT !.published = FALSE]
  <2>4. new \in AComponent
    <3>1. gov[change[c].name] \in AComponent
      BY <2>1
    <3> HIDE DEF CatalogueTypes, RowTypes, About
    <3> QED
      BY <3>1 DEF AComponent
  <2>5. gov' = [gov EXCEPT ![change[c].name] = new]
    BY <1>17 DEF Catalogue!Unpublishes
  <2> HIDE DEF new
  <2>2. gov' \in [Catalogue!Names -> AComponent]
    BY <2>1, <2>4, <2>5
  <2>3. decided' \in [off : SUBSET Catalogue!Names, held : SUBSET (Catalogue!Names \X Bots)]
    BY <1>17, <2>1 DEF Catalogue!Unpublishes
  <2> QED
    BY <1>17, <2>2, <2>3 DEF Catalogue!Unpublishes
<1>18. ASSUME NEW c \in Catalogue!Calls, Catalogue!Withholds(c)
      PROVE  RowTypes'
  BY <1>18 DEF Catalogue!Withholds
<1>19. ASSUME NEW c \in Catalogue!Calls, Catalogue!Grants(c)
      PROVE  RowTypes'
  BY <1>19 DEF Catalogue!Grants
<1>20. ASSUME NEW c \in Catalogue!Calls, Catalogue!Allows(c)
      PROVE  RowTypes'
  BY <1>20 DEF Catalogue!Allows
<1>21. ASSUME NEW c \in Catalogue!Calls, Catalogue!Asks(c)
      PROVE  RowTypes'
  BY <1>21 DEF Catalogue!Asks, Catalogue!MayCall
<1>22. ASSUME NEW c \in Catalogue!Calls, Catalogue!Reads(c)
      PROVE  RowTypes'
  BY <1>22 DEF Catalogue!Reads
<1>23. ASSUME NEW c \in Catalogue!Calls, Catalogue!Dies(c)
      PROVE  RowTypes'
  BY <1>23 DEF Catalogue!Dies
<1>24. CASE UNCHANGED catalogue
  BY <1>24 DEF catalogue
<1> HIDE DEF RowTypes
<1> QED
  BY <1>1, <1>2, <1>3, <1>4, <1>5, <1>6, <1>7, <1>8, <1>9, <1>10, <1>11, <1>12,
     <1>13, <1>14, <1>15, <1>16, <1>17, <1>18, <1>19, <1>20, <1>21, <1>22, <1>23, <1>24
     DEF Catalogue!Next, Catalogue!Step

\* A request that begins changes nothing of another but that it is alone no more.
LEMMA OthersGoOn ==
  ASSUME change \in [Catalogue!Calls -> ARequest],
         NEW c \in Catalogue!Calls, NEW d \in Catalogue!Calls \ {c},
         NEW k, NEW n, NEW x, NEW read, Catalogue!Begins(c, k, n, x, read)
  PROVE  /\ change'[d].kind = change[d].kind /\ change'[d].name = change[d].name
         /\ change'[d].for = change[d].for /\ change'[d].read = change[d].read
         /\ change'[d].pc = change[d].pc
<1> DEFINE r == change[d]
           quiet == [r EXCEPT !.alone = FALSE]
<1>1. change'[d] = quiet \/ change'[d] = r
  BY DEF Catalogue!Begins
<1>2. r \in ARequest
  OBVIOUS
<1>3. /\ quiet.kind = r.kind /\ quiet.name = r.name /\ quiet.for = r.for
      /\ quiet.read = r.read /\ quiet.pc = r.pc
  <2> HIDE DEF r
  <2> QED
    BY <1>2 DEF ARequest
<1> QED
  BY <1>1, <1>3


\* A request stays about what it was made for.
LEMMA AboutIsKept ==
  ASSUME CatalogueTypes, About, InTheRows, [Catalogue!Next]_catalogue
  PROVE  About'
<1> USE DEF CatalogueTypes, RowTypes, ARequest, AComponent, About,
            Catalogue!Names, Catalogue!Administers, Catalogue!Begins, Catalogue!Goes,
            Catalogue!Ends,
            Catalogue!Over, Catalogue!Unborn, Catalogue!At, Catalogue!rows, Catalogue!Under,
            Catalogue!Releasing, Catalogue!Fresh
<1>1. ASSUME NEW c \in Catalogue!Calls, Catalogue!Announces(c)
      PROVE  About'
  BY <1>1 DEF Catalogue!Announces
<1>2. ASSUME NEW c \in Catalogue!Calls, Catalogue!Inserts(c)
      PROVE  About'
  BY <1>2 DEF Catalogue!Inserts, Catalogue!Arrived
<1>3. ASSUME NEW c \in Catalogue!Calls, Catalogue!SavesSource(c)
      PROVE  About'
  BY <1>3 DEF Catalogue!SavesSource
<1>4. ASSUME NEW c \in Catalogue!Calls, Catalogue!SavesRow(c)
      PROVE  About'
  BY <1>4 DEF Catalogue!SavesRow
<1>5. ASSUME NEW c \in Catalogue!Calls, Catalogue!Publishes(c)
      PROVE  About'
  <2>1. \A d \in Catalogue!Calls \ {c} :
          /\ change'[d].kind = change[d].kind /\ change'[d].name = change[d].name
          /\ change'[d].for = change[d].for /\ change'[d].pc = change[d].pc
    <3>1. change \in [Catalogue!Calls -> ARequest]
            /\ Catalogue!Begins(c, "publish", "card", Nobody, source.draft)
      BY <1>5 DEF Catalogue!Publishes
    <3> HIDE DEF CatalogueTypes, ARequest, About, Catalogue!Begins
    <3> QED
      BY <3>1, OthersGoOn
  <2>3. /\ change'[c].kind = "publish" /\ change'[c].name = "card" /\ change'[c].pc = "write"
        /\ gov' = gov
    BY <1>5 DEF Catalogue!Publishes
  <2> QED
    BY <2>1, <2>3
<1>6. ASSUME NEW c \in Catalogue!Calls, Catalogue!PublishesSource(c)
      PROVE  About'
  BY <1>6 DEF Catalogue!PublishesSource
<1>7. ASSUME NEW c \in Catalogue!Calls, Catalogue!PublishesRow(c)
      PROVE  About'
  BY <1>7 DEF Catalogue!PublishesRow, Catalogue!Released, Catalogue!Promoted
<1>8. ASSUME NEW c \in Catalogue!Calls, NEW n \in Catalogue!Names,
             Catalogue!Removes(c, n)
      PROVE  About'
  <2>1. \A d \in Catalogue!Calls \ {c} :
          /\ change'[d].kind = change[d].kind /\ change'[d].name = change[d].name
          /\ change'[d].for = change[d].for /\ change'[d].pc = change[d].pc
    <3>1. change \in [Catalogue!Calls -> ARequest]
            /\ Catalogue!Begins(c, "remove", n, Nobody, 0)
      BY <1>8 DEF Catalogue!Removes, Catalogue!MayRemove
    <3> HIDE DEF CatalogueTypes, ARequest, About, Catalogue!Begins
    <3> QED
      BY <3>1, OthersGoOn
  <2>3. /\ change'[c].kind = "remove" /\ change'[c].name = "card" /\ change'[c].pc = "write"
        /\ gov' = gov
    BY <1>8 DEF Catalogue!Removes, Catalogue!MayRemove
  <2> QED
    BY <2>1, <2>3
<1>9. ASSUME NEW c \in Catalogue!Calls, Catalogue!RemovesSource(c)
      PROVE  About'
  BY <1>9 DEF Catalogue!RemovesSource, Catalogue!NoSource
<1>10. ASSUME NEW c \in Catalogue!Calls, Catalogue!RemovesRow(c)
      PROVE  About'
  BY <1>10 DEF Catalogue!RemovesRow, Catalogue!NoRow
<1>11. ASSUME NEW c \in Catalogue!Calls, NEW n \in Catalogue!Names, NEW o \in Orgs,
             Catalogue!Disallows(c, n, o)
      PROVE  About'
  BY <1>11 DEF Catalogue!Disallows
<1>12. ASSUME NEW c \in Catalogue!Calls, NEW n \in Catalogue!Names, NEW o \in Orgs,
             NEW k \in Catalogue!Administers,
             Catalogue!Requires(c, k, n, o)
      PROVE  About'
  BY <1>12 DEF Catalogue!Requires, Catalogue!Visible
<1>13. ASSUME NEW c \in Catalogue!Calls, NEW n \in Catalogue!Names, NEW b \in Bots,
             Catalogue!Decides(c, n, b)
      PROVE  About'
  BY <1>13 DEF Catalogue!Decides, Catalogue!MayUse, Catalogue!Visible
<1>14. ASSUME NEW c \in Catalogue!Calls, NEW n \in Catalogue!Names, NEW b \in Bots,
             NEW k \in {"withhold", "grant"},
             Catalogue!RequiresFor(c, k, n, b)
      PROVE  About'
  BY <1>14 DEF Catalogue!RequiresFor, Catalogue!Visible
<1>15. ASSUME NEW c \in Catalogue!Calls, Catalogue!SavesDraft(c)
      PROVE  About'
  BY <1>15 DEF Catalogue!SavesDraft
<1>16. ASSUME NEW c \in Catalogue!Calls, Catalogue!Releases(c)
      PROVE  About'
  <2>1. \A n \in Catalogue!Names : gov'[n].there = gov[n].there
    <3>1. CASE gov[change[c].name].there
      BY <1>16, <3>1 DEF Catalogue!Releases, Catalogue!Released
    <3>2. CASE ~gov[change[c].name].there
      BY <1>16, <3>2 DEF Catalogue!Releases, Catalogue!Released
    <3> QED
      BY <3>1, <3>2
  <2>2. change' = [change EXCEPT ![c] = Catalogue!Over]
    BY <1>16 DEF Catalogue!Releases
  <2> QED
    BY <2>1, <2>2
<1>17. ASSUME NEW c \in Catalogue!Calls, Catalogue!Unpublishes(c)
      PROVE  About'
  BY <1>17 DEF Catalogue!Unpublishes
<1>18. ASSUME NEW c \in Catalogue!Calls, Catalogue!Withholds(c)
      PROVE  About'
  BY <1>18 DEF Catalogue!Withholds
<1>19. ASSUME NEW c \in Catalogue!Calls, Catalogue!Grants(c)
      PROVE  About'
  BY <1>19 DEF Catalogue!Grants
<1>20. ASSUME NEW c \in Catalogue!Calls, Catalogue!Allows(c)
      PROVE  About'
  BY <1>20 DEF Catalogue!Allows
<1>21. ASSUME NEW c \in Catalogue!Calls, Catalogue!Asks(c)
      PROVE  About'
  <2>1. CASE change' = [change EXCEPT ![c].pc = "finish"] /\ gov' = gov
    BY <1>21, <2>1 DEF Catalogue!Asks
  <2>2. CASE change' = [change EXCEPT ![c] = Catalogue!Over] /\ gov' = gov
    BY <1>21, <2>2 DEF Catalogue!Asks
  <2> QED
    BY <1>21, <2>1, <2>2 DEF Catalogue!Asks
<1>22. ASSUME NEW c \in Catalogue!Calls, Catalogue!Reads(c)
      PROVE  About'
  BY <1>22 DEF Catalogue!Reads
<1>23. ASSUME NEW c \in Catalogue!Calls, Catalogue!Dies(c)
      PROVE  About'
  BY <1>23 DEF Catalogue!Dies
<1>24. CASE UNCHANGED catalogue
  BY <1>24 DEF catalogue
<1> HIDE DEF About
<1> QED
  BY <1>1, <1>2, <1>3, <1>4, <1>5, <1>6, <1>7, <1>8, <1>9, <1>10, <1>11, <1>12,
     <1>13, <1>14, <1>15, <1>16, <1>17, <1>18, <1>19, <1>20, <1>21, <1>22, <1>23, <1>24
     DEF Catalogue!Next, Catalogue!Step

\* A publish that no other publish or removal was beside has kept the source as it wrote it.
LEMMA AloneIsKept ==
  ASSUME CatalogueTypes, About, Alone, [Catalogue!Next]_catalogue
  PROVE  Alone'
<1> USE DEF CatalogueTypes, RowTypes, ARequest, AComponent, About, Alone,
            Catalogue!Names, Catalogue!Administers, Catalogue!Begins, Catalogue!Goes,
            Catalogue!Ends,
            Catalogue!Over, Catalogue!Unborn, Catalogue!At, Catalogue!rows, Catalogue!Under,
            Catalogue!Releasing, Catalogue!Fresh
<1>1. ASSUME NEW c \in Catalogue!Calls, Catalogue!Announces(c)
      PROVE  Alone'
  BY <1>1 DEF Catalogue!Announces
<1>2. ASSUME NEW c \in Catalogue!Calls, Catalogue!Inserts(c)
      PROVE  Alone'
  BY <1>2 DEF Catalogue!Inserts, Catalogue!Arrived
<1>3. ASSUME NEW c \in Catalogue!Calls, Catalogue!SavesSource(c)
      PROVE  Alone'
  BY <1>3 DEF Catalogue!SavesSource
<1>4. ASSUME NEW c \in Catalogue!Calls, Catalogue!SavesRow(c)
      PROVE  Alone'
  BY <1>4 DEF Catalogue!SavesRow
<1>5. ASSUME NEW c \in Catalogue!Calls, Catalogue!Publishes(c)
      PROVE  Alone'
  BY <1>5 DEF Catalogue!Publishes
<1>6. ASSUME NEW c \in Catalogue!Calls, Catalogue!PublishesSource(c)
      PROVE  Alone'
  BY <1>6 DEF Catalogue!PublishesSource
<1>7. ASSUME NEW c \in Catalogue!Calls, Catalogue!PublishesRow(c)
      PROVE  Alone'
  BY <1>7 DEF Catalogue!PublishesRow, Catalogue!Released, Catalogue!Promoted
<1>8. ASSUME NEW c \in Catalogue!Calls, NEW n \in Catalogue!Names,
             Catalogue!Removes(c, n)
      PROVE  Alone'
  BY <1>8 DEF Catalogue!Removes, Catalogue!MayRemove
<1>9. ASSUME NEW c \in Catalogue!Calls, Catalogue!RemovesSource(c)
      PROVE  Alone'
  BY <1>9 DEF Catalogue!RemovesSource, Catalogue!NoSource
<1>10. ASSUME NEW c \in Catalogue!Calls, Catalogue!RemovesRow(c)
      PROVE  Alone'
  BY <1>10 DEF Catalogue!RemovesRow, Catalogue!NoRow
<1>11. ASSUME NEW c \in Catalogue!Calls, NEW n \in Catalogue!Names, NEW o \in Orgs,
             Catalogue!Disallows(c, n, o)
      PROVE  Alone'
  BY <1>11 DEF Catalogue!Disallows
<1>12. ASSUME NEW c \in Catalogue!Calls, NEW n \in Catalogue!Names, NEW o \in Orgs,
             NEW k \in Catalogue!Administers,
             Catalogue!Requires(c, k, n, o)
      PROVE  Alone'
  BY <1>12 DEF Catalogue!Requires, Catalogue!Visible
<1>13. ASSUME NEW c \in Catalogue!Calls, NEW n \in Catalogue!Names, NEW b \in Bots,
             Catalogue!Decides(c, n, b)
      PROVE  Alone'
  BY <1>13 DEF Catalogue!Decides, Catalogue!MayUse, Catalogue!Visible
<1>14. ASSUME NEW c \in Catalogue!Calls, NEW n \in Catalogue!Names, NEW b \in Bots,
             NEW k \in {"withhold", "grant"},
             Catalogue!RequiresFor(c, k, n, b)
      PROVE  Alone'
  BY <1>14 DEF Catalogue!RequiresFor, Catalogue!Visible
<1>15. ASSUME NEW c \in Catalogue!Calls, Catalogue!SavesDraft(c)
      PROVE  Alone'
  BY <1>15 DEF Catalogue!SavesDraft
<1>16. ASSUME NEW c \in Catalogue!Calls, Catalogue!Releases(c)
      PROVE  Alone'
  BY <1>16 DEF Catalogue!Releases, Catalogue!Released
<1>17. ASSUME NEW c \in Catalogue!Calls, Catalogue!Unpublishes(c)
      PROVE  Alone'
  BY <1>17 DEF Catalogue!Unpublishes
<1>18. ASSUME NEW c \in Catalogue!Calls, Catalogue!Withholds(c)
      PROVE  Alone'
  BY <1>18 DEF Catalogue!Withholds
<1>19. ASSUME NEW c \in Catalogue!Calls, Catalogue!Grants(c)
      PROVE  Alone'
  BY <1>19 DEF Catalogue!Grants
<1>20. ASSUME NEW c \in Catalogue!Calls, Catalogue!Allows(c)
      PROVE  Alone'
  BY <1>20 DEF Catalogue!Allows
<1>21. ASSUME NEW c \in Catalogue!Calls, Catalogue!Asks(c)
      PROVE  Alone'
  BY <1>21 DEF Catalogue!Asks, Catalogue!MayCall
<1>22. ASSUME NEW c \in Catalogue!Calls, Catalogue!Reads(c)
      PROVE  Alone'
  BY <1>22 DEF Catalogue!Reads
<1>23. ASSUME NEW c \in Catalogue!Calls, Catalogue!Dies(c)
      PROVE  Alone'
  BY <1>23 DEF Catalogue!Dies
<1>24. CASE UNCHANGED catalogue
  BY <1>24 DEF catalogue
<1> HIDE DEF Alone
<1> QED
  BY <1>1, <1>2, <1>3, <1>4, <1>5, <1>6, <1>7, <1>8, <1>9, <1>10, <1>11, <1>12,
     <1>13, <1>14, <1>15, <1>16, <1>17, <1>18, <1>19, <1>20, <1>21, <1>22, <1>23, <1>24
     DEF Catalogue!Next, Catalogue!Step

\* No request but an administrator's own takes a decision out of the rows.
LEMMA InTheRowsIsKept ==
  ASSUME CatalogueTypes, About, InTheRows, [Catalogue!Next]_catalogue
  PROVE  InTheRows'
<1> USE DEF CatalogueTypes, RowTypes, ARequest, AComponent, About, InTheRows,
            Catalogue!Published, Catalogue!Names, Catalogue!Administers, Catalogue!Begins,
            Catalogue!Goes, Catalogue!Ends,
            Catalogue!Over, Catalogue!Unborn, Catalogue!At, Catalogue!rows, Catalogue!Under,
            Catalogue!Releasing, Catalogue!Fresh
<1>1. ASSUME NEW c \in Catalogue!Calls, Catalogue!Announces(c)
      PROVE  InTheRows'
  BY <1>1 DEF Catalogue!Announces
<1>2. ASSUME NEW c \in Catalogue!Calls, Catalogue!Inserts(c)
      PROVE  InTheRows'
  BY <1>2 DEF Catalogue!Inserts, Catalogue!Arrived
<1>3. ASSUME NEW c \in Catalogue!Calls, Catalogue!SavesSource(c)
      PROVE  InTheRows'
  BY <1>3 DEF Catalogue!SavesSource
<1>4. ASSUME NEW c \in Catalogue!Calls, Catalogue!SavesRow(c)
      PROVE  InTheRows'
  BY <1>4 DEF Catalogue!SavesRow
<1>5. ASSUME NEW c \in Catalogue!Calls, Catalogue!Publishes(c)
      PROVE  InTheRows'
  BY <1>5 DEF Catalogue!Publishes
<1>6. ASSUME NEW c \in Catalogue!Calls, Catalogue!PublishesSource(c)
      PROVE  InTheRows'
  BY <1>6 DEF Catalogue!PublishesSource
<1>7. ASSUME NEW c \in Catalogue!Calls, Catalogue!PublishesRow(c)
      PROVE  InTheRows'
  BY <1>7 DEF Catalogue!PublishesRow, Catalogue!Released, Catalogue!Promoted
<1>8. ASSUME NEW c \in Catalogue!Calls, NEW n \in Catalogue!Names,
             Catalogue!Removes(c, n)
      PROVE  InTheRows'
  BY <1>8 DEF Catalogue!Removes, Catalogue!MayRemove
<1>9. ASSUME NEW c \in Catalogue!Calls, Catalogue!RemovesSource(c)
      PROVE  InTheRows'
  BY <1>9 DEF Catalogue!RemovesSource, Catalogue!NoSource
<1>10. ASSUME NEW c \in Catalogue!Calls, Catalogue!RemovesRow(c)
      PROVE  InTheRows'
  BY <1>10 DEF Catalogue!RemovesRow, Catalogue!NoRow
<1>11. ASSUME NEW c \in Catalogue!Calls, NEW n \in Catalogue!Names, NEW o \in Orgs,
             Catalogue!Disallows(c, n, o)
      PROVE  InTheRows'
  BY <1>11 DEF Catalogue!Disallows
<1>12. ASSUME NEW c \in Catalogue!Calls, NEW n \in Catalogue!Names, NEW o \in Orgs,
             NEW k \in Catalogue!Administers,
             Catalogue!Requires(c, k, n, o)
      PROVE  InTheRows'
  BY <1>12 DEF Catalogue!Requires, Catalogue!Visible
<1>13. ASSUME NEW c \in Catalogue!Calls, NEW n \in Catalogue!Names, NEW b \in Bots,
             Catalogue!Decides(c, n, b)
      PROVE  InTheRows'
  BY <1>13 DEF Catalogue!Decides, Catalogue!MayUse, Catalogue!Visible
<1>14. ASSUME NEW c \in Catalogue!Calls, NEW n \in Catalogue!Names, NEW b \in Bots,
             NEW k \in {"withhold", "grant"},
             Catalogue!RequiresFor(c, k, n, b)
      PROVE  InTheRows'
  BY <1>14 DEF Catalogue!RequiresFor, Catalogue!Visible
<1>15. ASSUME NEW c \in Catalogue!Calls, Catalogue!SavesDraft(c)
      PROVE  InTheRows'
  BY <1>15 DEF Catalogue!SavesDraft
<1>16. ASSUME NEW c \in Catalogue!Calls, Catalogue!Releases(c)
      PROVE  InTheRows'
  <2> DEFINE n == change[c].name
  <2>1. /\ change[c].name \in Catalogue!Names
        /\ decided' = [decided EXCEPT !.off = @ \ {n}] /\ UNCHANGED withheld
        /\ gov' = IF gov[n].there
                   THEN [gov EXCEPT ![n].published = TRUE, ![n].wording = change[c].read]
                   ELSE gov
    BY <1>16 DEF Catalogue!Releases, Catalogue!Released
  <2>2. /\ decided'.held = decided.held /\ decided'.off = decided.off \ {n}
        /\ \A m \in Catalogue!Names : gov'[m].there = gov[m].there
        /\ \A m \in Catalogue!Names \ {n} : gov'[m] = gov[m]
        /\ ~gov[n].there => gov' = gov
    BY <2>1
  <2> HIDE DEF n
  <2> QED
    BY <2>1, <2>2 DEF n
<1>17. ASSUME NEW c \in Catalogue!Calls, Catalogue!Unpublishes(c)
      PROVE  InTheRows'
  BY <1>17 DEF Catalogue!Unpublishes
<1>18. ASSUME NEW c \in Catalogue!Calls, Catalogue!Withholds(c)
      PROVE  InTheRows'
  BY <1>18 DEF Catalogue!Withholds
<1>19. ASSUME NEW c \in Catalogue!Calls, Catalogue!Grants(c)
      PROVE  InTheRows'
  BY <1>19 DEF Catalogue!Grants
<1>20. ASSUME NEW c \in Catalogue!Calls, Catalogue!Allows(c)
      PROVE  InTheRows'
  BY <1>20 DEF Catalogue!Allows
<1>21. ASSUME NEW c \in Catalogue!Calls, Catalogue!Asks(c)
      PROVE  InTheRows'
  <2>1. CASE Catalogue!MayCall(change[c].name, Belongs[change[c].for])
    BY <1>21, <2>1 DEF Catalogue!Asks
  <2>2. CASE ~Catalogue!MayCall(change[c].name, Belongs[change[c].for])
    BY <1>21, <2>2 DEF Catalogue!Asks
  <2> QED
    BY <2>1, <2>2
<1>22. ASSUME NEW c \in Catalogue!Calls, Catalogue!Reads(c)
      PROVE  InTheRows'
  BY <1>22 DEF Catalogue!Reads
<1>23. ASSUME NEW c \in Catalogue!Calls, Catalogue!Dies(c)
      PROVE  InTheRows'
  BY <1>23 DEF Catalogue!Dies
<1>24. CASE UNCHANGED catalogue
  BY <1>24 DEF catalogue
<1> HIDE DEF InTheRows
<1> QED
  BY <1>1, <1>2, <1>3, <1>4, <1>5, <1>6, <1>7, <1>8, <1>9, <1>10, <1>11, <1>12,
     <1>13, <1>14, <1>15, <1>16, <1>17, <1>18, <1>19, <1>20, <1>21, <1>22, <1>23, <1>24
     DEF Catalogue!Next, Catalogue!Step

\* The Bot of a call may use what it calls.
AskedFor(d) == Catalogue!MayUse(change[d].name, change[d].for)

\* A step of the requests lets a call go on only when it is asked and may, and lets one begin
\* only for a Bot that may use the component.
CallsGoOn ==
  \A d \in Catalogue!Calls : change'[d].kind = "call" =>
    \/ /\ change[d].kind = "call"
       /\ \/ change'[d].pc \notin {"finish", "ran"}
          \/ change[d].pc \in {"finish", "ran"}
          \/ granted'[change'[d].name] = Belongs[change'[d].for]
    \/ change'[d].pc = "write" /\ AskedFor(d)'


\* What Bots are told of the card changes with what they draw, unless requests were mixed.
LEMMA DrawnIsKept ==
  ASSUME CatalogueTypes, About, Alone, InTheRows, Catalogue!DrawnAsOffered,
           [Catalogue!Next]_catalogue
  PROVE  Catalogue!DrawnAsOffered'
<1> USE DEF CatalogueTypes, RowTypes, ARequest, AComponent, About, Alone, InTheRows,
            Catalogue!DrawnAsOffered, Catalogue!AsOffered, Catalogue!Published,
            Catalogue!Names, Catalogue!Administers, Catalogue!Begins, Catalogue!Goes,
            Catalogue!Ends,
            Catalogue!Over, Catalogue!Unborn, Catalogue!At, Catalogue!rows, Catalogue!Under,
            Catalogue!Releasing, Catalogue!Fresh
<1>1. ASSUME NEW c \in Catalogue!Calls, Catalogue!Announces(c)
      PROVE  Catalogue!DrawnAsOffered'
  BY <1>1 DEF Catalogue!Announces
<1>2. ASSUME NEW c \in Catalogue!Calls, Catalogue!Inserts(c)
      PROVE  Catalogue!DrawnAsOffered'
  BY <1>2 DEF Catalogue!Inserts, Catalogue!Arrived
<1>3. ASSUME NEW c \in Catalogue!Calls, Catalogue!SavesSource(c)
      PROVE  Catalogue!DrawnAsOffered'
  BY <1>3 DEF Catalogue!SavesSource
<1>4. ASSUME NEW c \in Catalogue!Calls, Catalogue!SavesRow(c)
      PROVE  Catalogue!DrawnAsOffered'
  BY <1>4 DEF Catalogue!SavesRow
<1>5. ASSUME NEW c \in Catalogue!Calls, Catalogue!Publishes(c)
      PROVE  Catalogue!DrawnAsOffered'
  BY <1>5 DEF Catalogue!Publishes
<1>6. ASSUME NEW c \in Catalogue!Calls, Catalogue!PublishesSource(c)
      PROVE  Catalogue!DrawnAsOffered'
  BY <1>6 DEF Catalogue!PublishesSource
<1>7. ASSUME NEW c \in Catalogue!Calls, Catalogue!PublishesRow(c)
      PROVE  Catalogue!DrawnAsOffered'
  BY <1>7 DEF Catalogue!PublishesRow, Catalogue!Released, Catalogue!Promoted
<1>8. ASSUME NEW c \in Catalogue!Calls, NEW n \in Catalogue!Names,
             Catalogue!Removes(c, n)
      PROVE  Catalogue!DrawnAsOffered'
  BY <1>8 DEF Catalogue!Removes, Catalogue!MayRemove
<1>9. ASSUME NEW c \in Catalogue!Calls, Catalogue!RemovesSource(c)
      PROVE  Catalogue!DrawnAsOffered'
  BY <1>9 DEF Catalogue!RemovesSource, Catalogue!NoSource
<1>10. ASSUME NEW c \in Catalogue!Calls, Catalogue!RemovesRow(c)
      PROVE  Catalogue!DrawnAsOffered'
  BY <1>10 DEF Catalogue!RemovesRow, Catalogue!NoRow
<1>11. ASSUME NEW c \in Catalogue!Calls, NEW n \in Catalogue!Names, NEW o \in Orgs,
             Catalogue!Disallows(c, n, o)
      PROVE  Catalogue!DrawnAsOffered'
  BY <1>11 DEF Catalogue!Disallows
<1>12. ASSUME NEW c \in Catalogue!Calls, NEW n \in Catalogue!Names, NEW o \in Orgs,
             NEW k \in Catalogue!Administers,
             Catalogue!Requires(c, k, n, o)
      PROVE  Catalogue!DrawnAsOffered'
  BY <1>12 DEF Catalogue!Requires, Catalogue!Visible
<1>13. ASSUME NEW c \in Catalogue!Calls, NEW n \in Catalogue!Names, NEW b \in Bots,
             Catalogue!Decides(c, n, b)
      PROVE  Catalogue!DrawnAsOffered'
  BY <1>13 DEF Catalogue!Decides, Catalogue!MayUse, Catalogue!Visible
<1>14. ASSUME NEW c \in Catalogue!Calls, NEW n \in Catalogue!Names, NEW b \in Bots,
             NEW k \in {"withhold", "grant"},
             Catalogue!RequiresFor(c, k, n, b)
      PROVE  Catalogue!DrawnAsOffered'
  BY <1>14 DEF Catalogue!RequiresFor, Catalogue!Visible
<1>15. ASSUME NEW c \in Catalogue!Calls, Catalogue!SavesDraft(c)
      PROVE  Catalogue!DrawnAsOffered'
  BY <1>15 DEF Catalogue!SavesDraft
<1>16. ASSUME NEW c \in Catalogue!Calls, Catalogue!Releases(c)
      PROVE  Catalogue!DrawnAsOffered'
  BY <1>16 DEF Catalogue!Releases, Catalogue!Released
<1>17. ASSUME NEW c \in Catalogue!Calls, Catalogue!Unpublishes(c)
      PROVE  Catalogue!DrawnAsOffered'
  BY <1>17 DEF Catalogue!Unpublishes
<1>18. ASSUME NEW c \in Catalogue!Calls, Catalogue!Withholds(c)
      PROVE  Catalogue!DrawnAsOffered'
  BY <1>18 DEF Catalogue!Withholds
<1>19. ASSUME NEW c \in Catalogue!Calls, Catalogue!Grants(c)
      PROVE  Catalogue!DrawnAsOffered'
  BY <1>19 DEF Catalogue!Grants
<1>20. ASSUME NEW c \in Catalogue!Calls, Catalogue!Allows(c)
      PROVE  Catalogue!DrawnAsOffered'
  BY <1>20 DEF Catalogue!Allows
<1>21. ASSUME NEW c \in Catalogue!Calls, Catalogue!Asks(c)
      PROVE  Catalogue!DrawnAsOffered'
  <2>1. CASE Catalogue!MayCall(change[c].name, Belongs[change[c].for])
    BY <1>21, <2>1 DEF Catalogue!Asks
  <2>2. CASE ~Catalogue!MayCall(change[c].name, Belongs[change[c].for])
    BY <1>21, <2>2 DEF Catalogue!Asks
  <2> QED
    BY <2>1, <2>2
<1>22. ASSUME NEW c \in Catalogue!Calls, Catalogue!Reads(c)
      PROVE  Catalogue!DrawnAsOffered'
  BY <1>22 DEF Catalogue!Reads
<1>23. ASSUME NEW c \in Catalogue!Calls, Catalogue!Dies(c)
      PROVE  Catalogue!DrawnAsOffered'
  BY <1>23 DEF Catalogue!Dies
<1>24. CASE UNCHANGED catalogue
  BY <1>24 DEF catalogue
<1> HIDE DEF Catalogue!DrawnAsOffered
<1> QED
  BY <1>1, <1>2, <1>3, <1>4, <1>5, <1>6, <1>7, <1>8, <1>9, <1>10, <1>11, <1>12,
     <1>13, <1>14, <1>15, <1>16, <1>17, <1>18, <1>19, <1>20, <1>21, <1>22, <1>23, <1>24
     DEF Catalogue!Next, Catalogue!Step

\* A call goes on only past a question that was answered with yes.
LEMMA CallsGoOnAsTheyMay ==
  ASSUME CatalogueTypes, About, [Catalogue!Next]_catalogue
  PROVE  CallsGoOn
<1> USE DEF CatalogueTypes, RowTypes, ARequest, AComponent, About, CallsGoOn,
            Catalogue!MayUse, Catalogue!Visible, Catalogue!Published, Catalogue!MayCall,
            Catalogue!Names, Catalogue!Administers, Catalogue!Begins, Catalogue!Goes,
            Catalogue!Ends,
            Catalogue!Over, Catalogue!Unborn, Catalogue!At, Catalogue!rows, Catalogue!Under,
            Catalogue!Releasing, Catalogue!Fresh
<1>1. ASSUME NEW c \in Catalogue!Calls, Catalogue!Announces(c)
      PROVE  CallsGoOn
  BY <1>1 DEF Catalogue!Announces
<1>2. ASSUME NEW c \in Catalogue!Calls, Catalogue!Inserts(c)
      PROVE  CallsGoOn
  BY <1>2 DEF Catalogue!Inserts, Catalogue!Arrived
<1>3. ASSUME NEW c \in Catalogue!Calls, Catalogue!SavesSource(c)
      PROVE  CallsGoOn
  BY <1>3 DEF Catalogue!SavesSource
<1>4. ASSUME NEW c \in Catalogue!Calls, Catalogue!SavesRow(c)
      PROVE  CallsGoOn
  BY <1>4 DEF Catalogue!SavesRow
<1>5. ASSUME NEW c \in Catalogue!Calls, Catalogue!Publishes(c)
      PROVE  CallsGoOn
  BY <1>5 DEF Catalogue!Publishes
<1>6. ASSUME NEW c \in Catalogue!Calls, Catalogue!PublishesSource(c)
      PROVE  CallsGoOn
  BY <1>6 DEF Catalogue!PublishesSource
<1>7. ASSUME NEW c \in Catalogue!Calls, Catalogue!PublishesRow(c)
      PROVE  CallsGoOn
  BY <1>7 DEF Catalogue!PublishesRow, Catalogue!Released, Catalogue!Promoted
<1>8. ASSUME NEW c \in Catalogue!Calls, NEW n \in Catalogue!Names,
             Catalogue!Removes(c, n)
      PROVE  CallsGoOn
  BY <1>8 DEF Catalogue!Removes, Catalogue!MayRemove
<1>9. ASSUME NEW c \in Catalogue!Calls, Catalogue!RemovesSource(c)
      PROVE  CallsGoOn
  BY <1>9 DEF Catalogue!RemovesSource, Catalogue!NoSource
<1>10. ASSUME NEW c \in Catalogue!Calls, Catalogue!RemovesRow(c)
      PROVE  CallsGoOn
  BY <1>10 DEF Catalogue!RemovesRow, Catalogue!NoRow
<1>11. ASSUME NEW c \in Catalogue!Calls, NEW n \in Catalogue!Names, NEW o \in Orgs,
             Catalogue!Disallows(c, n, o)
      PROVE  CallsGoOn
  BY <1>11 DEF Catalogue!Disallows
<1>12. ASSUME NEW c \in Catalogue!Calls, NEW n \in Catalogue!Names, NEW o \in Orgs,
             NEW k \in Catalogue!Administers,
             Catalogue!Requires(c, k, n, o)
      PROVE  CallsGoOn
  BY <1>12 DEF Catalogue!Requires, Catalogue!Visible
<1>13. ASSUME NEW c \in Catalogue!Calls, NEW n \in Catalogue!Names, NEW b \in Bots,
             Catalogue!Decides(c, n, b)
      PROVE  CallsGoOn
  <2>1. \A d \in Catalogue!Calls \ {c} : change'[d] = change[d]
    BY <1>13 DEF Catalogue!Decides
  <2>2. change'[c].name = n /\ change'[c].for = b /\ change'[c].pc = "write"
    BY <1>13 DEF Catalogue!Decides
  <2>3. Catalogue!MayUse(n, b)
    BY <1>13 DEF Catalogue!Decides
  <2>4. AskedFor(c)'
    BY <1>13, <2>2, <2>3 DEF Catalogue!Decides, AskedFor
  <2>5. ASSUME NEW d \in Catalogue!Calls \ {c}, change'[d].kind = "call"
        PROVE  /\ change[d].kind = "call"
               /\ change'[d].pc \notin {"finish", "ran"} \/ change[d].pc \in {"finish", "ran"}
    BY <2>1, <2>5
  <2>6. SUFFICES ASSUME NEW d \in Catalogue!Calls, change'[d].kind = "call"
                 PROVE  \/ /\ change[d].kind = "call"
                           /\ \/ change'[d].pc \notin {"finish", "ran"}
                              \/ change[d].pc \in {"finish", "ran"}
                              \/ granted'[change'[d].name] = Belongs[change'[d].for]
                        \/ change'[d].pc = "write" /\ AskedFor(d)'
    OBVIOUS
  <2>7. CASE d = c
    BY ONLY <2>2, <2>4, <2>7
  <2>8. CASE d # c
    BY ONLY <2>5, <2>6, <2>8
  <2> QED
    BY <2>7, <2>8
<1>14. ASSUME NEW c \in Catalogue!Calls, NEW n \in Catalogue!Names, NEW b \in Bots,
             NEW k \in {"withhold", "grant"},
             Catalogue!RequiresFor(c, k, n, b)
      PROVE  CallsGoOn
  BY <1>14 DEF Catalogue!RequiresFor, Catalogue!Visible
<1>15. ASSUME NEW c \in Catalogue!Calls, Catalogue!SavesDraft(c)
      PROVE  CallsGoOn
  BY <1>15 DEF Catalogue!SavesDraft
<1>16. ASSUME NEW c \in Catalogue!Calls, Catalogue!Releases(c)
      PROVE  CallsGoOn
  BY <1>16 DEF Catalogue!Releases, Catalogue!Released
<1>17. ASSUME NEW c \in Catalogue!Calls, Catalogue!Unpublishes(c)
      PROVE  CallsGoOn
  BY <1>17 DEF Catalogue!Unpublishes
<1>18. ASSUME NEW c \in Catalogue!Calls, Catalogue!Withholds(c)
      PROVE  CallsGoOn
  BY <1>18 DEF Catalogue!Withholds
<1>19. ASSUME NEW c \in Catalogue!Calls, Catalogue!Grants(c)
      PROVE  CallsGoOn
  BY <1>19 DEF Catalogue!Grants
<1>20. ASSUME NEW c \in Catalogue!Calls, Catalogue!Allows(c)
      PROVE  CallsGoOn
  BY <1>20 DEF Catalogue!Allows
<1>21. ASSUME NEW c \in Catalogue!Calls, Catalogue!Asks(c)
      PROVE  CallsGoOn
  <2>1. CASE Catalogue!MayCall(change[c].name, Belongs[change[c].for])
    BY <1>21, <2>1 DEF Catalogue!Asks
  <2>2. CASE ~Catalogue!MayCall(change[c].name, Belongs[change[c].for])
    BY <1>21, <2>2 DEF Catalogue!Asks
  <2> QED
    BY <2>1, <2>2
<1>22. ASSUME NEW c \in Catalogue!Calls, Catalogue!Reads(c)
      PROVE  CallsGoOn
  BY <1>22 DEF Catalogue!Reads
<1>23. ASSUME NEW c \in Catalogue!Calls, Catalogue!Dies(c)
      PROVE  CallsGoOn
  BY <1>23 DEF Catalogue!Dies
<1>24. CASE UNCHANGED catalogue
  BY <1>24 DEF catalogue
<1> HIDE DEF CallsGoOn
<1> QED
  BY <1>1, <1>2, <1>3, <1>4, <1>5, <1>6, <1>7, <1>8, <1>9, <1>10, <1>11, <1>12,
     <1>13, <1>14, <1>15, <1>16, <1>17, <1>18, <1>19, <1>20, <1>21, <1>22, <1>23, <1>24
     DEF Catalogue!Next, Catalogue!Step

\* The authors of before are authors, and a new version has another.
AuthorsGrow ==
  /\ Authors \subseteq Authors'
  /\ version' = version \/ (version' = version + 1 /\ \E c \in Authors' : c \notin Authors)


\* A new version has an author that no earlier one had.
LEMMA VersionsComeFromAuthors ==
  ASSUME CatalogueTypes, About, [Catalogue!Next]_catalogue
  PROVE  AuthorsGrow
<1> USE DEF CatalogueTypes, RowTypes, ARequest, AComponent, About, Authors, AuthorsGrow,
            Catalogue!Names, Catalogue!Administers, Catalogue!Begins, Catalogue!Goes,
            Catalogue!Ends,
            Catalogue!Over, Catalogue!Unborn, Catalogue!At, Catalogue!rows, Catalogue!Under,
            Catalogue!Releasing, Catalogue!Fresh
<1>1. ASSUME NEW c \in Catalogue!Calls, Catalogue!Announces(c)
      PROVE  AuthorsGrow
  BY <1>1 DEF Catalogue!Announces
<1>2. ASSUME NEW c \in Catalogue!Calls, Catalogue!Inserts(c)
      PROVE  AuthorsGrow
  BY <1>2 DEF Catalogue!Inserts, Catalogue!Arrived
<1>3. ASSUME NEW c \in Catalogue!Calls, Catalogue!SavesSource(c)
      PROVE  AuthorsGrow
  BY <1>3 DEF Catalogue!SavesSource
<1>4. ASSUME NEW c \in Catalogue!Calls, Catalogue!SavesRow(c)
      PROVE  AuthorsGrow
  BY <1>4 DEF Catalogue!SavesRow
<1>5. ASSUME NEW c \in Catalogue!Calls, Catalogue!Publishes(c)
      PROVE  AuthorsGrow
  BY <1>5 DEF Catalogue!Publishes
<1>6. ASSUME NEW c \in Catalogue!Calls, Catalogue!PublishesSource(c)
      PROVE  AuthorsGrow
  BY <1>6 DEF Catalogue!PublishesSource
<1>7. ASSUME NEW c \in Catalogue!Calls, Catalogue!PublishesRow(c)
      PROVE  AuthorsGrow
  BY <1>7 DEF Catalogue!PublishesRow, Catalogue!Released, Catalogue!Promoted
<1>8. ASSUME NEW c \in Catalogue!Calls, NEW n \in Catalogue!Names,
             Catalogue!Removes(c, n)
      PROVE  AuthorsGrow
  BY <1>8 DEF Catalogue!Removes, Catalogue!MayRemove
<1>9. ASSUME NEW c \in Catalogue!Calls, Catalogue!RemovesSource(c)
      PROVE  AuthorsGrow
  BY <1>9 DEF Catalogue!RemovesSource, Catalogue!NoSource
<1>10. ASSUME NEW c \in Catalogue!Calls, Catalogue!RemovesRow(c)
      PROVE  AuthorsGrow
  BY <1>10 DEF Catalogue!RemovesRow, Catalogue!NoRow
<1>11. ASSUME NEW c \in Catalogue!Calls, NEW n \in Catalogue!Names, NEW o \in Orgs,
             Catalogue!Disallows(c, n, o)
      PROVE  AuthorsGrow
  BY <1>11 DEF Catalogue!Disallows
<1>12. ASSUME NEW c \in Catalogue!Calls, NEW n \in Catalogue!Names, NEW o \in Orgs,
             NEW k \in Catalogue!Administers,
             Catalogue!Requires(c, k, n, o)
      PROVE  AuthorsGrow
  BY <1>12 DEF Catalogue!Requires, Catalogue!Visible
<1>13. ASSUME NEW c \in Catalogue!Calls, NEW n \in Catalogue!Names, NEW b \in Bots,
             Catalogue!Decides(c, n, b)
      PROVE  AuthorsGrow
  BY <1>13 DEF Catalogue!Decides, Catalogue!MayUse, Catalogue!Visible
<1>14. ASSUME NEW c \in Catalogue!Calls, NEW n \in Catalogue!Names, NEW b \in Bots,
             NEW k \in {"withhold", "grant"},
             Catalogue!RequiresFor(c, k, n, b)
      PROVE  AuthorsGrow
  BY <1>14 DEF Catalogue!RequiresFor, Catalogue!Visible
<1>15. ASSUME NEW c \in Catalogue!Calls, Catalogue!SavesDraft(c)
      PROVE  AuthorsGrow
  BY <1>15 DEF Catalogue!SavesDraft
<1>16. ASSUME NEW c \in Catalogue!Calls, Catalogue!Releases(c)
      PROVE  AuthorsGrow
  BY <1>16 DEF Catalogue!Releases, Catalogue!Released
<1>17. ASSUME NEW c \in Catalogue!Calls, Catalogue!Unpublishes(c)
      PROVE  AuthorsGrow
  BY <1>17 DEF Catalogue!Unpublishes
<1>18. ASSUME NEW c \in Catalogue!Calls, Catalogue!Withholds(c)
      PROVE  AuthorsGrow
  BY <1>18 DEF Catalogue!Withholds
<1>19. ASSUME NEW c \in Catalogue!Calls, Catalogue!Grants(c)
      PROVE  AuthorsGrow
  BY <1>19 DEF Catalogue!Grants
<1>20. ASSUME NEW c \in Catalogue!Calls, Catalogue!Allows(c)
      PROVE  AuthorsGrow
  BY <1>20 DEF Catalogue!Allows
<1>21. ASSUME NEW c \in Catalogue!Calls, Catalogue!Asks(c)
      PROVE  AuthorsGrow
  <2>1. CASE Catalogue!MayCall(change[c].name, Belongs[change[c].for])
    BY <1>21, <2>1 DEF Catalogue!Asks
  <2>2. CASE ~Catalogue!MayCall(change[c].name, Belongs[change[c].for])
    BY <1>21, <2>2 DEF Catalogue!Asks
  <2> QED
    BY <2>1, <2>2
<1>22. ASSUME NEW c \in Catalogue!Calls, Catalogue!Reads(c)
      PROVE  AuthorsGrow
  BY <1>22 DEF Catalogue!Reads
<1>23. ASSUME NEW c \in Catalogue!Calls, Catalogue!Dies(c)
      PROVE  AuthorsGrow
  BY <1>23 DEF Catalogue!Dies
<1>24. CASE UNCHANGED catalogue
  BY <1>24 DEF catalogue
<1> HIDE DEF AuthorsGrow
<1> QED
  BY <1>1, <1>2, <1>3, <1>4, <1>5, <1>6, <1>7, <1>8, <1>9, <1>10, <1>11, <1>12,
     <1>13, <1>14, <1>15, <1>16, <1>17, <1>18, <1>19, <1>20, <1>21, <1>22, <1>23, <1>24
     DEF Catalogue!Next, Catalogue!Step

\* Nothing is newer than the last version.
LEMMA OlderIsKept ==
  ASSUME CatalogueTypes, About, Older, [Catalogue!Next]_catalogue
  PROVE  Older'
<1> USE DEF CatalogueTypes, RowTypes, ARequest, AComponent, About, Older,
            Catalogue!Names, Catalogue!Administers, Catalogue!Begins, Catalogue!Goes,
            Catalogue!Ends,
            Catalogue!Over, Catalogue!Unborn, Catalogue!At, Catalogue!rows, Catalogue!Under,
            Catalogue!Releasing, Catalogue!Fresh
<1>1. ASSUME NEW c \in Catalogue!Calls, Catalogue!Announces(c)
      PROVE  Older'
  BY <1>1 DEF Catalogue!Announces
<1>2. ASSUME NEW c \in Catalogue!Calls, Catalogue!Inserts(c)
      PROVE  Older'
  BY <1>2 DEF Catalogue!Inserts, Catalogue!Arrived
<1>3. ASSUME NEW c \in Catalogue!Calls, Catalogue!SavesSource(c)
      PROVE  Older'
  BY <1>3 DEF Catalogue!SavesSource
<1>4. ASSUME NEW c \in Catalogue!Calls, Catalogue!SavesRow(c)
      PROVE  Older'
  BY <1>4 DEF Catalogue!SavesRow
<1>5. ASSUME NEW c \in Catalogue!Calls, Catalogue!Publishes(c)
      PROVE  Older'
  BY <1>5 DEF Catalogue!Publishes
<1>6. ASSUME NEW c \in Catalogue!Calls, Catalogue!PublishesSource(c)
      PROVE  Older'
  BY <1>6 DEF Catalogue!PublishesSource
<1>7. ASSUME NEW c \in Catalogue!Calls, Catalogue!PublishesRow(c)
      PROVE  Older'
  BY <1>7 DEF Catalogue!PublishesRow, Catalogue!Released, Catalogue!Promoted
<1>8. ASSUME NEW c \in Catalogue!Calls, NEW n \in Catalogue!Names,
             Catalogue!Removes(c, n)
      PROVE  Older'
  BY <1>8 DEF Catalogue!Removes, Catalogue!MayRemove
<1>9. ASSUME NEW c \in Catalogue!Calls, Catalogue!RemovesSource(c)
      PROVE  Older'
  BY <1>9 DEF Catalogue!RemovesSource, Catalogue!NoSource
<1>10. ASSUME NEW c \in Catalogue!Calls, Catalogue!RemovesRow(c)
      PROVE  Older'
  BY <1>10 DEF Catalogue!RemovesRow, Catalogue!NoRow
<1>11. ASSUME NEW c \in Catalogue!Calls, NEW n \in Catalogue!Names, NEW o \in Orgs,
             Catalogue!Disallows(c, n, o)
      PROVE  Older'
  BY <1>11 DEF Catalogue!Disallows
<1>12. ASSUME NEW c \in Catalogue!Calls, NEW n \in Catalogue!Names, NEW o \in Orgs,
             NEW k \in Catalogue!Administers,
             Catalogue!Requires(c, k, n, o)
      PROVE  Older'
  BY <1>12 DEF Catalogue!Requires, Catalogue!Visible
<1>13. ASSUME NEW c \in Catalogue!Calls, NEW n \in Catalogue!Names, NEW b \in Bots,
             Catalogue!Decides(c, n, b)
      PROVE  Older'
  BY <1>13 DEF Catalogue!Decides, Catalogue!MayUse, Catalogue!Visible
<1>14. ASSUME NEW c \in Catalogue!Calls, NEW n \in Catalogue!Names, NEW b \in Bots,
             NEW k \in {"withhold", "grant"},
             Catalogue!RequiresFor(c, k, n, b)
      PROVE  Older'
  BY <1>14 DEF Catalogue!RequiresFor, Catalogue!Visible
<1>15. ASSUME NEW c \in Catalogue!Calls, Catalogue!SavesDraft(c)
      PROVE  Older'
  BY <1>15 DEF Catalogue!SavesDraft
<1>16. ASSUME NEW c \in Catalogue!Calls, Catalogue!Releases(c)
      PROVE  Older'
  BY <1>16 DEF Catalogue!Releases, Catalogue!Released
<1>17. ASSUME NEW c \in Catalogue!Calls, Catalogue!Unpublishes(c)
      PROVE  Older'
  BY <1>17 DEF Catalogue!Unpublishes
<1>18. ASSUME NEW c \in Catalogue!Calls, Catalogue!Withholds(c)
      PROVE  Older'
  BY <1>18 DEF Catalogue!Withholds
<1>19. ASSUME NEW c \in Catalogue!Calls, Catalogue!Grants(c)
      PROVE  Older'
  BY <1>19 DEF Catalogue!Grants
<1>20. ASSUME NEW c \in Catalogue!Calls, Catalogue!Allows(c)
      PROVE  Older'
  BY <1>20 DEF Catalogue!Allows
<1>21. ASSUME NEW c \in Catalogue!Calls, Catalogue!Asks(c)
      PROVE  Older'
  <2>1. CASE Catalogue!MayCall(change[c].name, Belongs[change[c].for])
    BY <1>21, <2>1 DEF Catalogue!Asks
  <2>2. CASE ~Catalogue!MayCall(change[c].name, Belongs[change[c].for])
    BY <1>21, <2>2 DEF Catalogue!Asks
  <2> QED
    BY <2>1, <2>2
<1>22. ASSUME NEW c \in Catalogue!Calls, Catalogue!Reads(c)
      PROVE  Older'
  BY <1>22 DEF Catalogue!Reads
<1>23. ASSUME NEW c \in Catalogue!Calls, Catalogue!Dies(c)
      PROVE  Older'
  BY <1>23 DEF Catalogue!Dies
<1>24. CASE UNCHANGED catalogue
  BY <1>24 DEF catalogue
<1> HIDE DEF Older
<1> QED
  BY <1>1, <1>2, <1>3, <1>4, <1>5, <1>6, <1>7, <1>8, <1>9, <1>10, <1>11, <1>12,
     <1>13, <1>14, <1>15, <1>16, <1>17, <1>18, <1>19, <1>20, <1>21, <1>22, <1>23, <1>24
     DEF Catalogue!Next, Catalogue!Step

\* As many versions as authors, and no more authors than requests.
LEMMA VersionsIsKept ==
  ASSUME CatalogueTypes, About, Versions, [Catalogue!Next]_catalogue
  PROVE  Versions'
<1>1. IsFiniteSet(Authors) /\ IsFiniteSet(Authors')
  <2>1. IsFiniteSet(Catalogue!Calls)
    BY CatalogueAssumption, FS_Interval DEF Catalogue!Calls
  <2>2. Authors \subseteq Catalogue!Calls /\ Authors' \subseteq Catalogue!Calls
    BY DEF Authors
  <2> QED
    BY <2>1, <2>2, FS_Subset
<1>2. AuthorsGrow
  BY VersionsComeFromAuthors
<1>3. /\ Cardinality(Authors) \in Nat /\ Cardinality(Authors') \in Nat
      /\ Cardinality(Authors) <= Cardinality(Authors')
  BY <1>1, <1>2, FS_CardinalityType, FS_Subset DEF AuthorsGrow
<1>4. ASSUME NEW c \in Authors', c \notin Authors
      PROVE  Cardinality(Authors) + 1 <= Cardinality(Authors')
  <2>1. Cardinality(Authors \cup {c}) = Cardinality(Authors) + 1
    BY <1>1, <1>4, FS_AddElement
  <2>2. Authors \cup {c} \subseteq Authors'
    BY <1>2, <1>4 DEF AuthorsGrow
  <2> QED
    BY <1>1, <2>1, <2>2, FS_Subset
<1>5. version \in Nat /\ version <= Cardinality(Authors)
  BY DEF CatalogueTypes, RowTypes, Versions
<1>6. version' <= Cardinality(Authors')
  BY <1>2, <1>3, <1>4, <1>5 DEF AuthorsGrow
<1>7. Older'
  BY OlderIsKept DEF Versions
<1> QED
  BY <1>6, <1>7 DEF Versions

\* What a call was allowed is remembered, and it goes on past each question with what it asked.
LEMMA LetSoFarIsKept ==
  ASSUME CatalogueTypes, About, LetSoFar, [Catalogue!Next]_catalogue
  PROVE  LetSoFar'
<1>1. CallsGoOn
  BY CallsGoOnAsTheyMay
<1>2. ASSUME UNCHANGED catalogue
      PROVE  LetSoFar'
  BY <1>2 DEF LetSoFar, catalogue
<1>3. ASSUME NEW d \in Catalogue!Calls, Catalogue!Next, change'[d].kind = "call"
      PROVE  /\ free'[d] \subseteq {"use", "read"}
             /\ "use" \in free'[d]
             /\ change'[d].pc \in {"finish", "ran"} => "read" \in free'[d]
  <2>1. free'[d] = free[d] \cup (Catalogue!Permits(d))'
    BY <1>3 DEF Catalogue!Next
  <2>2. /\ (Catalogue!Permits(d))' \subseteq {"use", "read"}
        /\ AskedFor(d)' => "use" \in (Catalogue!Permits(d))'
        /\ granted'[change'[d].name] = Belongs[change'[d].for]
             => "read" \in (Catalogue!Permits(d))'
    BY <1>3 DEF Catalogue!Permits, AskedFor
  <2>3. free[d] \subseteq {"use", "read"}
    BY DEF LetSoFar
  <2>4. CASE change'[d].pc = "write" /\ AskedFor(d)'
    BY <2>1, <2>2, <2>3, <2>4
  <2>5. CASE /\ change[d].kind = "call"
             /\ \/ change'[d].pc \notin {"finish", "ran"}
                \/ change[d].pc \in {"finish", "ran"}
                \/ granted'[change'[d].name] = Belongs[change'[d].for]
    BY <2>1, <2>2, <2>3, <2>5 DEF LetSoFar
  <2> QED
    BY <1>1, <1>3, <2>4, <2>5 DEF CallsGoOn
<1>4. ASSUME NEW d \in Catalogue!Calls, Catalogue!Next, change'[d].kind # "call"
      PROVE  free'[d] = {}
  BY <1>4 DEF Catalogue!Next
<1> QED
  BY <1>2, <1>3, <1>4 DEF LetSoFar

\* What administrators decide of a Bot's components stands from the beginning on.
LEMMA CatalogueInvHolds == Catalogue!Spec => []CatalogueInv
<1>1. Catalogue!Init => CatalogueInv
  <2> SUFFICES ASSUME Catalogue!Init
               PROVE  CatalogueInv
    OBVIOUS
  <2> USE DEF Catalogue!Init
  <2>1. Catalogue!Unborn \in ARequest
    BY DEF Catalogue!Unborn, ARequest
  <2>2. CatalogueTypes
    BY <2>1 DEF CatalogueTypes, RowTypes, AComponent, Catalogue!NoRow, Catalogue!NoSource
  <2>3. Older
    BY DEF Older, Catalogue!NoRow, Catalogue!NoSource, Catalogue!Unborn
  <2>4. Authors = {}
    BY DEF Authors, Catalogue!Unborn
  <2>5. Versions
    BY <2>3, <2>4, FS_EmptySet DEF Versions
  <2>6. About /\ Alone
    BY DEF About, Alone, Catalogue!Unborn, Catalogue!Under, Catalogue!Releasing,
           Catalogue!Administers
  <2>7. InTheRows
    BY DEF InTheRows, Catalogue!NoRow
  <2>8. LetSoFar /\ Catalogue!DrawnAsOffered
    BY DEF LetSoFar, Catalogue!Unborn, Catalogue!NoRow, Catalogue!DrawnAsOffered,
           Catalogue!AsOffered, Catalogue!Published, Catalogue!Names
  <2> QED
    BY <2>2, <2>5, <2>6, <2>7, <2>8 DEF CatalogueInv
<1>2. CatalogueInv /\ [Catalogue!Next]_catalogue => CatalogueInv'
  <2>1. ASSUME CatalogueInv, [Catalogue!Next]_catalogue
        PROVE  CatalogueTypes'
    BY <2>1, RequestTypesAreKept, RowTypesAreKept DEF CatalogueInv, CatalogueTypes
  <2> QED
    BY <2>1, VersionsIsKept, AboutIsKept, AloneIsKept, InTheRowsIsKept, LetSoFarIsKept,
       DrawnIsKept DEF CatalogueInv
<1> QED
  BY <1>1, <1>2, PTL DEF Catalogue!Spec, catalogue, Catalogue!vars

\* What the invariant says of the components is what is promised of them.
LEMMA CatalogueIsPromised ==
  ASSUME CatalogueInv
  PROVE  Catalogue!CataloguePromise
<1> USE DEF CatalogueInv
<1>1. IsFiniteSet(Authors) /\ Cardinality(Authors) <= MaxDecisions
  <2>1. IsFiniteSet(Catalogue!Calls) /\ Cardinality(Catalogue!Calls) = MaxDecisions
    BY CatalogueAssumption, FS_Interval DEF Catalogue!Calls
  <2> QED
    BY <2>1, FS_Subset DEF Authors
<1>2. version \in 0..MaxDecisions
  <2>1. Cardinality(Authors) \in Nat
    BY <1>1, FS_CardinalityType
  <2> QED
    BY <1>1, <2>1, CatalogueAssumption DEF Versions, CatalogueTypes, RowTypes
<1>3. gov \in [Catalogue!Names -> [there : BOOLEAN, draft : 0..MaxDecisions,
                                   published : BOOLEAN, wording : 0..MaxDecisions]]
  <2>1. \A n \in Catalogue!Names :
          gov[n] \in AComponent /\ gov[n].draft <= version /\ gov[n].wording <= version
    BY DEF Versions, Older, CatalogueTypes, RowTypes
  <2>2. \A n \in Catalogue!Names :
          gov[n] \in [there : BOOLEAN, draft : 0..MaxDecisions, published : BOOLEAN,
                      wording : 0..MaxDecisions]
    BY <1>2, <2>1, CatalogueAssumption DEF AComponent
  <2> QED
    BY <2>2 DEF CatalogueTypes, RowTypes
<1>4. Catalogue!TypeOK
  BY <1>2, <1>3 DEF Catalogue!TypeOK, CatalogueTypes, RowTypes
<1>5. Catalogue!DecisionsStand
  <2>1. \A w \in decided.held : w \in withheld /\ w = <<w[1], w[2]>>
    BY DEF InTheRows, CatalogueTypes, RowTypes
  <2> QED
    BY <2>1 DEF Catalogue!DecisionsStand, InTheRows, Catalogue!MayUse
<1>6. Catalogue!RevokedIsRevoked
  BY DEF Catalogue!RevokedIsRevoked, LetSoFar, About
<1> QED
  BY <1>4, <1>5, <1>6 DEF Catalogue!CataloguePromise

-----------------------------------------------------------------------------
(* The settings of a Bot, together.                                        *)

\* A key that a request is about to commit in place of the Bot's is one that it retires.
LEMMA KeysArePromised ==
  ASSUME KeysInv
  PROVE  AgentKeys!KeysPromise
BY DEF KeysInv, KeysAccounted, AgentKeys!KeysPromise, AgentKeys!Retired, AgentKeys!Fresh

\* Keys, skills, the tools of servers and components keep what they promise for any number
\* of requests, rotations, refreshes and replicas' deaths (agents/profile-store.ts,
\* plugins/store.ts, components/store.ts and sandboxed.ts).
THEOREM SettingsStand ==
  AgentKeys!Spec /\ Skills!Spec /\ ToolListing!Spec /\ Catalogue!Spec => []SettingsPromise
<1>1. KeysInv /\ SkillsInv /\ ListingInv /\ CatalogueInv => SettingsPromise
  BY KeysArePromised, CatalogueIsPromised DEF SettingsPromise, SkillsInv, ListingInv
<1> QED
  BY <1>1, KeysInvHolds, SkillsInvHolds, ListingInvHolds, CatalogueInvHolds, PTL

\* The composition adds nothing to its parts: each of them runs as it would by itself.
THEOREM EachPartIsItself ==
  PartsSpec => /\ Spec /\ Supervisor!Spec /\ AgentKeys!Spec /\ Skills!Spec
               /\ ToolListing!Spec /\ Catalogue!Spec /\ Crm!Spec
<1>1. PartsInit => /\ Init /\ Supervisor!Init /\ AgentKeys!Init /\ Skills!Init
                   /\ ToolListing!Init /\ Catalogue!Init /\ Crm!Init
  BY DEF PartsInit
<1>2. [PartsNext]_all =>
        /\ [Next]_vars /\ [Supervisor!Next]_supervisor /\ [AgentKeys!Next]_keys
        /\ [Skills!Next]_skills /\ [ToolListing!Next]_toolVars
        /\ [Catalogue!Next]_catalogue /\ [Crm!Next]_crm
  BY DEF PartsNext, all
<1> QED
  BY <1>1, <1>2, PTL DEF PartsSpec, Spec, Supervisor!Spec, Supervisor!vars, supervisor,
     AgentKeys!Spec, AgentKeys!vars, keys, Skills!Spec, Skills!vars, skills,
     ToolListing!Spec, ToolListing!vars, toolVars, Catalogue!Spec, Catalogue!vars, catalogue,
     Crm!Spec, Crm!vars, crm

\* So whatever the runs check of its safety is true of the composition.
THEOREM BotsKeepTheirPromises ==
  PartsSpec => /\ []HandOver /\ []ComputersAreOne /\ []SettingsPromise /\ []CrmPromise
BY EachPartIsItself, HandOverHolds, ComputersStayOne, SettingsStand, TheCrmKeepsItsPromise,
   PTL
=============================================================================
