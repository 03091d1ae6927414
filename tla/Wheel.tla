------------------------------ MODULE Wheel ------------------------------
(***************************************************************************)
(* Who drives a Bot's browser: the control state of agent-computer, the    *)
(* calls of the Bot and of people that consult it and then wait for the    *)
(* browser, and the secret a person types without taking the wheel.        *)
(***************************************************************************)
EXTENDS Naturals, FiniteSets

CONSTANTS BotCalls,     \* slots for acting calls of the Bot
          PersonCalls,  \* slots for a person's input calls
          Supplies,     \* slots for POST /human/secret
          MaxAsks,      \* bound on the secrets the Bot asks for
          FieldsFail    \* a secret's field may have left the page

ASSUME WheelAssumption == MaxAsks \in Nat /\ FieldsFail \in BOOLEAN

VARIABLES holder,     \* "bot" or "human"
          requested,  \* the Bot has asked for help
          secret,     \* the secret request that is pending, 0 none
          asked,      \* how many secrets the Bot has asked for
          typed,      \* the requests whose value has reached the field
          bot, person,\* the calls: idle, checked, acting
          supply,     \* the secret each POST /human/secret is answering
          stopping,   \* a stop or reset is waiting for the browser to close
          drivers     \* the calls in flight when the wheel last changed hands

vars == <<holder, requested, secret, asked, typed, bot, person, supply, stopping,
          drivers>>
control == <<holder, requested, secret>>
calls == <<bot, person, drivers>>

Call == {"idle", "checked", "acting"}

Init ==
  /\ holder = "bot" /\ requested = FALSE /\ secret = 0
  /\ asked = 0 /\ typed = {}
  /\ bot = [c \in BotCalls |-> "idle"]
  /\ person = [p \in PersonCalls |-> "idle"]
  /\ supply = [u \in Supplies |-> 0]
  /\ stopping = FALSE
  /\ drivers = {}

BotsIn == {c \in BotCalls : bot[c] # "idle"}
PeopleIn == {p \in PersonCalls : person[p] # "idle"}

---------------------------------------------------------------------------
(* The wheel.                                                              *)

RequestHelp ==
  /\ requested' = TRUE
  /\ UNCHANGED <<holder, secret, asked, typed, calls, supply, stopping>>

\* take: the reason stays, the request for help and the pending secret do not.
Take ==
  /\ holder' = "human" /\ requested' = FALSE /\ secret' = 0
  /\ drivers' = IF holder = "bot" THEN BotsIn ELSE drivers
  /\ UNCHANGED <<asked, typed, bot, person, supply, stopping>>

\* release, whoever holds the wheel.
Released ==
  /\ holder' = "bot" /\ requested' = FALSE /\ secret' = 0
  /\ drivers' = IF holder = "human" THEN PeopleIn ELSE drivers

Release ==
  /\ Released
  /\ UNCHANGED <<asked, typed, bot, person, supply, stopping>>

\* POST /computers/stop and /computers/reset wait for the browser ...
Stop ==
  /\ ~stopping
  /\ stopping' = TRUE
  /\ UNCHANGED <<control, asked, typed, calls, supply>>

\* ... and give the wheel back, whoever took it meanwhile.
Stopped ==
  /\ stopping
  /\ Released
  /\ stopping' = FALSE
  /\ UNCHANGED <<asked, typed, bot, person, supply>>

---------------------------------------------------------------------------
(* The Bot's acting calls: the wheel is asked once, then the browser is    *)
(* waited for, and only then does the call act.                            *)

MayAct_Unchecked == TRUE

MayAct == holder = "bot"          \* assertBotMayAct
MayDrive == holder = "human"      \* humanMayDrive

BotChecks(c) ==
  /\ bot[c] = "idle" /\ MayAct
  /\ bot' = [bot EXCEPT ![c] = "checked"]
  /\ UNCHANGED <<control, asked, typed, person, supply, stopping, drivers>>

BotActs(c) ==
  /\ bot[c] = "checked"
  /\ bot' = [bot EXCEPT ![c] = "acting"]
  /\ UNCHANGED <<control, asked, typed, person, supply, stopping, drivers>>

\* The call has answered: done, failed, stopped, or timed out. `drivers` keeps
\* the calls of the side that handed the wheel over.
BotEnds(c) ==
  /\ bot[c] # "idle"
  /\ bot' = [bot EXCEPT ![c] = "idle"]
  /\ drivers' = IF holder = "human" THEN drivers \ {c} ELSE drivers
  /\ UNCHANGED <<control, asked, typed, person, supply, stopping>>

PersonChecks(p) ==
  /\ person[p] = "idle" /\ MayDrive
  /\ person' = [person EXCEPT ![p] = "checked"]
  /\ UNCHANGED <<control, asked, typed, bot, supply, stopping, drivers>>

PersonActs(p) ==
  /\ person[p] = "checked"
  /\ person' = [person EXCEPT ![p] = "acting"]
  /\ UNCHANGED <<control, asked, typed, bot, supply, stopping, drivers>>

PersonEnds(p) ==
  /\ person[p] # "idle"
  /\ person' = [person EXCEPT ![p] = "idle"]
  /\ drivers' = IF holder = "bot" THEN drivers \ {p} ELSE drivers
  /\ UNCHANGED <<control, asked, typed, bot, supply, stopping>>

---------------------------------------------------------------------------
(* One secret, typed into the field the Bot named.                         *)

RequestSecret ==
  /\ asked < MaxAsks
  /\ asked' = asked + 1
  /\ secret' = asked + 1
  /\ UNCHANGED <<holder, requested, typed, calls, supply, stopping>>

\* The pending request is read, then the body, the page and the field awaited.
SupplyBegins(u) ==
  /\ supply[u] = 0 /\ secret # 0
  /\ supply' = [supply EXCEPT ![u] = secret]
  /\ UNCHANGED <<control, asked, typed, calls, stopping>>

\* The body held no value: 400, and nothing has changed.
SupplyRefused(u) ==
  /\ supply[u] # 0
  /\ supply' = [supply EXCEPT ![u] = 0]
  /\ UNCHANGED <<control, asked, typed, calls, stopping>>

Answered_ReadAgain(u) == secret

\* The request the value is for: the one read before the body was awaited.
Answered(u) == supply[u]

\* The value is in the field and whatever request is pending is closed.
SupplyLands(u) ==
  /\ supply[u] # 0
  /\ typed' = typed \union {Answered(u)}
  /\ secret' = 0
  /\ supply' = [supply EXCEPT ![u] = 0]
  /\ UNCHANGED <<holder, requested, asked, calls, stopping>>

\* The field has gone: the request is closed all the same.
SupplyFails(u) ==
  /\ supply[u] # 0 /\ FieldsFail
  /\ secret' = 0
  /\ supply' = [supply EXCEPT ![u] = 0]
  /\ UNCHANGED <<holder, requested, asked, typed, calls, stopping>>

BotStep == \E c \in BotCalls : BotChecks(c) \/ BotActs(c) \/ BotEnds(c)
PersonStep ==
  \E p \in PersonCalls : PersonChecks(p) \/ PersonActs(p) \/ PersonEnds(p)
SecretStep ==
  \/ RequestSecret
  \/ \E u \in Supplies : \/ SupplyBegins(u) \/ SupplyRefused(u)
                         \/ SupplyLands(u) \/ SupplyFails(u)

Next ==
  \/ RequestHelp \/ Take \/ Release \/ Stop \/ Stopped
  \/ BotStep \/ PersonStep \/ SecretStep

\* Every call that has begun is answered: the browser's time-outs see to it.
Fairness ==
  /\ \A c \in BotCalls : WF_vars(BotEnds(c))
  /\ \A p \in PersonCalls : WF_vars(PersonEnds(p))

Spec == Init /\ [][Next]_vars
FairSpec == Spec /\ Fairness

---------------------------------------------------------------------------
\* Every variable has its type (ControlState).
TypeOK ==
  /\ holder \in {"bot", "human"} /\ requested \in BOOLEAN
  /\ asked \in 0..MaxAsks /\ secret \in 0..MaxAsks /\ typed \subseteq 1..MaxAsks
  /\ bot \in [BotCalls -> Call] /\ person \in [PersonCalls -> Call]
  /\ supply \in [Supplies -> 0..MaxAsks]
  /\ stopping \in BOOLEAN
  /\ drivers \subseteq BotCalls \union PersonCalls

\* What is left of "one driver": the calls at the browser of the side that does
\* not hold the wheel were all there when it changed hands, and one that has
\* ended is not followed by another (assertBotMayAct and humanMayDrive).
OnlyCallsThatWereIn ==
  /\ holder = "human" => BotsIn \subseteq drivers
  /\ holder = "bot" => PeopleIn \subseteq drivers

\* OnlyCallsThatWereIn with the types of the sessions and calls it rests on.
HandOver == TypeOK /\ OnlyCallsThatWereIn

\* A person who keeps the wheel has the browser alone in the end: the Bot's calls
\* that were in flight run out and no other gets in.
BotGivesWay == <>[](holder = "human") => <>[](BotsIn = {})

\* Two drivers never act on the page at once (control.ts, "One browser has at
\* most one driver").
OneDriver ==
  ~ \E c \in BotCalls, p \in PersonCalls : bot[c] = "acting" /\ person[p] = "acting"

\* A value reaches a field only while the request it answers is the pending one
\* ("usable only while the Bot has actually asked for a secret").
TypedOnlyWhileAsked ==
  [][\A r \in typed' \ typed : secret = r]_vars

\* Answering a secret closes the request that was answered and no other one
\* (secretSupplied, "Called only after the value reaches the field").
AnswerClosesItsOwn ==
  [][\A u \in Supplies :
       supply[u] # 0 /\ supply'[u] = 0 /\ secret # 0 /\ secret' = 0 =>
         secret \in typed']_vars

\* A request for help stands until a person takes the wheel (ControlState,
\* "True once the Bot has asked for help and no person has taken the wheel yet").
HelpStandsUntilTaken == [][requested /\ ~requested' => holder' = "human"]_vars
===========================================================================
