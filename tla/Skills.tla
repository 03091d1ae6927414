-------------------------------- MODULE Skills --------------------------------
(***************************************************************************)
(* One skill and the Bots it is put on (plugins/store.ts,                  *)
(* plugins/routes.ts).  A request checks in one statement and writes in    *)
(* another; none is a transaction.                                         *)
(***************************************************************************)
EXTENDS Naturals

CONSTANTS People, Admin, \* Admin is an administrator among People
          Nobody,        \* the owner of a deployment's skill
          Bots, Owner,   \* Owner[b] is whose Bot b is
          MaxCalls       \* bound: requests, numbered as they come

VARIABLES skill,   \* the skills row: there, its owner, whose text it holds
          grant,   \* plugin_grants of the skill: who put it on each Bot, or Nobody
          call,    \* the requests
          crossed, \* history: a request wrote under another's feet
          orphaned \* history: the skill was removed from under its grants

vars == <<skill, grant, call, crossed, orphaned>>

Calls == 1..MaxCalls
NoSkill == [there |-> FALSE, owner |-> Nobody, text |-> Nobody]
Unborn == [kind |-> "none", who |-> Nobody, bot |-> Nobody, pc |-> "idle"]
Over == [Unborn EXCEPT !.pc = "over"]
Granted(b) == grant[b] # Nobody

Init ==
  /\ skill = NoSkill /\ grant = [b \in Bots |-> Nobody]
  /\ call = [c \in Calls |-> Unborn] /\ crossed = FALSE /\ orphaned = FALSE

Writing(c) == call[c].pc = "write"

\* skillRefusal: a new name is anybody's, an existing one its owner's.
MayEdit_Anybody(p) == TRUE

MayEdit(p) == p = Admin \/ ~skill.there \/ skill.owner = p

\* enablementRefusal: one's own skill on one's own Bot.
MayEnable_AnyBot(p, b) == p = Admin \/ (skill.there /\ skill.owner = p)

MayEnable(p, b) == p = Admin \/ (skill.there /\ skill.owner = p /\ Owner[b] = p)

Asks(c, k, p, b, allowed) ==
  /\ call[c].pc = "idle" /\ \A d \in Calls : d < c => call[d].pc # "idle"
  /\ call' = [call EXCEPT ![c] =
       IF allowed THEN [kind |-> k, who |-> p, bot |-> b, pc |-> "write"] ELSE Over]
  /\ UNCHANGED <<skill, grant, crossed, orphaned>>

AsksForSkill(c, k, p) ==
  /\ k \in {"save", "save for all", "remove"} /\ (k = "save for all" => p = Admin)
  /\ Asks(c, k, p, Nobody, MayEdit(p))

AsksForBot(c, k, p, b) == k \in {"grant", "revoke"} /\ Asks(c, k, p, b, MayEnable(p, b))

Wrote(c) ==
  /\ call' = [call EXCEPT ![c] = Over]
  /\ crossed' = (crossed \/ \E d \in Calls : d # c /\ Writing(d))

\* installSkill: the row keeps the owner it has.
Saves(c) ==
  /\ Writing(c) /\ call[c].kind \in {"save", "save for all"}
  /\ skill' = [there |-> TRUE, text |-> call[c].who,
               owner |-> IF skill.there THEN skill.owner
                         ELSE IF call[c].kind = "save" THEN call[c].who ELSE Nobody]
  /\ UNCHANGED <<grant, orphaned>> /\ Wrote(c)

\* uninstallSkill: the grants stay.
Removes(c) ==
  /\ Writing(c) /\ call[c].kind = "remove"
  /\ skill' = NoSkill /\ orphaned' = (orphaned \/ \E b \in Bots : Granted(b))
  /\ UNCHANGED grant /\ Wrote(c)

Grants(c) ==
  /\ Writing(c) /\ call[c].kind = "grant"
  /\ grant' = [grant EXCEPT ![call[c].bot] = call[c].who]
  /\ UNCHANGED <<skill, orphaned>> /\ Wrote(c)

Revokes(c) ==
  /\ Writing(c) /\ call[c].kind = "revoke"
  /\ grant' = [grant EXCEPT ![call[c].bot] = Nobody]
  /\ UNCHANGED <<skill, orphaned>> /\ Wrote(c)

Next ==
  \E c \in Calls :
    \/ \E p \in People, k \in {"save", "save for all", "remove"} : AsksForSkill(c, k, p)
    \/ \E p \in People, b \in Bots, k \in {"grant", "revoke"} : AsksForBot(c, k, p, b)
    \/ Saves(c) \/ Removes(c) \/ Grants(c) \/ Revokes(c)

Spec == Init /\ [][Next]_vars

-----------------------------------------------------------------------------
TypeOK ==
  /\ skill \in [there : BOOLEAN, owner : People \cup {Nobody}, text : People \cup {Nobody}]
  /\ grant \in [Bots -> People \cup {Nobody}]
  /\ call \in [Calls -> [kind : {"none", "save", "save for all", "remove", "grant", "revoke"},
                         who : People \cup {Nobody}, bot : Bots \cup {Nobody},
                         pc : {"idle", "write", "over"}]]
  /\ crossed \in BOOLEAN /\ orphaned \in BOOLEAN

\* A skill says what its owner or an administrator wrote, and it steers only its
\* owner's Bots, or those an administrator put it on, unless two requests crossed or
\* it was removed from under its grants (skillRefusal, enablementRefusal).
SkillPromise ==
  /\ TypeOK
  /\ ~crossed /\ skill.there => skill.text \in {skill.owner, Admin}
  /\ ~crossed /\ ~orphaned => \A b \in Bots : Granted(b) =>
       grant[b] = Admin \/ (skill.there /\ grant[b] = skill.owner /\ Owner[b] = skill.owner)

\* "First to take a name keeps it": nobody else's words are put in a skill.
FirstKeepsTheName == skill.there => skill.text \in {skill.owner, Admin}

\* A skill a person put on a Bot of theirs is still that person's.
GrantFollowsItsSkill ==
  ~crossed => \A b \in Bots : Granted(b) /\ skill.there =>
    grant[b] \in {skill.owner, Admin}
==============================================================================
