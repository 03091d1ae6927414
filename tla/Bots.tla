-------------------------------- MODULE Bots --------------------------------
(***************************************************************************)
(* One Bot and what surrounds it: who drives its browser (Wheel),          *)
(* its container (Supervisor), the key of its own server (AgentKeys), a    *)
(* skill that is put on it (Skills), the tools of an MCP server            *)
(* (ToolListing), the components it may answer with (Catalogue), and the   *)
(* human it writes to (Crm).                                               *)
(*                                                                         *)
(* These parts share no state in the code, so a behaviour is one of one    *)
(* part, chosen at the beginning, and each part is checked alone.          *)
(***************************************************************************)
EXTENDS Wheel

CONSTANTS MaxCalls, MaxMade, Attempts,                          \* of Supervisor
          Pool, MaxEditions, MaxFaults, MaxRotations,           \* of AgentKeys
          People, Admin, Nobody, Bots, Owner, MaxAdditions,     \* of Skills
          Tools, MaxRefreshes, MaxChanges,                      \* of ToolListing
          Orgs, Belongs, Home, MaxDecisions,                    \* of Catalogue
          MaxSends, MaxEvents, MaxCreates, MaxEdits             \* of Crm

ASSUME SupervisorAssumption ==
  MaxCalls \in Nat /\ MaxMade \in Nat /\ Attempts \in Nat \ {0}
ASSUME KeysAssumption == MaxEditions \in Nat /\ MaxRotations \in Nat
ASSUME ListingAssumption == MaxChanges \in Nat
ASSUME CatalogueAssumption == MaxDecisions \in Nat
ASSUME CrmAssumption ==
  MaxSends \in Nat /\ MaxEvents \in Nat /\ MaxCreates \in Nat /\ MaxEdits \in Nat

VARIABLES part,
          box, made, profile, kind, pc, left, answer, doomed, disturbed,
          there, key, vault, edit, faults, rotations, strays, cut,
          skill, grant, request, muddled, orphaned,
          vendor, tools, refresh, listing, tangled, changes,
          gov, source, withheld, granted, version, change, decided, mixed, free,
          humans, contact, create, send, event, edits, overlapped, spared

supervisor == <<box, made, profile, kind, pc, left, answer, doomed, disturbed>>
keys == <<there, key, vault, edit, faults, rotations, strays, cut>>
skills == <<skill, grant, request, muddled, orphaned>>
toolVars == <<vendor, tools, refresh, listing, tangled, changes>>
catalogue == <<gov, source, withheld, granted, version, change, decided, mixed, free>>
crm == <<humans, contact, create, send, event, edits, overlapped, spared>>

Supervisor == INSTANCE Supervisor
AgentKeys == INSTANCE AgentKeys WITH
  MaxCalls <- MaxEditions, MaxTrouble <- MaxFaults, call <- edit, trouble <- faults
Skills == INSTANCE Skills WITH
  MaxCalls <- MaxAdditions, call <- request, crossed <- muddled
ToolListing == INSTANCE ToolListing
Catalogue == INSTANCE Catalogue WITH MaxCalls <- MaxDecisions, call <- change
Crm == INSTANCE Crm WITH rows <- humans, person <- contact

Parts == {"wheel", "supervisor", "keys", "skills", "tools", "catalogue", "crm"}

\* A part that is not chosen stands still in one of its initial states.
PartsInit ==
  /\ part \in Parts
  /\ Init /\ Supervisor!Init
  /\ AgentKeys!Init /\ (part # "keys" => there = "absent")
  /\ Skills!Init
  /\ ToolListing!Init /\ (part # "tools" => vendor = {})
  /\ Catalogue!Init
  /\ Crm!Init /\ (part # "crm" => humans = 0)

PartsNext ==
  \/ /\ part = "wheel" /\ Next
     /\ UNCHANGED <<part, supervisor, keys, skills, toolVars, catalogue, crm>>
  \/ /\ part = "supervisor" /\ Supervisor!Next
     /\ UNCHANGED <<part, vars, keys, skills, toolVars, catalogue, crm>>
  \/ /\ part = "keys" /\ AgentKeys!Next
     /\ UNCHANGED <<part, vars, supervisor, skills, toolVars, catalogue, crm>>
  \/ /\ part = "skills" /\ Skills!Next
     /\ UNCHANGED <<part, vars, supervisor, keys, toolVars, catalogue, crm>>
  \/ /\ part = "tools" /\ ToolListing!Next
     /\ UNCHANGED <<part, vars, supervisor, keys, skills, catalogue, crm>>
  \/ /\ part = "catalogue" /\ Catalogue!Next
     /\ UNCHANGED <<part, vars, supervisor, keys, skills, toolVars, crm>>
  \/ /\ part = "crm" /\ Crm!Next
     /\ UNCHANGED <<part, vars, supervisor, keys, skills, toolVars, catalogue>>

all == <<part, vars, supervisor, keys, skills, toolVars, catalogue, crm>>
PartsSpec == PartsInit /\ [][PartsNext]_all /\ Fairness

-----------------------------------------------------------------------------
\* What the supervisor promises: ensures of one Bot get one container and are not
\* failed for another call's sake, and a reset throws the browser profile away
\* (supervisor/src/docker.ts, ensure and reset).
ComputersAreOne == Supervisor!EnsuresAgree /\ Supervisor!ResetThrowsAway

\* A Bot's key is live and the keys it replaced are not (agents/profile-store.ts);
\* skills are their owners' and the tools held are one listing (plugins/store.ts); what
\* administrators decide of components stands (components/store.ts).
SettingsPromise ==
  /\ AgentKeys!KeysPromise /\ Skills!SkillPromise /\ ToolListing!ListingPromise
  /\ Catalogue!CataloguePromise

\* A person who was marked is not written to; an opened thread says so (crm/store.ts).
CrmPromise == Crm!CrmPromise
=============================================================================
