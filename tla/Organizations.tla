---------------------------- MODULE Organizations ----------------------------
(***************************************************************************)
(* Organizations and what people keep in them: who pays for one            *)
(* (Checkout), who is in one (Members), a room of Bots (Rooms), a person's *)
(* list of channels (Roster) and the standing triggers of a goal           *)
(* (Triggers).                                                             *)
(*                                                                         *)
(* These parts share no state in the code, so a behaviour is one of one    *)
(* part, chosen at the beginning, and each part is checked alone.          *)
(***************************************************************************)
EXTENDS Checkout

CONSTANTS People, Founder, Configured, AutoJoin, Limits,
          MaxRequests, MaxInvites, MaxTurns,                         \* of Members
          Agents, Cap, MaxAdds,                                      \* of Rooms
          Channels, Ticks, Spoken, MaxReports, MaxBreaks,            \* of Roster
          Crons, Inbound, Workers, MaxWindows, MaxCalls, MaxEdits, MaxDeaths \* of Triggers

ASSUME MembersAssumption ==
  /\ Founder \in People /\ Configured \subseteq People /\ AutoJoin \in BOOLEAN
  /\ Limits \subseteq Nat /\ IsFiniteSet(People)
  /\ MaxRequests \in Nat /\ MaxInvites \in Nat /\ MaxTurns \in Nat

\* The order of Bots is that of their ids, and there is one to be in the room.
ASSUME RoomsAssumption ==
  /\ IsFiniteSet(Agents) /\ Agents \subseteq Nat /\ Agents # {}
  /\ Cap \in Nat \ {0} /\ MaxAdds \in Nat

\* Instants are half milliseconds, and the browser stamps at whole ones.
ASSUME RosterAssumption ==
  /\ IsFiniteSet(Channels) /\ Channels \subseteq Nat \ {0} /\ Channels # {}
  /\ Ticks \subseteq 1..99 /\ Spoken \subseteq 1..99 /\ \A t \in Spoken : t % 2 = 0
  /\ MaxReports \in Nat /\ MaxBreaks \in Nat

ASSUME TriggersAssumption ==
  /\ IsFiniteSet(Crons) /\ IsFiniteSet(Workers)
  /\ Crons \cap Inbound = {} /\ "nobody" \notin Crons /\ Workers \cap (1..MaxCalls) = {}
  /\ MaxWindows \in Nat /\ MaxCalls \in Nat /\ MaxEdits \in Nat /\ MaxDeaths \in Nat

VARIABLES part,
          member, revoked, session, invite, limit, request, disturbed, crossed, turns,
          deleted, room, call, locks, doubled,
          created, last, heard, list, fetch, wire, open, listening, muddled, reports, breaks,
          trigger, due, windows, job, queued, at, fires, inTick, switches, deaths

members == <<member, revoked, session, invite, limit, request, disturbed, crossed, turns>>
rooms == <<deleted, room, call, locks, doubled>>
roster == <<created, last, heard, list, fetch, wire, open, listening, muddled, reports,
            breaks>>
triggers == <<trigger, due, windows, job, queued, at, fires, inTick, switches, deaths>>

Members == INSTANCE Members
Rooms == INSTANCE Rooms WITH MaxCalls <- MaxAdds, crossed <- doubled
Roster == INSTANCE Roster
Triggers == INSTANCE Triggers WITH Hooks <- Inbound, pc <- at, edits <- switches

Parts == {"checkout", "members", "rooms", "roster", "triggers"}

\* A part that is not chosen stands still in one of its initial states.
PartsInit ==
  /\ part \in Parts
  /\ Init
  /\ Members!Init
  /\ part # "members" => /\ limit = CHOOSE l \in Limits : TRUE
                         /\ \A p \in People : p # Founder => member[p] = "none"
  /\ Rooms!Init /\ (part # "rooms" => DOMAIN room = {CHOOSE a \in Agents : TRUE})
  /\ Roster!Init
  /\ part # "roster" => created = [ch \in Channels |-> CHOOSE t \in Ticks : TRUE]
  /\ Triggers!Init

PartsNext ==
  \/ part = "checkout" /\ Next /\ UNCHANGED <<part, members, rooms, roster, triggers>>
  \/ part = "members" /\ Members!Next /\ UNCHANGED <<part, vars, rooms, roster, triggers>>
  \/ part = "rooms" /\ Rooms!Next /\ UNCHANGED <<part, vars, members, roster, triggers>>
  \/ part = "roster" /\ Roster!Next /\ UNCHANGED <<part, vars, members, rooms, triggers>>
  \/ part = "triggers" /\ Triggers!Next /\ UNCHANGED <<part, vars, members, rooms, roster>>

all == <<part, vars, members, rooms, roster, triggers>>
PartsSpec == PartsInit /\ [][PartsNext]_all

-----------------------------------------------------------------------------
\* There is an administrator (people/store.ts, app.ts).
AnAdministratorRemains == Members!AnAdministratorRemains

\* A seat that is given is there (orgs/store.ts).
SeatsAreCounted == Members!SeatsAreCounted

\* A row committed names a Bot that is there, and creates do not wait in a circle
\* (channels/routes.ts and the locks of agents/profile-store.ts).
RoomPromise == Rooms!RoomPromise

\* A roster at rest is what the database holds (channels/routes.ts and its events).
RosterPromise == Roster!RosterPromise

\* A window of a schedule queues one job at most, and the thread has no more of them
\* unfinished than there are workers (jobs/triggers.ts).
StandingFires == Triggers!StandingFires
=============================================================================
