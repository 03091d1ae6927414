-------------------------------- MODULE Rooms --------------------------------
(***************************************************************************)
(* A room of Bots and the deletion of a Bot: the transactions that create  *)
(* a channel, add Bots to one, and delete or change a Bot, with the row    *)
(* locks they take (channels/routes.ts, agents/profile-store.ts).          *)
(*                                                                         *)
(* One room is there from the beginning and every create makes one of its  *)
(* own.  The database is modelled by what the code relies on: a row lock   *)
(* is held until its transaction ends, an inserted row locks the agents    *)
(* row its foreign key names, the primary key (room, Bot) makes a second   *)
(* insert wait and then fail, and of a cycle of waiting transactions one   *)
(* is aborted.                                                             *)
(***************************************************************************)
EXTENDS Naturals, Sequences, FiniteSets

CONSTANTS Agents,   \* the Bots; their order is that of their ids
          Cap,      \* MAX_CHANNEL_AGENTS
          MaxCalls  \* bound: requests, numbered as they come

VARIABLES deleted, \* agent_profiles.deleted_at is set
          room,    \* channel_agents of the room: the position of each Bot in it
          call,    \* what each request does, where it is, what it read and how it ended
          locks,   \* the row locks: who, which row, in which mode
          crossed  \* history: two requests added to the room at the same time

vars == <<deleted, room, call, locks, crossed>>

Calls == 1..MaxCalls
Kinds == {"create", "add", "delete", "edit"}
Lists == UNION {{l \in [1..n -> Agents] : \A i, j \in 1..n : l[i] = l[j] => i = j} :
                n \in 1..Cap}
Room == UNION {[S -> 0..2 * Cap] : S \in SUBSET Agents}
Empty == [a \in {} |-> 0]
Unborn == [kind |-> "none", asks |-> <<>>, seen |-> Empty, pc |-> "idle", i |-> 0]

Init ==
  /\ deleted = {} /\ locks = {} /\ crossed = FALSE
  /\ \E l \in Lists : room = [a \in {l[n] : n \in DOMAIN l} |->
                                (CHOOSE n \in DOMAIN l : l[n] = a) - 1]
  /\ call = [c \in Calls |-> Unborn]

Underway(c) == call[c].pc \notin {"idle", "done", "refused", "victim"}
Adds(c) == Underway(c) /\ call[c].kind = "add"

Named(asks) == {asks[n] : n \in DOMAIN asks}
Nth(S, n) == CHOOSE a \in S : Cardinality({b \in S : b <= a}) = n

\* The ids in their own order, in which the profiles are locked.
InOrder(asks) == [n \in 1..Len(asks) |-> Nth(Named(asks), n)]

\* The filter of addAgents: those that are not in the room, in the order of the request.
Missing(asks, present) ==
  LET at == {n \in DOMAIN asks : asks[n] \notin present}
  IN [m \in 1..Cardinality(at) |-> asks[Nth(at, m)]]

-----------------------------------------------------------------------------
(* Row locks.                                                              *)

Clash(m, n) == "update" \in {m, n}
Held(c, row, m) == [by |-> c, row |-> row, mode |-> m]
Blocks(d, c, row, m) ==
  d # c /\ \E l \in locks : l.by = d /\ l.row = row /\ Clash(l.mode, m)
Free(c, row, m) == \A d \in Calls : ~Blocks(d, c, row, m)
Profile(a) == <<"agent_profiles", a>>
Agent(a) == <<"agents", a>>
Member(a) == <<"channel_agents", a>>

\* The lock that the next statement of c needs, if it needs one.
Wants(c) ==
  LET a == call[c].asks[call[c].i] IN
  CASE call[c].pc = "agent"   -> {Held(c, Agent(a), "update")}
    [] call[c].pc = "profile" -> {Held(c, Profile(a), "update")}
    [] call[c].pc = "share"   -> {Held(c, Profile(InOrder(call[c].asks)[call[c].i]), "share")}
    [] call[c].pc = "insert" /\ call[c].kind = "add" -> {Held(c, Member(a), "update")}
    [] call[c].pc = "refer"   -> {Held(c, Agent(a), "key share")}
    [] OTHER -> {}

WaitsFor(c, d) == Underway(c) /\ \E w \in Wants(c) : Blocks(d, c, w.row, w.mode)
Deadlocked(c) ==
  \E S \in SUBSET Calls : c \in S /\ \A d \in S : \E e \in S : WaitsFor(d, e)
Takes(c) == \A w \in Wants(c) : Free(c, w.row, w.mode)

At(c, label) == call[c].pc = label /\ Takes(c)
Goes(c, label, i) ==
  /\ call' = [call EXCEPT ![c].pc = label, ![c].i = i]
  /\ locks' = locks \cup Wants(c)

\* The transaction is over: its locks are gone, and its rows unless it commits.
Ends(c, how) ==
  /\ call' = [call EXCEPT ![c].pc = how]
  /\ locks' = {l \in locks : l.by # c}

-----------------------------------------------------------------------------
(* Requests.                                                               *)

\* A create and an add name Bots in the order of the request; a deletion and an edit
\* (update, issueCallbackToken, revokeCallbackToken) name one.
Begins(c, k, asks) ==
  /\ call[c].pc = "idle" /\ \A d \in Calls : d < c => call[d].pc # "idle"
  /\ k \in {"delete", "edit"} => Len(asks) = 1
  /\ call' = [call EXCEPT ![c] =
       [kind |-> k, asks |-> asks, seen |-> Empty, i |-> 1,
        pc |-> CASE k = "create" -> "share" [] k = "add" -> "read" [] OTHER -> "agent"]]
  /\ crossed' = (crossed \/ (k = "add" /\ \E d \in Calls : Adds(d)))
  /\ UNCHANGED <<deleted, room, locks>>

\* addAgents: who is in the room is read with no lock, and the cap is held to that.
Overfull_Present(seen, n) == n > Cap

Overfull(seen, n) == Cardinality(DOMAIN seen) + n > Cap

ReadsRoom(c) ==
  LET adding == Missing(call[c].asks, DOMAIN room) IN
  /\ call[c].pc = "read"
  /\ call' = [call EXCEPT ![c].seen = room, ![c].asks = adding,
                          ![c].pc = IF Overfull(room, Len(adding)) THEN "refused"
                                    ELSE IF adding = <<>> THEN "done" ELSE "share"]
  /\ UNCHANGED <<deleted, room, locks, crossed>>

\* getWithin, Bot by Bot in the order of their ids: the lock, then the profile.
Shares_Not(c) ==
  /\ call[c].pc = "share" /\ UNCHANGED locks
  /\ call' = [call EXCEPT ![c].pc = IF call[c].i < Len(call[c].asks) THEN @ ELSE "insert",
                          ![c].i = IF @ < Len(call[c].asks) THEN @ + 1 ELSE 1]
  /\ UNCHANGED <<deleted, room, crossed>>

Shares(c) ==
  /\ At(c, "share")
  /\ IF InOrder(call[c].asks)[call[c].i] \in deleted THEN Ends(c, "refused")
     ELSE IF call[c].i < Len(call[c].asks) THEN Goes(c, "share", call[c].i + 1)
     ELSE Goes(c, "insert", 1)
  /\ UNCHANGED <<deleted, room, crossed>>

\* The insert, in the order of the request: each row waits for one with the same key
\* and fails if that is there.
Inserts(c) ==
  /\ At(c, "insert")
  /\ IF call[c].kind = "add" /\ call[c].asks[call[c].i] \in DOMAIN room THEN Ends(c, "refused")
     ELSE IF call[c].i < Len(call[c].asks) THEN Goes(c, "insert", call[c].i + 1)
     ELSE Goes(c, "refer", 1)
  /\ UNCHANGED <<deleted, room, crossed>>

\* Its foreign keys, in the same order.
Refers(c) ==
  /\ At(c, "refer")
  /\ IF call[c].i < Len(call[c].asks) THEN Goes(c, "refer", call[c].i + 1)
     ELSE Goes(c, "commit", 0)
  /\ UNCHANGED <<deleted, room, crossed>>

\* lockProfileMutationRows: the agents row, then the profile; then the Bot is looked up.
LocksAgent(c) ==
  /\ At(c, "agent") /\ Goes(c, "profile", 1)
  /\ UNCHANGED <<deleted, room, crossed>>

LocksProfile(c) ==
  /\ At(c, "profile")
  /\ IF call[c].asks[1] \in deleted THEN Ends(c, "refused") ELSE Goes(c, "commit", 0)
  /\ UNCHANGED <<deleted, room, crossed>>

NextPosition(seen) == IF seen = Empty THEN 0
               ELSE 1 + CHOOSE p \in {seen[a] : a \in DOMAIN seen} :
                          \A a \in DOMAIN seen : seen[a] <= p
Inserted(c) == Named(call[c].asks)
Placed(c) ==
  LET asks == call[c].asks IN
  [a \in Inserted(c) |->
     NextPosition(call[c].seen) + (CHOOSE n \in DOMAIN asks : asks[n] = a) - 1]

Commits(c) ==
  /\ call[c].pc = "commit" /\ Ends(c, "done")
  /\ room' = IF call[c].kind = "add"
             THEN [a \in DOMAIN room \cup Inserted(c) |->
                     IF a \in DOMAIN room THEN room[a] ELSE Placed(c)[a]]
             ELSE room
  /\ deleted' = IF call[c].kind = "delete" THEN deleted \cup Inserted(c) ELSE deleted
  /\ UNCHANGED crossed

\* The database aborts one transaction of a cycle.
IsAborted(c) ==
  /\ Deadlocked(c) /\ Ends(c, "victim")
  /\ UNCHANGED <<deleted, room, crossed>>

Next ==
  \E c \in Calls :
    \/ \E k \in Kinds, asks \in Lists : Begins(c, k, asks)
    \/ ReadsRoom(c) \/ Shares(c) \/ Inserts(c) \/ Refers(c)
    \/ LocksAgent(c) \/ LocksProfile(c) \/ Commits(c) \/ IsAborted(c)

Spec == Init /\ [][Next]_vars

-----------------------------------------------------------------------------
TypeOK ==
  /\ deleted \subseteq Agents /\ room \in Room /\ crossed \in BOOLEAN
  /\ \A c \in Calls : call[c].kind \in Kinds \cup {"none"} /\ call[c].seen \in Room
  /\ \A l \in locks : l.by \in Calls /\ l.mode \in {"update", "share", "key share"}

\* A row that is about to be committed names a Bot that is there: "a deletion racing
\* a reference blocks here instead of committing underneath it".
NothingIsCommittedUnderneath ==
  \A c \in Calls :
    call[c].kind \in {"create", "add"} /\ call[c].pc \in {"insert", "refer", "commit"} =>
      Inserted(c) \cap deleted = {}

\* Requests that only create rooms, whatever Bots they share, never wait in a circle
\* ("Locks are taken in agent-ID order so two callers ... cannot deadlock"), nor do
\* they with one that adds; and the room is full at most and in order unless two
\* requests added to it at the same time.
RoomPromise ==
  /\ TypeOK /\ NothingIsCommittedUnderneath
  /\ \A c \in Calls : Deadlocked(c) =>
       \/ \E d \in Calls : Underway(d) /\ call[d].kind \in {"delete", "edit"}
       \/ \E d, e \in Calls : d # e /\ Adds(d) /\ Adds(e)
  /\ ~crossed => /\ Cardinality(DOMAIN room) <= Cap
                 /\ \A a, b \in DOMAIN room : room[a] = room[b] => a = b

\* The cap holds when two requests add to the room at once, too.
RoomNeverOverfull == Cardinality(DOMAIN room) <= Cap

\* A deletion waits for a room that is being made and neither fails.
DeletionBlocks == \A c \in Calls : call[c].pc # "victim"
==============================================================================
