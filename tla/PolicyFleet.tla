---------------------------- MODULE PolicyFleet ----------------------------
(***************************************************************************)
(* The action policy of every organization: one row in Postgres, a copy in *)
(* the memory of every replica of the server, and the announcement that    *)
(* makes the replicas read again (computer/policy-store.ts,                *)
(* policy-listener.ts).                                                    *)
(*                                                                         *)
(* A policy is named by the write that saved it; 0 is the configured one,  *)
(* in force where there is no row. A reread is two steps, the query and    *)
(* what its callback does to the map, since anything may happen between    *)
(* them; so is a write, the transaction and the map.                       *)
(***************************************************************************)
EXTENDS Naturals

CONSTANTS Replicas,
          Orgs,
          MaxRereads, \* bound: rereads of one replica under way at once
          MaxWrites,  \* bound: policies saved or reset
          MaxTrouble  \* bound: lost connections, restarts and failed queries

VARIABLES row,      \* the action_policy table, one policy for each organization
          writes,   \* how many transactions have committed
          copy,     \* the Map of each replica
          link,     \* its LISTEN connection: "off" (the process is down), "lost", "listening"
          notes,    \* announcements that have reached it and are not handled yet
          reread,   \* its rereads: "free", "asked", or "read" with what was read
          writer,   \* the request that saves on it: "idle" or "committed"
          crossed,  \* history: a write was committed while it was between steps
          trouble

vars == <<row, writes, copy, link, notes, reread, writer, crossed, trouble>>

Slots == 1..MaxRereads
Policies == 0..MaxWrites
Tables == [Orgs -> Policies]
Configured == [o \in Orgs |-> 0]
Free == [pc |-> "free", table |-> Configured]
Asked == [pc |-> "asked", table |-> Configured]
Idle == [pc |-> "idle", org |-> CHOOSE o \in Orgs : TRUE, policy |-> 0]

Init ==
  /\ row = Configured /\ writes = 0
  /\ copy = [r \in Replicas |-> Configured]
  /\ link = [r \in Replicas |-> "lost"]   \* load() has run, listen() has not
  /\ notes = [r \in Replicas |-> 0]
  /\ reread = [r \in Replicas |-> [i \in Slots |-> Free]]
  /\ writer = [r \in Replicas |-> Idle]
  /\ crossed = [r \in Replicas |-> FALSE]
  /\ trouble = 0

\* Nothing of this replica waits for an answer of the database.
Still(r) == writer[r].pc = "idle" /\ \A i \in Slots : reread[r][i].pc = "free"

Trouble == trouble < MaxTrouble /\ trouble' = trouble + 1

-----------------------------------------------------------------------------
(* Rereads.                                                                *)

\* store.refresh() is called, and its query sent: a reread that starts while
\* nothing else is under way sets right whatever crossed before it.
Starts(r, i) ==
  /\ reread[r][i].pc = "free"
  /\ \A j \in Slots : j < i => reread[r][j].pc # "free"
  /\ reread' = [reread EXCEPT ![r][i] = Asked]
  /\ crossed' = [crossed EXCEPT ![r] = @ /\ ~Still(r)]

\* A NOTIFY is handled, whoever it came from and whatever it says.
Hear(r, i) ==
  /\ link[r] = "listening" /\ notes[r] > 0
  /\ notes' = [notes EXCEPT ![r] = @ - 1]
  /\ Starts(r, i)
  /\ UNCHANGED <<row, writes, copy, link, writer, trouble>>

\* The query is answered.
Query(r, i) ==
  /\ reread[r][i].pc = "asked"
  /\ reread' = [reread EXCEPT ![r][i] = [pc |-> "read", table |-> row]]
  /\ UNCHANGED <<row, writes, copy, link, notes, writer, crossed, trouble>>

\* The map is cleared and filled from the rows.
Refill(r, i) ==
  /\ reread[r][i].pc = "read"
  /\ copy' = [copy EXCEPT ![r] = reread[r][i].table]
  /\ reread' = [reread EXCEPT ![r][i] = Free]
  /\ UNCHANGED <<row, writes, link, notes, writer, crossed, trouble>>

\* The query throws: the listener logs it and the map stays what it was.
QueryFails(r, i) ==
  /\ reread[r][i].pc = "asked" /\ Trouble
  /\ reread' = [reread EXCEPT ![r][i] = Free]
  /\ crossed' = [crossed EXCEPT ![r] = TRUE]
  /\ UNCHANGED <<row, writes, copy, link, notes, writer>>

-----------------------------------------------------------------------------
(* The connection and the process.                                         *)

\* Notifications reach whoever is listening when the transaction commits.
Announced(r) ==
  [s \in Replicas |-> IF link[s] = "listening" THEN notes[s] + 1 ELSE notes[s]]

Lost(r) ==
  /\ link[r] = "listening" /\ Trouble
  /\ link' = [link EXCEPT ![r] = "lost"]
  /\ notes' = [notes EXCEPT ![r] = 0]
  /\ UNCHANGED <<row, writes, copy, reread, writer, crossed>>

Listen_NoReread(r, i) ==
  /\ link[r] = "lost" /\ Still(r)
  /\ link' = [link EXCEPT ![r] = "listening"]
  /\ crossed' = [crossed EXCEPT ![r] = FALSE]
  /\ UNCHANGED <<row, writes, copy, notes, reread, writer, trouble>>

\* The driver has subscribed, for the first time or again: onlisten rereads.
Listen(r, i) ==
  /\ link[r] = "lost"
  /\ link' = [link EXCEPT ![r] = "listening"]
  /\ Starts(r, i)
  /\ UNCHANGED <<row, writes, copy, notes, writer, trouble>>

\* The process starts: load(), then the listener.
Boot(r) ==
  /\ link[r] = "off"
  /\ copy' = [copy EXCEPT ![r] = row]
  /\ link' = [link EXCEPT ![r] = "lost"]
  /\ UNCHANGED <<row, writes, notes, reread, writer, crossed, trouble>>

Die(r) ==
  /\ link[r] # "off" /\ Trouble
  /\ link' = [link EXCEPT ![r] = "off"]
  /\ copy' = [copy EXCEPT ![r] = Configured]
  /\ notes' = [notes EXCEPT ![r] = 0]
  /\ reread' = [reread EXCEPT ![r] = [i \in Slots |-> Free]]
  /\ writer' = [writer EXCEPT ![r] = Idle]
  /\ crossed' = [crossed EXCEPT ![r] = FALSE]
  /\ UNCHANGED <<row, writes>>

-----------------------------------------------------------------------------
(* set and reset.                                                          *)

\* The transaction commits: the row, or its removal, and the announcement. A
\* pg_notify that fails aborts the transaction, so nothing is saved either.
Commits(r, o, policy) ==
  /\ link[r] # "off" /\ writer[r].pc = "idle" /\ writes < MaxWrites
  /\ writes' = writes + 1
  /\ row' = [row EXCEPT ![o] = policy]
  /\ notes' = Announced(r)
  /\ writer' = [writer EXCEPT ![r] = [pc |-> "committed", org |-> o, policy |-> policy]]
  /\ crossed' = [s \in Replicas |-> crossed[s] \/ ~Still(s)]
  /\ UNCHANGED <<copy, link, reread, trouble>>

Set(r, o) == Commits(r, o, writes + 1)

Reset(r, o) == Commits(r, o, 0)

Enforce_Deletes(r) ==
  /\ writer[r].pc = "committed"
  /\ copy' = [copy EXCEPT ![r][writer[r].org] = 0]
  /\ writer' = [writer EXCEPT ![r] = Idle]
  /\ UNCHANGED <<row, writes, link, notes, reread, crossed, trouble>>

\* policies.set or policies.delete, after the await, and the answer.
Enforce(r) ==
  /\ writer[r].pc = "committed"
  /\ copy' = [copy EXCEPT ![r][writer[r].org] = writer[r].policy]
  /\ writer' = [writer EXCEPT ![r] = Idle]
  /\ UNCHANGED <<row, writes, link, notes, reread, crossed, trouble>>

Next ==
  \E r \in Replicas :
    \/ Lost(r) \/ Boot(r) \/ Die(r) \/ Enforce(r)
    \/ \E i \in Slots : \/ Hear(r, i) \/ Query(r, i) \/ Refill(r, i)
                        \/ QueryFails(r, i) \/ Listen(r, i)
    \/ \E o \in Orgs : Set(r, o) \/ Reset(r, o)

Spec == Init /\ [][Next]_vars

\* A replica is started again, its driver reconnects, queries are answered and
\* callbacks run. Nobody owes a write.
Keeps(r) == Boot(r) \/ Enforce(r) \/ \E i \in Slots : Query(r, i) \/ Refill(r, i)
Hears(r) == \E i \in Slots : Hear(r, i) \/ Listen(r, i)

FairSpec == Spec /\ \A r \in Replicas : WF_vars(Keeps(r)) /\ WF_vars(Hears(r))

-----------------------------------------------------------------------------
TypeOK ==
  /\ row \in Tables /\ writes \in Policies
  /\ copy \in [Replicas -> Tables]
  /\ link \in [Replicas -> {"off", "lost", "listening"}]
  /\ notes \in [Replicas -> Nat]
  /\ reread \in [Replicas -> [Slots -> [pc : {"free", "asked", "read"}, table : Tables]]]
  /\ writer \in [Replicas -> [pc : {"idle", "committed"}, org : Orgs, policy : Policies]]
  /\ crossed \in [Replicas -> BOOLEAN]
  /\ trouble \in Nat

AtRest(r) == link[r] = "listening" /\ notes[r] = 0 /\ Still(r)

\* No replica that listens and has nothing left to do enforces another boundary
\* than the saved one, through lost connections and restarts ("a deny rule that
\* stops roughly one action in N"): unless a write was committed while one of its
\* own queries or writes was under way, or a query of it failed, and even then
\* only until it next rereads with nothing else under way.
QuietFleetAgrees == \A r \in Replicas : AtRest(r) /\ ~crossed[r] => copy[r] = row

\* A boundary changes on a replica to the saved one and to no other: never back
\* to one that was replaced, with the same exception.
NeverBack ==
  [][\A r \in Replicas :
       link'[r] # "off" /\ copy'[r] # copy[r] /\ ~crossed[r] =>
         \A o \in Orgs : copy'[r][o] \in {copy[r][o], row[o]}]_vars

\* Every replica comes to enforce the saved boundary, with the same exception.
FleetConverges == \A r \in Replicas : <>[](copy[r] = row \/ crossed[r])

\* Without the exception, what the listener is for ("keep every server's copy of
\* the boundary current"): two overlapping rereads can land in the other order.
EveryQuietReplicaAgrees == \A r \in Replicas : AtRest(r) => copy[r] = row
===========================================================================
