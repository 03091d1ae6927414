------------------------------ MODULE AgentKeys ------------------------------
(***************************************************************************)
(* The key a Bot's own server asks for: it lies in the vault and the Bot's *)
(* row names it (agents/profile-store.ts, agents/auth-header.ts,           *)
(* credentials.ts).                                                        *)
(*                                                                         *)
(* One Bot.  A request is a transaction, which holds a connection of the   *)
(* pool from beginning to end; the vault is written from inside it on      *)
(* another connection, at once and for good.                               *)
(***************************************************************************)
EXTENDS Naturals, FiniteSets

CONSTANTS Pool,       \* connections
          MaxCalls,   \* bound: requests, numbered as they come
          MaxTrouble, \* bound: transactions that fail, revocations that do
          MaxRotations \* bound: what an operator does to the vault

VARIABLES there,   \* agents and agent_profiles: "absent", "there", "deleted"
          key,     \* configuration.auth.credentialId, 0 for none
          vault,   \* credentials
          call,    \* what each request does, where it is, the key it read, the key it made
          trouble, rotations,
          strays,  \* history: keys a failure or an operator left in the vault
          cut      \* history: keys revoked by an operator, or by a request that then failed

vars == <<there, key, vault, call, trouble, rotations, strays, cut>>

Calls == 1..MaxCalls
Keys == 1..MaxCalls + MaxRotations + 1
Unborn == [kind |-> "none", pc |-> "idle", old |-> 0, new |-> 0]
Unused == CHOOSE k \in Keys : vault[k] = "none"

Init ==
  /\ \/ there = "absent" /\ key = 0
     \/ there = "there" /\ key \in {0, 1}
  /\ vault = [k \in Keys |-> IF k = key THEN "live" ELSE "none"]
  /\ call = [c \in Calls |-> Unborn]
  /\ trouble = 0 /\ rotations = 0 /\ strays = {} /\ cut = {}

Underway(c) == call[c].pc \notin {"idle", "done", "refused", "failed"}
Taken == {c \in Calls : Underway(c)}
Spare == Cardinality(Taken) < Pool
Locked(c) == call[c].pc \in {"store", "retire", "commit"} /\ call[c].kind # "create"

-----------------------------------------------------------------------------
(* Requests.                                                               *)

\* A connection of the pool, for as long as the transaction lasts.
Begins(c, k) ==
  /\ call[c].pc = "idle" /\ \A d \in Calls : d < c => call[d].pc # "idle"
  /\ Spare
  /\ k = "create" => there = "absent" /\ \A d \in Calls : call[d].kind # "create"
  /\ call' = [call EXCEPT ![c].kind = k, ![c].pc = IF k = "create" THEN "store" ELSE "lock"]
  /\ UNCHANGED <<there, key, vault, trouble, rotations, strays, cut>>

FirstStep(k) == CASE k = "rekey" -> "store" [] k = "delete" -> "retire" [] OTHER -> "commit"

\* lockProfileMutationRows, and the configuration as it is.
Locks_Not(c) ==
  /\ call[c].pc = "lock"
  /\ call' = [call EXCEPT ![c].old = key,
       ![c].pc = IF there = "there" THEN FirstStep(call[c].kind) ELSE "refused"]
  /\ UNCHANGED <<there, key, vault, trouble, rotations, strays, cut>>

Locks(c) ==
  /\ call[c].pc = "lock" /\ \A d \in Calls : ~Locked(d)
  /\ call' = [call EXCEPT ![c].old = key,
       ![c].pc = IF there = "there" THEN FirstStep(call[c].kind) ELSE "refused"]
  /\ UNCHANGED <<there, key, vault, trouble, rotations, strays, cut>>

\* storeAgentAuth, on a second connection.
Stores(c) ==
  /\ call[c].pc = "store" /\ Spare
  /\ vault' = [vault EXCEPT ![Unused] = "live"]
  /\ call' = [call EXCEPT ![c].new = Unused,
                          ![c].pc = IF call[c].kind = "create" THEN "commit" ELSE "retire"]
  /\ UNCHANGED <<there, key, trouble, rotations, strays, cut>>

\* retireReplacedKey, on a second connection; its failure is only logged.
Retires(c) ==
  /\ call[c].pc = "retire"
  /\ call' = [call EXCEPT ![c].pc = "commit"]
  /\ IF call[c].old = 0 THEN UNCHANGED <<vault, trouble, strays>>
     ELSE /\ Spare
          /\ \/ /\ vault' = [vault EXCEPT ![call[c].old] = "revoked"]
                /\ UNCHANGED <<trouble, strays>>
             \/ /\ trouble < MaxTrouble /\ trouble' = trouble + 1
                /\ strays' = strays \cup {call[c].old} /\ UNCHANGED vault
  /\ UNCHANGED <<there, key, rotations, cut>>

Commits(c) ==
  /\ call[c].pc = "commit" /\ call' = [call EXCEPT ![c].pc = "done"]
  /\ there' = CASE call[c].kind = "create" -> "there" [] call[c].kind = "delete" -> "deleted"
                [] OTHER -> there
  /\ key' = IF call[c].new # 0 THEN call[c].new ELSE key
  /\ UNCHANGED <<vault, trouble, rotations, strays, cut>>

\* The transaction rolls back, or the process dies: what the vault has, it keeps.
Fails(c) ==
  /\ Underway(c) /\ trouble < MaxTrouble /\ trouble' = trouble + 1
  /\ call' = [call EXCEPT ![c].pc = "failed"]
  /\ strays' = strays \cup ({call[c].new} \ {0})
  /\ cut' = IF call[c].pc = "commit" THEN cut \cup {call[c].old} ELSE cut
  /\ UNCHANGED <<there, key, vault, rotations>>

\* An operator's vault screen: create and the first half of rotate store a key, revoke
\* and the second half of rotate end one.  The Bot's row is not told.
OperatorStores ==
  /\ rotations < MaxRotations /\ rotations' = rotations + 1 /\ Spare
  /\ vault' = [vault EXCEPT ![Unused] = "live"] /\ strays' = strays \cup {Unused}
  /\ UNCHANGED <<there, key, call, trouble, cut>>

OperatorRevokes(k) ==
  /\ vault[k] # "none" /\ rotations < MaxRotations /\ rotations' = rotations + 1 /\ Spare
  /\ vault' = [vault EXCEPT ![k] = "revoked"] /\ cut' = cut \cup {k}
  /\ UNCHANGED <<there, key, call, trouble, strays>>

Next ==
  \/ \E c \in Calls :
       \/ \E k \in {"create", "rekey", "edit", "delete"} : Begins(c, k)
       \/ Locks(c) \/ Stores(c) \/ Retires(c) \/ Commits(c) \/ Fails(c)
  \/ OperatorStores \/ \E k \in Keys : OperatorRevokes(k)

Spec == Init /\ [][Next]_vars

-----------------------------------------------------------------------------
TypeOK ==
  /\ there \in {"absent", "there", "deleted"} /\ key \in {0} \cup Keys
  /\ vault \in [Keys -> {"none", "live", "revoked"}]
  /\ call \in [Calls -> [kind : {"none", "create", "rekey", "edit", "delete"},
                         pc : {"idle", "lock", "store", "retire", "commit", "done",
                               "refused", "failed"},
                         old : {0} \cup Keys, new : {0} \cup Keys]]
  /\ strays \subseteq Keys /\ cut \subseteq {0} \cup Keys

Retired(k) == \E c \in Calls : call[c].pc = "commit" /\ call[c].old = k
Fresh(k) == \E c \in Taken : call[c].new = k

\* However edits and deletions overlap, the vault holds no live key but the Bot's own,
\* unless a failure or an operator left it there ("is that leaked key still live" is
\* answered by an edit, and "its key stops working" with a deletion); and the Bot's key
\* is live unless it is being replaced, an operator revoked it, or an edit failed after
\* revoking it.
KeysPromise ==
  /\ TypeOK
  /\ \A k \in Keys : vault[k] = "live" =>
       \/ k = key /\ there # "deleted"
       \/ k \in strays \/ Fresh(k)
  /\ there = "there" /\ key # 0 =>
       \/ vault[key] = "live"
       \/ key \in cut \/ Retired(key)

\* "a failure here leaves the Bot working with a key too many rather than with none":
\* only an operator takes the key a Bot has.
AKeyAlwaysWorks ==
  there = "there" /\ key # 0 /\ rotations = 0 /\ Taken = {} => vault[key] = "live"

\* Of the requests under way, one can go on: they do not hold every connection while
\* each waits for another.
CanMove(c) ==
  CASE call[c].pc = "lock" -> \A d \in Calls : ~Locked(d)
    [] call[c].pc = "store" -> Spare
    [] call[c].pc = "retire" -> Spare \/ call[c].old = 0
    [] OTHER -> TRUE
NobodyWaitsForever == Taken # {} => \E c \in Taken : CanMove(c)
==============================================================================
