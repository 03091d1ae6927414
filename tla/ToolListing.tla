------------------------------- MODULE ToolListing -------------------------------
(***************************************************************************)
(* The tools of one MCP server as the database holds them, and the         *)
(* refreshes that ask the vendor, delete and insert (plugins/store.ts).    *)
(* A refresh is not a transaction.                                         *)
(***************************************************************************)
EXTENDS Naturals

CONSTANTS Tools,        \* the names a vendor's tools may have
          MaxRefreshes, \* bound: refreshes, numbered as they come
          MaxChanges    \* bound: changes of what the vendor offers, and failures

VARIABLES vendor,  \* what the vendor offers
          tools,   \* mcp_tools
          refresh, \* the refreshes
          listing, \* history: the listing that was inserted last
          tangled, \* history: refreshes overlapped, or one failed after it deleted
          changes

vars == <<vendor, tools, refresh, listing, tangled, changes>>

Refreshes == 1..MaxRefreshes

Init ==
  /\ vendor \in SUBSET Tools /\ tools = vendor /\ listing = vendor
  /\ refresh = [r \in Refreshes |-> [pc |-> "idle", got |-> {}]]
  /\ tangled = FALSE /\ changes = 0

Changes == changes < MaxChanges /\ changes' = changes + 1
VendorChanges(s) ==
  /\ s # vendor /\ vendor' = s /\ Changes
  /\ UNCHANGED <<tools, refresh, listing, tangled>>

Busy(r) == refresh[r].pc \notin {"idle", "done"}
Turns(r, label) == refresh' = [refresh EXCEPT ![r].pc = label,
                                               ![r].got = IF label = "done" THEN {} ELSE @]

\* refreshTools: the vendor answers, or does not.
ListsTools(r) ==
  /\ refresh[r].pc = "idle" /\ \A s \in Refreshes : s < r => refresh[s].pc # "idle"
  /\ refresh' = [refresh EXCEPT ![r] = [pc |-> "delete", got |-> vendor]]
  /\ tangled' = (tangled \/ \E s \in Refreshes : Busy(s))
  /\ UNCHANGED <<vendor, tools, listing, changes>>

VendorFails(r) ==
  /\ refresh[r].pc = "idle" /\ \A s \in Refreshes : s < r => refresh[s].pc # "idle"
  /\ Turns(r, "done") /\ Changes
  /\ UNCHANGED <<vendor, tools, listing, tangled>>

DeletesTools_Not(r) ==
  /\ refresh[r].pc = "delete"
  /\ Turns(r, IF refresh[r].got = {} THEN "done" ELSE "insert")
  /\ tools' = {t \in tools : t \notin refresh[r].got}
  /\ listing' = IF refresh[r].got = {} THEN {} ELSE listing
  /\ UNCHANGED <<vendor, tangled, changes>>

DeletesTools(r) ==
  /\ refresh[r].pc = "delete"
  /\ tools' = {}
  /\ listing' = IF refresh[r].got = {} THEN {} ELSE listing
  /\ Turns(r, IF refresh[r].got = {} THEN "done" ELSE "insert")
  /\ UNCHANGED <<vendor, tangled, changes>>

\* A name that is there by now fails the whole insert.
InsertsTools(r) ==
  /\ refresh[r].pc = "insert" /\ Turns(r, "done")
  /\ IF refresh[r].got \cap tools = {}
     THEN tools' = tools \cup refresh[r].got /\ listing' = refresh[r].got
     ELSE UNCHANGED <<tools, listing>>
  /\ UNCHANGED <<vendor, tangled, changes>>

\* A statement fails, or the process dies.
RefreshFails(r) ==
  /\ Busy(r) /\ Turns(r, "done") /\ Changes
  /\ tangled' = (tangled \/ refresh[r].pc = "insert")
  /\ UNCHANGED <<vendor, tools, listing>>

Next ==
  \/ \E s \in SUBSET Tools : VendorChanges(s)
  \/ \E r \in Refreshes :
       ListsTools(r) \/ VendorFails(r) \/ DeletesTools(r) \/ InsertsTools(r) \/ RefreshFails(r)

Spec == Init /\ [][Next]_vars

-----------------------------------------------------------------------------
TypeOK ==
  /\ vendor \subseteq Tools /\ tools \subseteq Tools /\ listing \subseteq Tools
  /\ refresh \in [Refreshes -> [pc : {"idle", "delete", "insert", "done"}, got : SUBSET Tools]]
  /\ tangled \in BOOLEAN /\ changes \in 0..MaxChanges

\* The tools held are one listing of the vendor's, or none while a refresh replaces
\* them ("Replaced wholesale, never merged"), unless refreshes overlapped or one
\* failed half way.
ListingPromise ==
  /\ TypeOK
  /\ ~tangled => \/ tools = listing
                 \/ tools = {} /\ \E r \in Refreshes : refresh[r].pc = "insert"

\* "never merged": the tools held were offered together.
NeverMerged == tools = {} \/ tools = listing

\* "The tools already held are left alone" by a refresh that fails.
ToolsLeftAlone ==
  (\A r \in Refreshes : ~Busy(r)) /\ tools = {} => listing = {}
==================================================================================
