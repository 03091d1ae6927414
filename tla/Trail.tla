-------------------------------- MODULE Trail --------------------------------
(***************************************************************************)
(* Decide, record, act: the audit rows of what a Bot or a person does to a *)
(* computer, to somebody else's MCP server or to the CRM, and the claim on *)
(* a shared computer (computer/gateway.ts, computer/shared-claim.ts,       *)
(* plugins/store.ts, crm/gateway.ts).                                      *)
(*                                                                         *)
(* A call is followed from the gateway to its last row.  Which actions the *)
(* policy permits and which have to wait for a card is left open; what     *)
(* fails is a call to the computer or the vendor, a statement, a process.  *)
(***************************************************************************)
EXTENDS Naturals, FiniteSets

CONSTANTS Orgs,
          MaxCalls,  \* bound: calls, numbered as they come
          MaxTrouble \* bound: failed statements and processes that die

\* "nobody" stands for a row that is not there, and no organization is called so.
ASSUME OrgsAssumption == "nobody" \notin Orgs

VARIABLES call,    \* what each call does, for whom, where it is, and how it stands
          rows,    \* audit_events: the call and what the row says of it
          touched, \* the calls whose effect reached the other side, if only in part
          owner,   \* shared_computer_claim: the organization, or "nobody"
          trouble,
          hit      \* history: the calls that trouble ended

vars == <<call, rows, touched, owner, trouble, hit>>

Calls == 1..MaxCalls
Bots == {"computer", "mcp", "crm"} \* what a Bot asks for, and the policy decides
Kinds == Bots \cup {"handover", "stop", "reset"}
Unborn == [kind |-> "none", org |-> "nobody", pc |-> "idle", verdict |-> "none", done |-> FALSE]
Row(c, what) == [call |-> c, says |-> what]

Init ==
  /\ call = [c \in Calls |-> Unborn]
  /\ rows = {} /\ touched = {} /\ owner = "nobody" /\ trouble = 0 /\ hit = {}

At(c, label) == call[c].pc = label
Goes(c, label) == call' = [call EXCEPT ![c].pc = label]
First(k) == CASE k \in Bots -> "decide" [] k = "handover" -> "locate" [] OTHER -> "act"

Begins(c, k, o) ==
  /\ At(c, "idle") /\ \A d \in Calls : d < c => ~At(d, "idle")
  /\ call' = [call EXCEPT ![c].kind = k, ![c].org = o, ![c].pc = First(k)]
  /\ UNCHANGED <<rows, touched, owner, trouble, hit>>

\* The policy: a refusal in dry run is carried out, and its row says that it is.  The
\* computer's row comes at once, the others' after the wait, and a refusal's at once.
AfterDecision_NoRow(k, v) == IF k = "computer" \/ v = "refused" THEN "row" ELSE "act"

AfterDecision(k, v) == IF k = "computer" \/ v = "refused" THEN "row" ELSE "wait"

Decides(c, v) ==
  /\ At(c, "decide")
  /\ call' = [call EXCEPT ![c].verdict = v, ![c].pc = AfterDecision(call[c].kind, v)]
  /\ UNCHANGED <<rows, touched, owner, trouble, hit>>

\* A row of the decision, which permits what it says is carried out, or of what a
\* person did.
Records(c) ==
  /\ At(c, "row")
  /\ rows' = rows \cup {Row(c, IF call[c].verdict = "refused" THEN "refused"
                               ELSE IF call[c].kind \in Bots THEN "permitted" ELSE "happened")}
  /\ Goes(c, IF call[c].kind \notin Bots \/ call[c].verdict = "refused" THEN "over"
             ELSE IF call[c].kind = "computer" THEN "wait" ELSE "act")
  /\ UNCHANGED <<touched, owner, trouble, hit>>

\* highRiskWait: a card instead of the action.
Waits(c, card) ==
  /\ At(c, "wait")
  /\ IF card THEN call' = [call EXCEPT ![c].verdict = "card", ![c].pc = "over"]
     ELSE Goes(c, IF call[c].kind = "computer" THEN "locate" ELSE "row")
  /\ UNCHANGED <<rows, touched, owner, trouble, hit>>

\* locate: the first organization has the shared computer for good.  A refusal is an
\* action that did not happen.
Admitted_Anyone(c) == TRUE

Admitted(c) == owner \in {"nobody", call[c].org}

Locates(c) ==
  /\ At(c, "locate")
  /\ owner' = IF owner = "nobody" THEN call[c].org ELSE owner
  /\ Goes(c, IF Admitted(c) THEN "act" ELSE IF call[c].kind = "computer" THEN "fail" ELSE "over")
  /\ UNCHANGED <<rows, touched, trouble, hit>>

AfterActing(k) ==
  CASE k \in Bots -> "over" [] k = "reset" -> "clear" [] OTHER -> "row"

Acts(c) ==
  /\ At(c, "act") /\ touched' = touched \cup {c}
  /\ call' = [call EXCEPT ![c].done = TRUE, ![c].pc = AfterActing(call[c].kind)]
  /\ UNCHANGED <<rows, owner, trouble, hit>>

\* The other side fails, before or after something happened there.
ActFails(c, partly) ==
  /\ At(c, "act") /\ touched' = IF partly THEN touched \cup {c} ELSE touched
  /\ Goes(c, IF call[c].kind = "computer" THEN "fail" ELSE "over")
  /\ UNCHANGED <<rows, owner, trouble, hit>>

RecordsFailure(c) ==
  /\ At(c, "fail") /\ Goes(c, "over")
  /\ rows' = rows \cup {Row(c, "failed")}
  /\ UNCHANGED <<touched, owner, trouble, hit>>

\* resetComputer: the snapshot of the page that is gone goes too, before the row.
Clears(c) ==
  /\ At(c, "clear") /\ Goes(c, "row")
  /\ UNCHANGED <<rows, touched, owner, trouble, hit>>

\* A statement of the call fails and is thrown, or its process dies.
IsHit(c) ==
  /\ call[c].pc \notin {"idle", "over"} /\ trouble < MaxTrouble /\ trouble' = trouble + 1
  /\ Goes(c, "over") /\ hit' = hit \cup {c}
  /\ UNCHANGED <<rows, touched, owner>>

Next ==
  \E c \in Calls :
    \/ \E k \in Kinds, o \in Orgs : Begins(c, k, o)
    \/ \E v \in {"refused", "dry", "allowed"} : Decides(c, v)
    \/ \E b \in BOOLEAN : Waits(c, b) \/ ActFails(c, b)
    \/ Records(c) \/ Locates(c) \/ Acts(c) \/ RecordsFailure(c) \/ Clears(c) \/ IsHit(c)

Spec == Init /\ [][Next]_vars

-----------------------------------------------------------------------------
TypeOK ==
  /\ call \in [Calls -> [kind : Kinds \cup {"none"}, org : Orgs \cup {"nobody"},
                         verdict : {"none", "refused", "dry", "allowed", "card"},
                         pc : {"idle", "decide", "row", "wait", "locate", "act", "fail",
                               "clear", "over"}, done : BOOLEAN]]
  /\ rows \subseteq [call : Calls, says : {"permitted", "refused", "failed", "happened"}]
  /\ touched \subseteq Calls /\ hit \subseteq Calls
  /\ owner \in Orgs \cup {"nobody"} /\ trouble \in Nat

Says(c, what) == Row(c, what) \in rows
Ended(c) == At(c, "over") /\ c \notin hit

\* Nothing a Bot asked for reached the other side without a row that permits it, and
\* nothing that was refused or waits for a card did; a computer action that was
\* permitted has happened, waits, or has a row that says it failed, unless trouble
\* ended the call; and only one organization reached a shared computer.
TrailPromise ==
  /\ TypeOK
  /\ \A c \in touched : call[c].kind \in Bots => Says(c, "permitted")
  /\ \A c \in Calls : call[c].verdict \in {"refused", "card"} => c \notin touched
  /\ \A c \in Calls : call[c].kind = "computer" /\ Ended(c) /\ Says(c, "permitted") =>
       call[c].done \/ call[c].verdict = "card" \/ Says(c, "failed")
  /\ \A c, d \in touched : {call[c].kind, call[d].kind} \subseteq {"computer", "handover"} =>
       call[c].org = call[d].org

\* "the row is written whatever happens next": of a reset.
ResetIsAlwaysRecorded ==
  \A c \in touched : call[c].kind = "reset" /\ At(c, "over") => Says(c, "happened")

\* "A permitted action that did not happen gets its own row."
PermittedMeansDone ==
  \A c \in Calls : call[c].kind = "computer" /\ Ended(c) /\ Says(c, "permitted") =>
    call[c].done \/ Says(c, "failed")

\* The row of a call to an MCP server says mcp.call_succeeded.
SucceededMeansSucceeded ==
  \A c \in Calls : call[c].kind = "mcp" /\ Ended(c) /\ Says(c, "permitted") => call[c].done
==============================================================================
