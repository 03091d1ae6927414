--------------------------------- MODULE Crm ---------------------------------
(***************************************************************************)
(* One human in the CRM: the row of the person and how Bots find or make   *)
(* it, the sends to them, and what their mail reader reports               *)
(* (crm/store.ts, crm/deliver.ts, crm/gateway.ts, crm/routes.ts).          *)
(*                                                                         *)
(* Nothing here is a transaction: a request reads in one statement and     *)
(* writes in a later one.                                                  *)
(***************************************************************************)
EXTENDS Naturals, FiniteSets

CONSTANTS MaxSends, MaxEvents, MaxCreates, \* bounds: requests, numbered as they come
          MaxEdits                         \* bound: edits of the person

VARIABLES rows,     \* how many crm_people rows there are of this human
          person,   \* the do-not-contact flag and whether the stage is dnc, of the first
          create,   \* a Bot's creates
          send,     \* crm_sends, with where the request stands that made each
          event,    \* openings and clicks, and where the request of each stands
          edits,
          overlapped, \* history: two creates overlapped
          spared    \* history: the sends during which the person was marked all along

vars == <<rows, person, create, send, event, edits, overlapped, spared>>

Sends == 1..MaxSends
Events == 1..MaxEvents
Creates == 1..MaxCreates
Patches == [flag : {"same", "yes", "no"}, stage : {"same", "dnc", "lead"}]
Statuses == {"none", "queued", "logged", "sent", "opened", "clicked", "failed"}

Marked(p) == p.flag \/ p.stage = "dnc"

Unborn == [pc |-> "idle", patch |-> [flag |-> "same", stage |-> "same"]]
Unopened == [pc |-> "idle", send |-> 1, kind |-> "opened", seen |-> "none"]

Init ==
  /\ \/ rows = 1 /\ person \in [flag : BOOLEAN, stage : {"dnc", "lead"}]
     \/ rows = 0 /\ person = [flag |-> FALSE, stage |-> "lead"]
  /\ create = [c \in Creates |-> Unborn]
  /\ send = [s \in Sends |-> [pc |-> "idle", linked |-> FALSE, status |-> "none", out |-> FALSE,
                              outcome |-> "none", seen |-> "none", opens |-> 0, clicks |-> 0]]
  /\ event = [e \in Events |-> Unopened]
  /\ edits = 0 /\ overlapped = FALSE /\ spared = {}

InTurn(tbl, S, i) == tbl[i].pc = "idle" /\ \A j \in S : j < i => tbl[j].pc # "idle"
Stays(p) == spared' = IF Marked(p) THEN spared ELSE {}

-----------------------------------------------------------------------------
(* The person.                                                             *)

\* updatePerson: the dnc stage raises the flag and the flag sets the stage; neither is
\* lowered but by name.
Patched(p, f) ==
  [flag |-> f.flag = "yes" \/ (f.flag = "same" /\ (p.flag \/ f.stage = "dnc")),
   stage |-> IF f.flag = "yes" THEN "dnc" ELSE IF f.stage # "same" THEN f.stage ELSE p.stage]

\* createPerson.
Fresh(f) == [flag |-> f.flag = "yes" \/ f.stage = "dnc",
             stage |-> IF f.stage = "dnc" THEN "dnc" ELSE "lead"]

Edits(f) ==
  /\ rows > 0 /\ edits < MaxEdits /\ edits' = edits + 1
  /\ person' = Patched(person, f) /\ Stays(person')
  /\ UNCHANGED <<rows, create, send, event, overlapped>>

\* crm_create: existingPerson looks, and what is found is updated instead.
Looks(c, f) ==
  /\ InTurn(create, Creates, c)
  /\ create' = [create EXCEPT ![c] = [pc |-> IF rows = 0 THEN "insert" ELSE "update",
                                      patch |-> f]]
  /\ overlapped' = (overlapped \/ \E d \in Creates : create[d].pc \in {"insert", "update"})
  /\ UNCHANGED <<rows, person, send, event, edits, spared>>

Writes(c) ==
  /\ create[c].pc \in {"insert", "update"}
  /\ create' = [create EXCEPT ![c] = [Unborn EXCEPT !.pc = "over"]]
  /\ IF create[c].pc = "update"
     THEN person' = Patched(person, create[c].patch) /\ UNCHANGED rows
     ELSE rows' = rows + 1 /\ person' = IF rows = 0 THEN Fresh(create[c].patch) ELSE person
  /\ Stays(person')
  /\ UNCHANGED <<send, event, edits, overlapped>>

-----------------------------------------------------------------------------
(* Sends.                                                                  *)

Steps(s, label) == send' = [send EXCEPT ![s].pc = label]

\* A send names the person, or only an address of theirs.
Begins(s, linked) ==
  /\ rows > 0 /\ InTurn(send, Sends, s)
  /\ send' = [send EXCEPT ![s].pc = "check", ![s].linked = linked]
  /\ spared' = IF Marked(person) THEN spared \cup {s} ELSE spared
  /\ UNCHANGED <<rows, person, create, event, edits, overlapped>>

\* createSend: the check, and later the row.
Blocked_Flag(p) == p.flag

Blocked(p) == p.flag \/ p.stage = "dnc"

Checks(s) ==
  /\ send[s].pc = "check"
  /\ Steps(s, IF send[s].linked /\ Blocked(person) THEN "blocked" ELSE "insert")
  /\ UNCHANGED <<rows, person, create, event, edits, overlapped, spared>>

Inserts(s) ==
  /\ send[s].pc = "insert"
  /\ send' = [send EXCEPT ![s].pc = "deliver", ![s].status = "queued"]
  /\ UNCHANGED <<rows, person, create, event, edits, overlapped, spared>>

\* attemptDelivery; a message can have left although the attempt failed.
Delivers(s, outcome, out) ==
  /\ send[s].pc = "deliver"
  /\ outcome = "logged" => ~out
  /\ outcome = "sent" => out
  /\ send' = [send EXCEPT ![s].pc = "update", ![s].outcome = outcome, ![s].out = out]
  /\ UNCHANGED <<rows, person, create, event, edits, overlapped, spared>>

\* updateSend, whatever the status is by now.
Updates(s) ==
  /\ send[s].pc = "update"
  /\ send' = [send EXCEPT ![s].pc = IF send[s].outcome = "logged" THEN "over" ELSE "read",
                          ![s].status = send[s].outcome]
  /\ UNCHANGED <<rows, person, create, event, edits, overlapped, spared>>

Rank(st) == CASE st = "none" -> 0 [] st = "queued" -> 1 [] st = "logged" -> 2 [] st = "sent" -> 3
              [] st = "opened" -> 5 [] st = "clicked" -> 6 [] st = "failed" -> 7
NextStatus(current, new) ==
  IF current = "failed" THEN current ELSE IF Rank(new) >= Rank(current) THEN new ELSE current

\* recordSendEvent of the outcome: the status is read and the event inserted; the
\* status is written later, by what was read.
ReadsSend(s) ==
  /\ send[s].pc = "read"
  /\ send' = [send EXCEPT ![s].pc = "write", ![s].seen = send[s].status]
  /\ UNCHANGED <<rows, person, create, event, edits, overlapped, spared>>

Settled(seen, new, st) == IF NextStatus(seen, new) # seen THEN NextStatus(seen, new) ELSE st

WritesSend(s) ==
  /\ send[s].pc = "write"
  /\ send' = [send EXCEPT ![s].pc = "over", ![s].seen = "none",
                          ![s].status = Settled(send[s].seen, send[s].outcome, @)]
  /\ UNCHANGED <<rows, person, create, event, edits, overlapped, spared>>

\* The reader of a message that left loads the pixel or follows a link.
Tracked(s, k) == [send EXCEPT ![s].opens = @ + IF k = "opened" THEN 1 ELSE 0,
                              ![s].clicks = @ + IF k = "clicked" THEN 1 ELSE 0]

Opens(e, s, k) ==
  /\ InTurn(event, Events, e) /\ send[s].out
  /\ event' = [event EXCEPT ![e] = [pc |-> "write", send |-> s, kind |-> k,
                                    seen |-> send[s].status]]
  /\ send' = Tracked(s, k)
  /\ UNCHANGED <<rows, person, create, edits, overlapped, spared>>

Reports(e) ==
  /\ event[e].pc = "write" /\ event' = [event EXCEPT ![e] = [Unopened EXCEPT !.pc = "over"]]
  /\ send' = [send EXCEPT ![event[e].send].status = Settled(event[e].seen, event[e].kind, @)]
  /\ UNCHANGED <<rows, person, create, edits, overlapped, spared>>

Next ==
  \/ \E f \in Patches : Edits(f) \/ \E c \in Creates : Looks(c, f)
  \/ \E c \in Creates : Writes(c)
  \/ \E s \in Sends :
       \/ \E b \in BOOLEAN : \/ Begins(s, b)
                             \/ \E o \in {"logged", "sent", "failed"} : Delivers(s, o, b)
       \/ Checks(s) \/ Inserts(s) \/ Updates(s) \/ ReadsSend(s) \/ WritesSend(s)
       \/ \E e \in Events, k \in {"opened", "clicked"} : Opens(e, s, k)
  \/ \E e \in Events : Reports(e)

Spec == Init /\ [][Next]_vars

-----------------------------------------------------------------------------
TypeOK ==
  /\ rows \in 0..MaxCreates + 1 /\ person \in [flag : BOOLEAN, stage : {"dnc", "lead"}]
  /\ \A s \in Sends : send[s].status \in Statuses /\ send[s].seen \in Statuses
  /\ spared \subseteq Sends /\ overlapped \in BOOLEAN /\ edits \in 0..MaxEdits

\* deriveThreadStatus, of what can happen here.
ThreadStatus(s) ==
  IF send[s].status = "failed" THEN "failed"
  ELSE IF send[s].clicks > 0 \/ send[s].status = "clicked" THEN "clicked"
  ELSE IF send[s].opens > 0 \/ send[s].status = "opened" THEN "opened"
  ELSE send[s].status

\* Nothing is sent in the name of a person who was marked all along, whichever of the
\* two marks it was and whatever a Bot's create writes meanwhile; a thread that was
\* opened or clicked says so, or that it failed, though statuses overtake each other;
\* and creates that do not overlap leave one row.
CrmPromise ==
  /\ TypeOK
  /\ \A s \in spared : send[s].linked => ~send[s].out
  /\ \A s \in Sends : ThreadStatus(s) # "failed" =>
       /\ send[s].clicks > 0 => ThreadStatus(s) = "clicked"
       /\ send[s].opens > 0 => ThreadStatus(s) \in {"opened", "clicked"}
  /\ ~overlapped => rows <= 1

\* A status only rises ("rank[next] >= rank[current]").
StatusNeverFalls ==
  [][\A s \in Sends : Rank(send'[s].status) >= Rank(send[s].status)]_vars

\* "A DNC person cannot be emailed": nothing leaves while the person is marked.
NoSendToMarked ==
  [][\A s \in Sends : ~send[s].out /\ send'[s].out => ~Marked(person)]_vars

\* Two creates of the same human are one row.
OneRowPerHuman == rows <= 1
==============================================================================
