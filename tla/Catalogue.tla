------------------------------ MODULE Catalogue ------------------------------
(***************************************************************************)
(* The components a Bot may answer with (components/store.ts, sandboxed.ts,*)
(* routes.ts): one that a build announces, the "chart", and one that is    *)
(* written in the playground, the "card", whose source has drafts too.     *)
(* Who holds a Bot back from one, and which organization let it read data. *)
(*                                                                         *)
(* A request is several statements and no transaction.                     *)
(***************************************************************************)
EXTENDS Naturals

CONSTANTS Bots, Nobody,
          Orgs, Belongs, \* Belongs[b] is the organization of Bot b
          Home,          \* the organization of the playground's card
          MaxCalls       \* bound: requests, numbered as they come

VARIABLES gov,      \* the components rows: drafts and wording are versions, 0 is null
          source,   \* the sandboxed_components row of the card
          withheld, \* component_exclusions
          granted,  \* component_functions: whose row lets a component read data
          version,  \* the last version written
          call,     \* the requests
          decided,  \* history: what administrators have withheld or switched off
          mixed,    \* history: the card was not published by one whole publish alone
          free      \* history: what a call that reads was allowed at some moment of it

vars == <<gov, source, withheld, granted, version, call, decided, mixed, free>>
rows == <<gov, source, withheld, granted, version>>

Names == {"chart", "card"}
Calls == 1..MaxCalls
NoRow == [there |-> FALSE, draft |-> 0, published |-> FALSE, wording |-> 0]
NoSource == [there |-> FALSE, draft |-> 0, published |-> 0]
Unborn == [kind |-> "none", name |-> Nobody, for |-> Nobody, read |-> 0, alone |-> FALSE,
           pc |-> "idle"]
Over == [Unborn EXCEPT !.pc = "over"]
Under(c) == call[c].pc \in {"write", "finish"}

\* visibleComponents.
Visible(n, o) == gov[n].there /\ (n = "card" => o = Home)
Published(n) == gov[n].published /\ gov[n].wording # 0

\* decide, and listForAgent.
MayUse(n, b) == Visible(n, Belongs[b]) /\ Published(n) /\ <<n, b>> \notin withheld
MayCall_Anybody(n, o) == granted[n] # Nobody
MayCall(n, o) == granted[n] = o

Init ==
  /\ gov = [n \in Names |-> NoRow] /\ source = NoSource
  /\ withheld = {} /\ granted = [n \in Names |-> Nobody] /\ version = 0
  /\ call = [c \in Calls |-> Unborn]
  /\ decided = [off |-> {}, held |-> {}] /\ mixed = FALSE /\ free = [c \in Calls |-> {}]

\* alone is history: no other request that releases the card or takes it away is beside it.
Releasing(d) == Under(d) /\ call[d].kind \in {"publish", "remove"}
Fresh(c) == call[c].pc = "idle" /\ \A d \in Calls : d < c => call[d].pc # "idle"
Begins(c, k, n, x, read) ==
  /\ Fresh(c)
  /\ call' = [d \in Calls |->
       IF d = c THEN [kind |-> k, name |-> n, for |-> x, read |-> read, pc |-> "write",
                      alone |-> \A e \in Calls : ~Releasing(e)]
       ELSE IF k \in {"publish", "remove"} THEN [call[d] EXCEPT !.alone = FALSE]
       ELSE call[d]]
Goes(c, pc) == call' = [call EXCEPT ![c].pc = pc]
Ends(c) == call' = [call EXCEPT ![c] = Over]
At(c, k, pc) == call[c].kind = k /\ call[c].pc = pc

-----------------------------------------------------------------------------
\* syncCatalogue: a build announces the chart.
Announces(c) ==
  /\ ~gov["chart"].there
  /\ Begins(c, "announce", "chart", Nobody, 0)
  /\ UNCHANGED <<rows, decided, mixed>>

Arrived_Anew == [there |-> TRUE, draft |-> version + 1, published |-> TRUE,
                 wording |-> version + 1]
Arrived ==
  IF gov["chart"].there THEN gov["chart"]
  ELSE [there |-> TRUE, draft |-> version + 1, published |-> TRUE, wording |-> version + 1]

Inserts(c) ==
  /\ At(c, "announce", "write")
  /\ gov' = [gov EXCEPT !["chart"] = Arrived] /\ version' = version + 1
  /\ Ends(c) /\ UNCHANGED <<source, withheld, granted, decided, mixed>>

\* save: the draft of the source, then the governance row, whose publication it leaves alone.
SavesSource(c) ==
  /\ version' = version + 1
  /\ source' = [source EXCEPT !.there = TRUE, !.draft = version']
  /\ Begins(c, "save", "card", Nobody, version')
  /\ UNCHANGED <<gov, withheld, granted, decided, mixed>>

SavesRow(c) ==
  /\ At(c, "save", "write")
  /\ gov' = [gov EXCEPT !["card"].there = TRUE, !["card"].draft = call[c].read]
  /\ Ends(c) /\ UNCHANGED <<source, withheld, granted, version, decided, mixed>>

\* publish of the playground: the source and the wording, of the row as it was read.
Publishes(c) ==
  /\ source.there
  /\ Begins(c, "publish", "card", Nobody, source.draft)
  /\ UNCHANGED <<rows, decided, mixed>>

PublishesSource(c) ==
  /\ At(c, "publish", "write")
  /\ source' = [source EXCEPT !.published = IF source.there THEN call[c].read ELSE @]
  /\ Goes(c, "finish") /\ UNCHANGED <<gov, withheld, granted, version, decided, mixed>>

Released(n, wording) ==
  IF gov[n].there THEN [gov EXCEPT ![n].published = TRUE, ![n].wording = wording] ELSE gov
Promoted_DraftOfTheRow(c) == gov["card"].draft
Promoted(c) == call[c].read

PublishesRow(c) ==
  /\ At(c, "publish", "finish")
  /\ gov' = Released("card", Promoted(c))
  /\ decided' = [decided EXCEPT !.off = @ \ {"card"}] /\ mixed' = ~call[c].alone
  /\ Ends(c) /\ UNCHANGED <<source, withheld, granted, version>>

\* remove of the playground: a component that is not its own is not found.
MayRemove_Any(n) == gov[n].there
MayRemove(n) == gov[n].there /\ n = "card"
Removes(c, n) ==
  /\ MayRemove(n)
  /\ Begins(c, "remove", n, Nobody, 0)
  /\ UNCHANGED <<rows, decided, mixed>>

RemovesSource(c) ==
  /\ At(c, "remove", "write")
  /\ source' = IF call[c].name = "card" THEN NoSource ELSE source
  /\ Goes(c, "finish") /\ UNCHANGED <<gov, withheld, granted, version, decided, mixed>>

\* The foreign keys take what was withheld and granted with the row.
RemovesRow(c) ==
  /\ At(c, "remove", "finish")
  /\ LET n == call[c].name IN
     /\ gov' = [gov EXCEPT ![n] = NoRow]
     /\ withheld' = {w \in withheld : w[1] # n} /\ granted' = [granted EXCEPT ![n] = Nobody]
     /\ decided' = [decided EXCEPT !.off = @ \ {"card"}, !.held = {w \in @ : w[1] # "card"}]
  /\ mixed' = (mixed \/ ~call[c].alone)
  /\ Ends(c) /\ UNCHANGED <<source, version>>

-----------------------------------------------------------------------------
\* An administrator of organization o, on the page of one component: requireComponent.
Administers == {"draft", "release", "unpublish", "allow"}
Requires(c, k, n, o) ==
  /\ k \in Administers /\ Visible(n, o)
  /\ Begins(c, k, n, o, gov[n].draft)
  /\ UNCHANGED <<rows, decided, mixed>>

RequiresFor(c, k, n, b) ==
  /\ k \in {"withhold", "grant"} /\ Visible(n, Belongs[b])
  /\ Begins(c, k, n, b, 0)
  /\ UNCHANGED <<rows, decided, mixed>>

SavesDraft(c) ==
  /\ At(c, "draft", "write")
  /\ version' = version + 1
  /\ gov' = [gov EXCEPT ![call[c].name].draft = IF gov[call[c].name].there THEN version' ELSE @]
  /\ Ends(c) /\ UNCHANGED <<source, withheld, granted, decided, mixed>>

\* publish of the store: the wording by itself.
Releases(c) ==
  /\ At(c, "release", "write")
  /\ gov' = Released(call[c].name, call[c].read)
  /\ decided' = [decided EXCEPT !.off = @ \ {call[c].name}]
  /\ mixed' = (mixed \/ call[c].name = "card")
  /\ Ends(c) /\ UNCHANGED <<source, withheld, granted, version>>

Unpublishes(c) ==
  /\ At(c, "unpublish", "write")
  /\ gov' = [gov EXCEPT ![call[c].name].published = FALSE]
  /\ decided' = [decided EXCEPT !.off = @ \cup {call[c].name}]
  /\ Ends(c) /\ UNCHANGED <<source, withheld, granted, version, mixed>>

\* revoke: a row that points at no component is refused by the foreign key.
Withholds(c) ==
  /\ At(c, "withhold", "write")
  /\ LET w == <<call[c].name, call[c].for>>
         new == IF gov[w[1]].there THEN {w} ELSE {}
     IN withheld' = withheld \cup new /\ decided' = [decided EXCEPT !.held = @ \cup new]
  /\ Ends(c) /\ UNCHANGED <<gov, source, granted, version, mixed>>

Grants(c) ==
  /\ At(c, "grant", "write")
  /\ LET w == <<call[c].name, call[c].for>>
     IN withheld' = withheld \ {w} /\ decided' = [decided EXCEPT !.held = @ \ {w}]
  /\ Ends(c) /\ UNCHANGED <<gov, source, granted, version, mixed>>

\* grantFunction: the key of the row has no organization, and a conflict is no error.
Allows(c) ==
  /\ At(c, "allow", "write")
  /\ LET n == call[c].name IN
     granted' = IF gov[n].there /\ granted[n] = Nobody
                THEN [granted EXCEPT ![n] = call[c].for] ELSE granted
  /\ Ends(c) /\ UNCHANGED <<gov, source, withheld, version, decided, mixed>>

\* revokeFunction, in one statement.
Disallows(c, n, o) ==
  /\ granted[n] = o
  /\ Fresh(c) /\ Ends(c)
  /\ granted' = [granted EXCEPT ![n] = Nobody]
  /\ UNCHANGED <<gov, source, withheld, version, decided, mixed>>

-----------------------------------------------------------------------------
\* A component that is drawn for Bot b reads its data: decide, mayCall, callFunction.
Decides(c, n, b) ==
  /\ MayUse(n, b)
  /\ Begins(c, "call", n, b, 0)
  /\ UNCHANGED <<rows, decided, mixed>>

Asks(c) ==
  /\ At(c, "call", "write")
  /\ IF MayCall(call[c].name, Belongs[call[c].for]) THEN Goes(c, "finish") ELSE Ends(c)
  /\ UNCHANGED <<rows, decided, mixed>>

Reads(c) ==
  /\ At(c, "call", "finish")
  /\ Goes(c, "ran")
  /\ UNCHANGED <<rows, decided, mixed>>

\* The replica stops.
Dies(c) ==
  /\ Under(c)
  /\ mixed' = (mixed \/ Releasing(c))
  /\ Ends(c) /\ UNCHANGED <<rows, decided>>

-----------------------------------------------------------------------------
Step ==
  \E c \in Calls :
    \/ Announces(c) \/ Inserts(c) \/ SavesSource(c) \/ SavesRow(c)
    \/ Publishes(c) \/ PublishesSource(c) \/ PublishesRow(c)
    \/ RemovesSource(c) \/ RemovesRow(c)
    \/ \E n \in Names :
         \/ Removes(c, n)
         \/ \E o \in Orgs : Disallows(c, n, o) \/ \E k \in Administers : Requires(c, k, n, o)
         \/ \E b \in Bots : \/ Decides(c, n, b)
                            \/ \E k \in {"withhold", "grant"} : RequiresFor(c, k, n, b)
    \/ SavesDraft(c) \/ Releases(c) \/ Unpublishes(c)
    \/ Withholds(c) \/ Grants(c) \/ Allows(c)
    \/ Asks(c) \/ Reads(c) \/ Dies(c)

Permits(c) ==
  IF call[c].kind # "call" THEN {}
  ELSE (IF MayUse(call[c].name, call[c].for) THEN {"use"} ELSE {})
       \cup (IF granted[call[c].name] = Belongs[call[c].for] THEN {"read"} ELSE {})

Next ==
  /\ Step
  /\ free' = [c \in Calls |-> IF call'[c].kind = "call" THEN free[c] \cup Permits(c)' ELSE {}]

Spec == Init /\ [][Next]_vars

-----------------------------------------------------------------------------
TypeOK ==
  /\ gov \in [Names -> [there : BOOLEAN, draft : 0..MaxCalls, published : BOOLEAN,
                       wording : 0..MaxCalls]]
  /\ withheld \subseteq Names \X Bots /\ granted \in [Names -> Orgs \cup {Nobody}]
  /\ version \in 0..MaxCalls

AsOffered == Published("card") => source.published = gov["card"].wording

\* What Bots are told of the card is what they draw, once a whole publish was alone
\* (sandboxed.ts, publish).
DrawnAsOffered == ~mixed /\ (\A c \in Calls : ~Releasing(c)) => AsOffered

\* A component that was withheld from a Bot or switched off stays so until an administrator
\* says otherwise, whatever builds announce and whatever is deleted (store.ts, syncCatalogue;
\* sandboxed.ts, remove).
DecisionsStand ==
  /\ \A n \in decided.off : ~Published(n)
  /\ \A w \in decided.held : ~MayUse(w[1], w[2])

\* Data is read only for a Bot that might use the component, in an organization that let it
\* read, at some moment of the call (routes.ts, POST /:name/call).
RevokedIsRevoked == \A c \in Calls : call[c].pc = "ran" => free[c] = {"use", "read"}

CataloguePromise == TypeOK /\ DrawnAsOffered /\ DecisionsStand /\ RevokedIsRevoked

\* "Either half on its own is a state nobody wants": no Bot is told of a card it cannot draw.
NoHalfAlone == (\A c \in Calls : ~Releasing(c)) => AsOffered

\* What was let is let for the organization that let it.
AllowedIsAllowed ==
  [][\A c \in Calls : Allows(c) /\ gov[call[c].name].there =>
       granted'[call[c].name] = call[c].for]_vars

\* "Revoke it and watch it go": nothing is read of what is not allowed any more.
NothingRevokedIsRead ==
  [][\A c \in Calls : Reads(c) =>
       /\ MayUse(call[c].name, call[c].for)
       /\ MayCall(call[c].name, Belongs[call[c].for])]_vars
=============================================================================
