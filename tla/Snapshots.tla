---------------------------- MODULE Snapshots ----------------------------
(***************************************************************************)
(* How a reference to an element on a Bot's page becomes an element: the   *)
(* computer counts snapshot generations in its own memory, the server      *)
(* keeps one row per computer that the policy reads, and a click is        *)
(* decided on the row and carried out on the page.                         *)
(*                                                                         *)
(* A reference is abstracted to the document it belongs to: within one     *)
(* document Playwright never gives a reference to a second element, and    *)
(* across two documents the same reference means two things.               *)
(***************************************************************************)
EXTENDS Naturals, FiniteSets

CONSTANTS Snappers,     \* snapshot calls, on whichever replica
          Clickers,     \* click, type and key calls, on whichever replica
          MaxGen,       \* bound on the generation counter
          MaxPages,     \* bound on the documents the browser shows
          MaxRestarts,  \* bound on restarts of the computer's process
          MaxResets     \* bound on resets

VARIABLES gen,       \* session.snapshotId, in the computer's process
          page,      \* the document the browser shows
          latest,    \* the document of Playwright's most recent snapshot, 0 none
          row,       \* the computer_snapshot row
          snap,      \* the snapshot calls
          click,     \* the acting calls
          held,      \* the references the model was given: generation, document
          navigating, \* a navigation between goto and the generation it adds
          clearing,  \* a reset between the provider's answer and the clear
          recreates, \* whether a reset starts a new process: a computer with a
                     \* container of its own, not the shared one
          overlapped, \* history: the computer has served two calls at once
          restarts, resets

vars == <<gen, page, latest, row, snap, click, held, navigating, clearing,
          recreates, overlapped, restarts, resets>>
computer == <<gen, page, latest>>
budget == <<recreates, restarts, resets>>

NoRow == [id |-> 0, page |-> 0]
Refs == [id : 1..MaxGen, page : 1..MaxPages]
Idle == [pc |-> "idle", id |-> 0, page |-> 0]
Unseen == 0   \* the element a reference that does not resolve stands for

Init ==
  /\ gen = 0 /\ page = 1 /\ latest = 0
  /\ row = NoRow
  /\ snap = [s \in Snappers |-> Idle]
  /\ click = [c \in Clickers |-> [pc |-> "idle", ref |-> NoRow, element |-> Unseen,
                                  acted |-> 0]]
  /\ held = {}
  /\ navigating = FALSE /\ clearing = FALSE
  /\ recreates \in BOOLEAN /\ overlapped = FALSE
  /\ restarts = 0 /\ resets = 0

---------------------------------------------------------------------------
(* The computer.                                                           *)

\* A call is at the computer, waiting for the browser.
Busy == \/ navigating
        \/ \E s \in Snappers : snap[s].pc = "capturing"
        \/ \E c \in Clickers : click[c].pc = "checked"

\* A call gets to the computer, which serves calls as they come.
Arrives == overlapped' = (overlapped \/ Busy)

Bumped_Twice == gen + 2

Bumped_OnlyFirst == IF gen = 0 THEN 1 ELSE gen

Bumped == gen + 1

\* POST /snapshot: snapshotPage adds one and waits for the aria snapshot.
BeginSnapshot(s) ==
  /\ snap[s].pc = "idle" /\ gen < MaxGen
  /\ Arrives
  /\ gen' = Bumped
  /\ snap' = [snap EXCEPT ![s].pc = "capturing"]
  /\ UNCHANGED <<page, latest, row, click, held, navigating, clearing, budget>>

\* The aria snapshot is there: the answer reads the counter a second time.
Capture(s) ==
  /\ snap[s].pc = "capturing"
  /\ latest' = page
  /\ snap' = [snap EXCEPT ![s] = [pc |-> "captured", id |-> gen, page |-> page]]
  /\ UNCHANGED <<gen, page, row, click, held, navigating, clearing, budget, overlapped>>

\* A snapshot call that never answers (a time-out, a page that is gone).
SnapshotFails(s) ==
  /\ snap[s].pc \in {"capturing", "captured"}
  /\ snap' = [snap EXCEPT ![s] = Idle]
  /\ UNCHANGED <<computer, row, click, held, navigating, clearing, budget, overlapped>>

\* POST /navigate: goto loads a new document ...
Goto ==
  /\ ~navigating /\ gen < MaxGen /\ page < MaxPages
  /\ Arrives
  /\ page' = page + 1
  /\ navigating' = TRUE
  /\ UNCHANGED <<gen, latest, row, snap, click, held, clearing, budget>>

\* ... and the generation is added when it has returned.
Navigated ==
  /\ navigating /\ gen < MaxGen
  /\ gen' = gen + 1
  /\ navigating' = FALSE
  /\ UNCHANGED <<page, latest, row, snap, click, held, clearing, budget, overlapped>>

\* The process of a computer ends: what it kept in memory is gone, the call it
\* was serving fails, and its browser starts on a new document.
FreshProcess ==
  /\ gen' = 0 /\ latest' = 0 /\ navigating' = FALSE
  /\ snap' = [s \in Snappers |->
                IF snap[s].pc = "capturing" THEN Idle ELSE snap[s]]
  /\ click' = [c \in Clickers |->
                 IF click[c].pc = "checked" THEN [click[c] EXCEPT !.pc = "idle"]
                                            ELSE click[c]]

\* A stopped container, a redeployment, or a session that was forgotten because
\* its browser was not running: stopComputer leaves the row.
Restart ==
  /\ restarts < MaxRestarts /\ page < MaxPages
  /\ page' = page + 1
  /\ restarts' = restarts + 1
  /\ FreshProcess
  /\ UNCHANGED <<row, held, clearing, recreates, resets, overlapped>>

---------------------------------------------------------------------------
(* The gateway.                                                            *)

Saved_LastWriteWins(id, p) == [id |-> id, page |-> p]

\* createSnapshotStore.save: an upsert that only ever moves forward.
Saved(id, p) ==
  IF row = NoRow \/ row.id < id THEN [id |-> id, page |-> p] ELSE row

\* gateway.snapshot: the row is written before the references are handed out.
Save(s) ==
  /\ snap[s].pc = "captured"
  /\ row' = Saved(snap[s].id, snap[s].page)
  /\ held' = held \union {[id |-> snap[s].id, page |-> snap[s].page]}
  /\ snap' = [snap EXCEPT ![s] = Idle]
  /\ UNCHANGED <<computer, click, navigating, clearing, budget, overlapped>>

Resolved_AnyGeneration(ref) == row.page

\* gateway.resolve: the element, when the generations are the same one.
Resolved(ref) == IF row.id = ref.id THEN row.page ELSE Unseen

\* govern: load the row, decide and write the audit row, on this replica.
Decide(c) ==
  /\ click[c].pc \in {"idle", "acted"}
  /\ \E ref \in held :
       click' = [click EXCEPT ![c] = [pc |-> "decided", ref |-> ref,
                                      element |-> Resolved(ref), acted |-> 0]]
  /\ UNCHANGED <<computer, row, snap, held, navigating, clearing, budget, overlapped>>

\* locateRef: the computer's own check of the generation.
Accepts(ref) == ref.id = gen

Accepts_Anything(ref) == TRUE

Check(c) ==
  /\ click[c].pc = "decided"
  /\ Arrives
  /\ click' = [click EXCEPT ![c].pc =
                 IF Accepts(click[c].ref) THEN "checked" ELSE "idle"]
  /\ UNCHANGED <<computer, row, snap, held, navigating, clearing, budget>>

\* resolveRef and the action: Playwright resolves a reference against the most
\* recent snapshot, and only while its element is still in the document.
Act(c) ==
  /\ click[c].pc = "checked"
  /\ latest = page
  /\ click' = [click EXCEPT ![c].pc = "acted", ![c].acted = latest]
  /\ page' \in {page} \union (IF page < MaxPages THEN {page + 1} ELSE {})
  /\ UNCHANGED <<gen, latest, row, snap, held, navigating, clearing, budget, overlapped>>

\* Nothing on the page has that reference.
Refuse(c) ==
  /\ click[c].pc = "checked" /\ latest # page
  /\ click' = [click EXCEPT ![c].pc = "idle"]
  /\ UNCHANGED <<computer, row, snap, held, navigating, clearing, budget, overlapped>>

\* resetComputer: the provider's reset. The shared computer keeps its process and
\* its counter; a computer with a container of its own gets a new one.
Reset ==
  /\ resets < MaxResets /\ ~clearing /\ page < MaxPages
  /\ page' = page + 1
  /\ resets' = resets + 1
  /\ clearing' = TRUE
  /\ IF recreates THEN FreshProcess
     ELSE latest' = 0 /\ UNCHANGED <<gen, snap, click, navigating>>
  /\ UNCHANGED <<row, held, recreates, restarts, overlapped>>

\* snapshots.clear, when the provider has answered.
Clear ==
  /\ clearing
  /\ row' = NoRow
  /\ clearing' = FALSE
  /\ UNCHANGED <<computer, snap, click, held, navigating, budget, overlapped>>

Next ==
  \/ \E s \in Snappers : \/ BeginSnapshot(s) \/ Capture(s)
                         \/ SnapshotFails(s) \/ Save(s)
  \/ \E c \in Clickers : Decide(c) \/ Check(c) \/ Act(c) \/ Refuse(c)
  \/ Goto \/ Navigated \/ Restart \/ Reset \/ Clear

Spec == Init /\ [][Next]_vars

---------------------------------------------------------------------------
\* Every variable has its type (computer_snapshot and BotSession).
TypeOK ==
  /\ gen \in 0..MaxGen /\ page \in 1..MaxPages /\ latest \in 0..MaxPages
  /\ row \in Refs \union {NoRow}
  /\ snap \in [Snappers -> [pc : {"idle", "capturing", "captured"},
                            id : 0..MaxGen, page : 0..MaxPages]]
  /\ click \in [Clickers -> [pc : {"idle", "decided", "checked", "acted"},
                             ref : Refs \union {NoRow}, element : 0..MaxPages,
                             acted : 0..MaxPages]]
  /\ held \subseteq Refs
  /\ {navigating, clearing, recreates, overlapped} \subseteq BOOLEAN
  /\ restarts \in 0..MaxRestarts /\ resets \in 0..MaxResets

\* What the policy decided on is what the call acted on: an acting call that
\* happened was decided on no element at all or on an element of the document
\* it touched, whichever replicas took the snapshot, decided and acted (the
\* promise in the header of snapshot-store.ts). Always so in
\* DecidedOnWhatWasTouched; in CalmDecisions while the computer keeps its
\* process and serves one call at a time.
DecidedOnWhatWasTouched ==
  \A c \in Clickers :
    click[c].pc = "acted" => click[c].element \in {Unseen, click[c].acted}

Renewed == restarts > 0 \/ (recreates /\ resets > 0)

CalmDecisions == Renewed \/ overlapped \/ DecidedOnWhatWasTouched

\* A decision names an element only if a snapshot the model was given under the
\* reference's own generation described it, through restarts, resets and saves
\* that overlap (gateway.resolve, "only against the one it came from").
DecidedOnASnapshotOfItsGeneration ==
  \A c \in Clickers :
    click[c].pc \in {"decided", "checked"} /\ click[c].element # Unseen =>
      [id |-> click[c].ref.id, page |-> click[c].element] \in held

\* Saves that arrive out of order never hide the newest snapshot, however calls
\* overlap: until a restart or a reset, a reference the computer would still
\* accept is one the row resolves (the guard on save's upsert).
LiveReferenceResolves ==
  restarts + resets = 0 => \A ref \in held : Accepts(ref) => row.id = ref.id

\* The generation tells snapshots apart: two snapshots of different documents
\* never carry one generation (the comment on the store's save: "The generation
\* is stamped by the computer and increases by one per snapshot"). Always so in
\* OneGenerationPerDocument; in CalmGenerations while the computer keeps its
\* process and serves one call at a time.
OneGenerationPerDocument ==
  \A r1, r2 \in held : r1.id = r2.id => r1.page = r2.page

CalmGenerations == Renewed \/ overlapped \/ OneGenerationPerDocument

\* What calls that come one at a time can rely on (the premise of both above),
\* with the types of the row, the counter and the calls.
CalmReplicas == TypeOK /\ CalmDecisions /\ CalmGenerations
===========================================================================
