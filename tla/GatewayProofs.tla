---------------------------- MODULE GatewayProofs ----------------------------
(***************************************************************************)
(* The promise of the trail, for any number of organizations and calls and *)
(* whatever fails; and what a snapshot's generation is worth, for any      *)
(* number of replicas' snapshots and acting calls.                         *)
(***************************************************************************)
EXTENDS Gateway, TLAPS

Shared == {"computer", "handover"}

\* The rows say nothing of the call yet.
Unrecorded(c) == \A r \in rows : r.call # c

\* What a call has behind it, by where it is.
BeforeTheWait(c) ==
  /\ At(c, "idle") => call[c].kind = "none" /\ call[c].verdict = "none"
  /\ At(c, "decide") => call[c].kind \in Bots
  /\ At(c, "idle") \/ At(c, "decide") => c \notin touched /\ Unrecorded(c)
  /\ At(c, "row") => IF call[c].kind \in Bots
                     THEN /\ c \notin touched
                          /\ call[c].verdict \in {"refused", "dry", "allowed"}
                          /\ call[c].kind = "computer" => Unrecorded(c)
                     ELSE call[c].verdict = "none"

Going(c) == call[c].kind \in Bots =>
              Says(c, "permitted") /\ call[c].verdict \in {"dry", "allowed"}

FromTheWait(c) ==
  /\ At(c, "wait") => /\ call[c].kind \in Bots /\ c \notin touched
                      /\ call[c].verdict \in {"dry", "allowed"}
                      /\ call[c].kind = "computer" => Says(c, "permitted")
  /\ At(c, "locate") => call[c].kind \in Shared /\ c \notin touched
  /\ At(c, "locate") \/ At(c, "act") =>
       Going(c) /\ (call[c].kind \notin Bots => call[c].verdict = "none")
  /\ At(c, "act") => /\ c \notin touched
                     /\ call[c].kind \in Shared => owner = call[c].org
  /\ At(c, "fail") => call[c].kind = "computer"
  /\ At(c, "clear") => call[c].kind = "reset" /\ call[c].verdict = "none"

\* What is known of a call that reached the other side, and of one that is over.
Afterwards(c) ==
  /\ ~At(c, "idle") => call[c].org \in Orgs
  /\ c \in touched => /\ ~At(c, "idle")
                      /\ call[c].kind \in Bots => Says(c, "permitted")
                      /\ call[c].verdict \notin {"refused", "card"}
                      /\ call[c].kind \in Shared => owner = call[c].org
  /\ call[c].kind = "computer" /\ Ended(c) /\ Says(c, "permitted") =>
       call[c].done \/ call[c].verdict = "card" \/ Says(c, "failed")

Behind(c) == BeforeTheWait(c) /\ FromTheWait(c) /\ Afterwards(c)

IInv == TypeOK /\ \A c \in Calls : Behind(c)

\* The strengthening holds before the first call.
LEMMA InitBehind == Init => IInv
  BY DEF Init, IInv, TypeOK, Behind, BeforeTheWait, FromTheWait, Afterwards, Unborn, At, Ended,
         Going, Unrecorded, Says, Bots, Shared

\* What is behind a call stays behind it when another one steps: its rows and its
\* effects are its own, and the computer keeps its owner.
LEMMA OthersStay ==
  ASSUME "nobody" \notin Orgs, NEW d \in Calls, Behind(d),
         call'[d] = call[d],
         \A what : Row(d, what) \in rows' <=> Row(d, what) \in rows,
         Unrecorded(d) => Unrecorded(d)',
         d \in touched' <=> d \in touched,
         d \in hit' <=> d \in hit,
         owner # "nobody" => owner' = owner
  PROVE  Behind(d)'
<1>1. BeforeTheWait(d)'
  BY DEF Behind, BeforeTheWait, At
<1>2. call[d].pc # "idle" => call[d].org \in Orgs
  BY DEF Behind, Afterwards, At
<1>3. FromTheWait(d)'
  BY <1>2 DEF Behind, FromTheWait, At, Going, Says
<1>4. Afterwards(d)'
  BY <1>2 DEF Behind, Afterwards, At, Ended, Says
<1> QED
  BY <1>1, <1>3, <1>4 DEF Behind

\* A step of a call leaves the others alone.
LEMMA StepOfACall ==
  ASSUME IInv, NEW c \in Calls, NEW k \in Kinds, NEW o \in Orgs,
         NEW v \in {"refused", "dry", "allowed"}, NEW b \in BOOLEAN,
         \/ Begins(c, k, o) \/ Decides(c, v) \/ Waits(c, b) \/ ActFails(c, b)
         \/ Records(c) \/ Locates(c) \/ Acts(c) \/ RecordsFailure(c) \/ Clears(c) \/ IsHit(c)
  PROVE  /\ TypeOK'
         /\ \A d \in Calls : d # c =>
              /\ call'[d] = call[d]
              /\ \A what : Row(d, what) \in rows' <=> Row(d, what) \in rows
              /\ Unrecorded(d) => Unrecorded(d)'
              /\ d \in touched' <=> d \in touched
              /\ d \in hit' <=> d \in hit
         /\ owner # "nobody" => owner' = owner
<1> USE DEF IInv, TypeOK, At, Goes, Row, Unrecorded, Kinds, Bots
<1>1. CASE Begins(c, k, o)
  BY <1>1 DEF Begins, First
<1>2. CASE Decides(c, v)
  BY <1>2 DEF Decides, AfterDecision
<1>3. CASE Waits(c, b)
  BY <1>3 DEF Waits
<1>4. CASE ActFails(c, b)
  BY <1>4 DEF ActFails
<1>5. CASE Records(c)
  BY <1>5 DEF Records
<1>6. CASE Locates(c)
  BY <1>6 DEF Locates
<1>7. CASE Acts(c)
  BY <1>7 DEF Acts, AfterActing
<1>8. CASE RecordsFailure(c) \/ Clears(c)
  BY <1>8 DEF RecordsFailure, Clears
<1>9. CASE IsHit(c)
  BY <1>9 DEF IsHit
<1> QED
  BY <1>1, <1>2, <1>3, <1>4, <1>5, <1>6, <1>7, <1>8, <1>9

\* And what is behind the call itself follows it.
LEMMA TheCallItself ==
  ASSUME "nobody" \notin Orgs,
         IInv, NEW c \in Calls, NEW k \in Kinds, NEW o \in Orgs,
         NEW v \in {"refused", "dry", "allowed"}, NEW b \in BOOLEAN,
         \/ Begins(c, k, o) \/ Decides(c, v) \/ Waits(c, b) \/ ActFails(c, b)
         \/ Records(c) \/ Locates(c) \/ Acts(c) \/ RecordsFailure(c) \/ Clears(c) \/ IsHit(c)
  PROVE  Behind(c)'
<1>1. TypeOK /\ BeforeTheWait(c) /\ FromTheWait(c) /\ Afterwards(c)
  BY DEF IInv, Behind
<1> USE <1>1 DEF TypeOK, Behind, BeforeTheWait, FromTheWait, Afterwards, At, Goes, Going, Row,
                 Unrecorded, Kinds, Bots, Shared, Says, Ended
<1> HIDE DEF IInv
<1>2. CASE Begins(c, k, o)
  BY <1>2 DEF Begins, First
<1>3. CASE Decides(c, v)
  BY <1>3 DEF Decides, AfterDecision
<1>4. CASE Waits(c, b)
  BY <1>4 DEF Waits
<1>5. CASE ActFails(c, b)
  BY <1>5 DEF ActFails
<1>6. CASE Records(c)
  <2>1. CASE call[c].verdict = "refused"
    <3>1. rows' = rows \cup {Row(c, "refused")} /\ call'[c] = [call[c] EXCEPT !.pc = "over"]
      BY <1>6, <2>1 DEF Records
    <3> QED
      BY <1>6, <2>1, <3>1 DEF Records
  <2>2. CASE call[c].verdict # "refused" /\ call[c].kind \in Bots
    <3>1. /\ rows' = rows \cup {Row(c, "permitted")}
          /\ call'[c] = [call[c] EXCEPT !.pc = IF call[c].kind = "computer"
                                               THEN "wait" ELSE "act"]
      BY <1>6, <2>2 DEF Records
    <3> QED
      BY <1>6, <2>2, <3>1 DEF Records
  <2>3. CASE call[c].verdict # "refused" /\ call[c].kind \notin Bots
    <3>1. rows' = rows \cup {Row(c, "happened")} /\ call'[c] = [call[c] EXCEPT !.pc = "over"]
      BY <1>6, <2>3 DEF Records
    <3> QED
      BY <1>6, <2>3, <3>1 DEF Records
  <2> QED
    BY <2>1, <2>2, <2>3
<1>7. CASE Locates(c)
  BY <1>7 DEF Locates, Admitted
<1>8. CASE Acts(c)
  BY <1>8 DEF Acts, AfterActing
<1>9. CASE RecordsFailure(c) \/ Clears(c)
  BY <1>9 DEF RecordsFailure, Clears
<1>10. CASE IsHit(c)
  BY <1>10 DEF IsHit
<1> QED
  BY <1>2, <1>3, <1>4, <1>5, <1>6, <1>7, <1>8, <1>9, <1>10

\* The strengthening is kept by every step.
LEMMA NextBehind == IInv /\ [Next]_vars => IInv'
<1> SUFFICES ASSUME IInv, [Next]_vars PROVE IInv'
  OBVIOUS
<1>1. ASSUME NEW c \in Calls, NEW k \in Kinds, NEW o \in Orgs,
             NEW v \in {"refused", "dry", "allowed"}, NEW b \in BOOLEAN,
             \/ Begins(c, k, o) \/ Decides(c, v) \/ Waits(c, b) \/ ActFails(c, b)
             \/ Records(c) \/ Locates(c) \/ Acts(c) \/ RecordsFailure(c) \/ Clears(c)
             \/ IsHit(c)
      PROVE  IInv'
  <2>1. Behind(c)'
    BY <1>1, TheCallItself, OrgsAssumption DEF OrgsAssumption
  <2>2. ASSUME NEW d \in Calls, d # c PROVE Behind(d)'
    <3>1. Behind(d)
      BY DEF IInv
    <3>2. /\ call'[d] = call[d]
          /\ \A what : Row(d, what) \in rows' <=> Row(d, what) \in rows
          /\ Unrecorded(d) => Unrecorded(d)'
          /\ d \in touched' <=> d \in touched
          /\ d \in hit' <=> d \in hit
          /\ owner # "nobody" => owner' = owner
      BY <1>1, <2>2, StepOfACall
    <3> QED
      BY <3>1, <3>2, OthersStay, OrgsAssumption DEF OrgsAssumption
  <2>3. TypeOK'
    BY <1>1, StepOfACall
  <2> QED
    BY <2>1, <2>2, <2>3 DEF IInv
<1>2. CASE UNCHANGED vars
  BY <1>2 DEF vars, IInv, TypeOK, Behind, BeforeTheWait, FromTheWait, Afterwards, At, Going,
              Unrecorded, Says, Ended
<1>3. CASE Next
  <2>1. PICK c \in Calls :
          \/ \E k \in Kinds, o \in Orgs : Begins(c, k, o)
          \/ \E v \in {"refused", "dry", "allowed"} : Decides(c, v)
          \/ \E b \in BOOLEAN : Waits(c, b) \/ ActFails(c, b)
          \/ Records(c) \/ Locates(c) \/ Acts(c) \/ RecordsFailure(c) \/ Clears(c) \/ IsHit(c)
    BY <1>3 DEF Next
  <2>2. CASE At(c, "idle")
    <3>1. PICK k \in Kinds, o \in Orgs : Begins(c, k, o)
      BY <2>1, <2>2 DEF At, Decides, Waits, ActFails, Records, Locates, Acts, RecordsFailure,
                        Clears, IsHit
    <3> QED
      BY <3>1, <1>1
  <2>3. CASE ~At(c, "idle")
    <3>1. "computer" \in Kinds /\ call[c].org \in Orgs
      BY <2>3 DEF IInv, Behind, Afterwards, Kinds, Bots
    <3> QED
      BY <2>1, <2>3, <3>1, <1>1 DEF Begins
  <2> QED
    BY <2>2, <2>3
<1> QED
  BY <1>2, <1>3

\* What a Bot asked for reaches the other side with a row that permits it and not
\* otherwise, a permitted action that did not happen waits or has a row, and one
\* organization has the shared computer, whatever fails and dies under way.
THEOREM TheTrailIsKept == Spec => []TrailPromise
<1>1. IInv => TrailPromise
  BY DEF IInv, TypeOK, Behind, Afterwards, TrailPromise, Shared
<1> QED
  BY <1>1, InitBehind, NextBehind, PTL DEF Spec

-----------------------------------------------------------------------------
(* The element a call is decided on, and the one it touches.               *)

\* A snapshot whose references somebody has, or is about to be given.
Given == {r \in Snapshots!Refs :
            \/ r \in held
            \/ \E s \in Snappers : snap[s] = [pc |-> "captured", id |-> r.id, page |-> r.page]}

\* A snapshot carries a generation that was counted, and a document.
Counted ==
  \A s \in Snappers :
    /\ snap[s].pc = "capturing" => gen > 0
    /\ snap[s].pc = "captured" => snap[s].id > 0 /\ snap[s].page > 0

\* What the row says was handed out, and so was what a decision rests on.
HandedOut ==
  /\ row = Snapshots!NoRow \/ row \in held
  /\ \A c \in Clickers : click[c].pc \in {"decided", "checked"} =>
       /\ click[c].ref \in held
       /\ click[c].element # 0 => [id |-> click[c].ref.id, page |-> click[c].element] \in held

\* Until a restart or a reset the row is ahead of every reference that was handed
\* out, and the counter ahead of the row and of the snapshots under way.
InOrder ==
  /\ clearing => resets > 0
  /\ restarts + resets = 0 =>
       /\ row.id <= gen /\ \A r \in held : r.id <= row.id
       /\ \A s \in Snappers : snap[s].pc = "captured" => snap[s].id <= gen

\* The computer serves one call.
OneCall ==
  /\ \A s, t \in Snappers : snap[s].pc = "capturing" /\ snap[t].pc = "capturing" => s = t
  /\ \A c, d \in Clickers : click[c].pc = "checked" /\ click[d].pc = "checked" => c = d
  /\ \A s \in Snappers, c \in Clickers :
       ~(snap[s].pc = "capturing" /\ click[c].pc = "checked")
  /\ navigating => /\ \A s \in Snappers : snap[s].pc # "capturing"
                   /\ \A c \in Clickers : click[c].pc # "checked"

\* A generation is of one document: the one Playwright's latest snapshot is of when
\* nothing has been counted since, and a snapshot under way has one of its own.
OneDocument ==
  /\ \A r \in Given : r.id <= gen /\ (r.id = gen => latest \in {0, r.page})
  /\ \A r, q \in Given : r.id = q.id => r.page = q.page
  /\ \A s \in Snappers : snap[s].pc = "capturing" => \A r \in Given : r.id < gen

\* A click that passed the computer's check still has its generation, and one that
\* acted was decided on the document it touched.
SameDocument ==
  /\ \A c \in Clickers : click[c].pc = "checked" => click[c].ref.id = gen
  /\ Snapshots!DecidedOnWhatWasTouched

Calm == Snapshots!Renewed \/ overlapped \/ (OneCall /\ OneDocument /\ SameDocument)

SnapshotsInv == Snapshots!TypeOK /\ Counted /\ HandedOut /\ InOrder /\ Calm

\* A step keeps the types, and counts what it hands on.
LEMMA SnapshotTypes ==
  ASSUME Snapshots!TypeOK, Counted, [Snapshots!Next]_snapshots
  PROVE  (Snapshots!TypeOK /\ Counted)'
<1> USE SnapshotsAssumption
    DEF Snapshots!TypeOK, Counted, Snapshots!Refs, Snapshots!NoRow, Snapshots!Idle,
        Snapshots!Unseen, Snapshots!computer, Snapshots!budget, Snapshots!Arrives
<1>1. ASSUME NEW s \in Snappers, Snapshots!BeginSnapshot(s)
      PROVE (Snapshots!TypeOK /\ Counted)'
  BY <1>1 DEF Snapshots!BeginSnapshot, Snapshots!Bumped
<1>2. ASSUME NEW s \in Snappers, Snapshots!Capture(s) PROVE (Snapshots!TypeOK /\ Counted)'
  BY <1>2 DEF Snapshots!Capture
<1>3. ASSUME NEW s \in Snappers, Snapshots!SnapshotFails(s)
      PROVE (Snapshots!TypeOK /\ Counted)'
  BY <1>3 DEF Snapshots!SnapshotFails
<1>4. ASSUME NEW s \in Snappers, Snapshots!Save(s) PROVE (Snapshots!TypeOK /\ Counted)'
  BY <1>4 DEF Snapshots!Save, Snapshots!Saved
<1>5. ASSUME NEW c \in Clickers, Snapshots!Decide(c) PROVE (Snapshots!TypeOK /\ Counted)'
  BY <1>5 DEF Snapshots!Decide, Snapshots!Resolved
<1>6. ASSUME NEW c \in Clickers, Snapshots!Check(c) PROVE (Snapshots!TypeOK /\ Counted)'
  BY <1>6 DEF Snapshots!Check, Snapshots!Accepts
<1>7. ASSUME NEW c \in Clickers, Snapshots!Act(c) PROVE (Snapshots!TypeOK /\ Counted)'
  <2>1. page' \in 1..MaxPages /\ click' = [click EXCEPT ![c].pc = "acted", ![c].acted = latest]
    BY <1>7 DEF Snapshots!Act
  <2>2. click' \in [Clickers -> [pc : {"idle", "decided", "checked", "acted"},
                             ref : Snapshots!Refs \union {Snapshots!NoRow}, element :
                               0..MaxPages,
                             acted : 0..MaxPages]]
    BY <2>1, ZenonT(60)
  <2> QED
    BY <1>7, <2>1, <2>2 DEF Snapshots!Act
<1>8. ASSUME NEW c \in Clickers, Snapshots!Refuse(c) PROVE (Snapshots!TypeOK /\ Counted)'
  BY <1>8 DEF Snapshots!Refuse
<1>9. CASE Snapshots!Goto
  BY <1>9 DEF Snapshots!Goto
<1>10. CASE Snapshots!Navigated
  <2>1. gen' \in 0..MaxGen /\ gen' > 0 /\ navigating' = FALSE
    BY <1>10 DEF Snapshots!Navigated
  <2> QED
    BY <1>10, <2>1 DEF Snapshots!Navigated
<1>11. CASE Snapshots!Restart
  <2>1. CASE Snapshots!FreshProcess
    <3>1. snap' \in [Snappers -> [pc : {"idle", "capturing", "captured"},
                            id : 0..MaxGen, page : 0..MaxPages]]
      BY <2>1 DEF Snapshots!FreshProcess
    <3>2. click' \in [Clickers -> [pc : {"idle", "decided", "checked", "acted"},
                             ref : Snapshots!Refs \union {Snapshots!NoRow}, element :
                               0..MaxPages,
                             acted : 0..MaxPages]]
      BY <2>1, SMTT(30) DEF Snapshots!FreshProcess
    <3>3. Counted'
      BY <2>1 DEF Snapshots!FreshProcess
    <3>4. gen' = 0 /\ latest' = 0 /\ navigating' = FALSE
      BY <2>1 DEF Snapshots!FreshProcess
    <3>5. /\ page' \in 1..MaxPages /\ restarts' \in 0..MaxRestarts
          /\ resets' \in 0..MaxResets /\ clearing' \in BOOLEAN
          /\ UNCHANGED <<row, held, recreates, overlapped>>
      BY <1>11 DEF Snapshots!Restart
    <3>6. {navigating, clearing, recreates, overlapped}' \subseteq BOOLEAN
      BY <3>4, <3>5
    <3>7. gen' \in 0..MaxGen /\ latest' \in 0..MaxPages
      BY <3>4
    <3>8. row' \in Snapshots!Refs \union {Snapshots!NoRow} /\ held' \subseteq Snapshots!Refs
      BY <3>5
    <3>9. Snapshots!TypeOK'
      BY <3>1, <3>2, <3>5, <3>6, <3>7, <3>8
    <3> QED
      BY <3>3, <3>9
  <2> QED
    BY <1>11, <2>1 DEF Snapshots!Restart
<1>12. CASE Snapshots!Reset
  <2>1. CASE Snapshots!FreshProcess
    <3>1. snap' \in [Snappers -> [pc : {"idle", "capturing", "captured"},
                            id : 0..MaxGen, page : 0..MaxPages]]
      BY <2>1 DEF Snapshots!FreshProcess
    <3>2. click' \in [Clickers -> [pc : {"idle", "decided", "checked", "acted"},
                             ref : Snapshots!Refs \union {Snapshots!NoRow}, element :
                               0..MaxPages,
                             acted : 0..MaxPages]]
      BY <2>1, SMTT(30) DEF Snapshots!FreshProcess
    <3>3. Counted'
      BY <2>1 DEF Snapshots!FreshProcess
    <3>4. gen' = 0 /\ latest' = 0 /\ navigating' = FALSE
      BY <2>1 DEF Snapshots!FreshProcess
    <3>5. /\ page' \in 1..MaxPages /\ restarts' \in 0..MaxRestarts
          /\ resets' \in 0..MaxResets /\ clearing' \in BOOLEAN
          /\ UNCHANGED <<row, held, recreates, overlapped>>
      BY <1>12 DEF Snapshots!Reset
    <3>6. {navigating, clearing, recreates, overlapped}' \subseteq BOOLEAN
      BY <3>4, <3>5
    <3>7. gen' \in 0..MaxGen /\ latest' \in 0..MaxPages
      BY <3>4
    <3>8. row' \in Snapshots!Refs \union {Snapshots!NoRow} /\ held' \subseteq Snapshots!Refs
      BY <3>5
    <3>9. Snapshots!TypeOK'
      BY <3>1, <3>2, <3>5, <3>6, <3>7, <3>8
    <3> QED
      BY <3>3, <3>9
  <2>2. CASE ~recreates
    <3>1. page' \in 1..MaxPages /\ resets' \in 0..MaxResets
      BY <1>12 DEF Snapshots!Reset
    <3> QED
      BY <1>12, <2>2, <3>1 DEF Snapshots!Reset
  <2> QED
    BY <1>12, <2>1, <2>2 DEF Snapshots!Reset
<1>13. CASE Snapshots!Clear
  BY <1>13 DEF Snapshots!Clear
<1>14. CASE UNCHANGED snapshots
  BY <1>14 DEF snapshots
<1> QED
  BY <1>1, <1>2, <1>3, <1>4, <1>5, <1>6, <1>7, <1>8, <1>9, <1>10, <1>11, <1>12, <1>13, <1>14
     DEF Snapshots!Next

\* A step decides on what was handed out, whoever took the snapshot.
LEMMA HandedOutIsKept ==
  ASSUME Snapshots!TypeOK, Counted, HandedOut, [Snapshots!Next]_snapshots
  PROVE  HandedOut'
<1> USE DEF Snapshots!TypeOK, Counted, HandedOut, Snapshots!Refs, Snapshots!NoRow,
        Snapshots!Idle,
            Snapshots!Unseen, Snapshots!computer, Snapshots!budget
<1>1. ASSUME NEW s \in Snappers, Snapshots!BeginSnapshot(s) PROVE HandedOut'
  BY <1>1 DEF Snapshots!BeginSnapshot, Snapshots!Bumped
<1>2. ASSUME NEW s \in Snappers, Snapshots!Capture(s) PROVE HandedOut'
  BY <1>2 DEF Snapshots!Capture
<1>3. ASSUME NEW s \in Snappers, Snapshots!SnapshotFails(s) PROVE HandedOut'
  BY <1>3 DEF Snapshots!SnapshotFails
<1>4. ASSUME NEW s \in Snappers, Snapshots!Save(s) PROVE HandedOut'
  BY <1>4 DEF Snapshots!Save, Snapshots!Saved
<1>5. ASSUME NEW c \in Clickers, Snapshots!Decide(c) PROVE HandedOut'
  BY <1>5 DEF Snapshots!Decide, Snapshots!Resolved
<1>6. ASSUME NEW c \in Clickers, Snapshots!Check(c) PROVE HandedOut'
  BY <1>6 DEF Snapshots!Check, Snapshots!Accepts
<1>7. ASSUME NEW c \in Clickers, Snapshots!Act(c) PROVE HandedOut'
  BY <1>7 DEF Snapshots!Act
<1>8. ASSUME NEW c \in Clickers, Snapshots!Refuse(c) PROVE HandedOut'
  BY <1>8 DEF Snapshots!Refuse
<1>9. CASE Snapshots!Goto
  BY <1>9 DEF Snapshots!Goto
<1>10. CASE Snapshots!Navigated
  BY <1>10 DEF Snapshots!Navigated
<1>11. CASE Snapshots!Restart
  BY <1>11 DEF Snapshots!Restart, Snapshots!FreshProcess
<1>12. CASE Snapshots!Reset
  BY <1>12 DEF Snapshots!Reset, Snapshots!FreshProcess
<1>13. CASE Snapshots!Clear
  BY <1>13 DEF Snapshots!Clear
<1>14. CASE UNCHANGED snapshots
  BY <1>14 DEF snapshots
<1> QED
  BY <1>1, <1>2, <1>3, <1>4, <1>5, <1>6, <1>7, <1>8, <1>9, <1>10, <1>11, <1>12, <1>13, <1>14
     DEF Snapshots!Next

\* Saves that come late leave the row ahead, and nothing outruns the counter.
LEMMA OrderIsKept ==
  ASSUME Snapshots!TypeOK, Counted, HandedOut, InOrder, [Snapshots!Next]_snapshots
  PROVE  InOrder'
<1> USE DEF Snapshots!TypeOK, Counted, InOrder, Snapshots!Refs, Snapshots!NoRow,
        Snapshots!Idle,
            Snapshots!Unseen, Snapshots!computer, Snapshots!budget
<1>1. ASSUME NEW s \in Snappers, Snapshots!BeginSnapshot(s) PROVE InOrder'
  BY <1>1 DEF Snapshots!BeginSnapshot, Snapshots!Bumped
<1>2. ASSUME NEW s \in Snappers, Snapshots!Capture(s) PROVE InOrder'
  BY <1>2 DEF Snapshots!Capture
<1>3. ASSUME NEW s \in Snappers, Snapshots!SnapshotFails(s) PROVE InOrder'
  BY <1>3 DEF Snapshots!SnapshotFails
<1>4. ASSUME NEW s \in Snappers, Snapshots!Save(s) PROVE InOrder'
  BY <1>4 DEF Snapshots!Save, Snapshots!Saved
<1>5. ASSUME NEW c \in Clickers, Snapshots!Decide(c) PROVE InOrder'
  BY <1>5 DEF Snapshots!Decide, Snapshots!Resolved
<1>6. ASSUME NEW c \in Clickers, Snapshots!Check(c) PROVE InOrder'
  BY <1>6 DEF Snapshots!Check, Snapshots!Accepts
<1>7. ASSUME NEW c \in Clickers, Snapshots!Act(c) PROVE InOrder'
  BY <1>7 DEF Snapshots!Act
<1>8. ASSUME NEW c \in Clickers, Snapshots!Refuse(c) PROVE InOrder'
  BY <1>8 DEF Snapshots!Refuse
<1>9. CASE Snapshots!Goto
  BY <1>9 DEF Snapshots!Goto
<1>10. CASE Snapshots!Navigated
  BY <1>10 DEF Snapshots!Navigated
<1>11. CASE Snapshots!Restart
  BY <1>11 DEF Snapshots!Restart, Snapshots!FreshProcess
<1>12. CASE Snapshots!Reset
  BY <1>12 DEF Snapshots!Reset, Snapshots!FreshProcess
<1>13. CASE Snapshots!Clear
  BY <1>13 DEF Snapshots!Clear
<1>14. CASE UNCHANGED snapshots
  BY <1>14 DEF snapshots
<1> QED
  BY <1>1, <1>2, <1>3, <1>4, <1>5, <1>6, <1>7, <1>8, <1>9, <1>10, <1>11, <1>12, <1>13, <1>14
     DEF Snapshots!Next

\* One call at a time is lost only with the note that two were served at once.
LEMMA OneCallIsKept ==
  ASSUME Snapshots!TypeOK, OneCall, [Snapshots!Next]_snapshots, ~overlapped'
  PROVE  OneCall'
<1> USE DEF OneCall, Snapshots!TypeOK, Snapshots!computer, Snapshots!budget, Snapshots!Idle
<1>1. ASSUME NEW s \in Snappers, Snapshots!BeginSnapshot(s) PROVE OneCall'
  BY <1>1 DEF Snapshots!BeginSnapshot, Snapshots!Arrives, Snapshots!Busy
<1>2. ASSUME NEW s \in Snappers,
             Snapshots!Capture(s) \/ Snapshots!SnapshotFails(s) \/ Snapshots!Save(s)
      PROVE  OneCall'
  BY <1>2 DEF Snapshots!Capture, Snapshots!SnapshotFails, Snapshots!Save
<1>3. ASSUME NEW c \in Clickers, Snapshots!Check(c) PROVE OneCall'
  BY <1>3 DEF Snapshots!Check, Snapshots!Arrives, Snapshots!Busy
<1>4. ASSUME NEW c \in Clickers,
             Snapshots!Decide(c) \/ Snapshots!Act(c) \/ Snapshots!Refuse(c)
      PROVE  OneCall'
  BY <1>4 DEF Snapshots!Decide, Snapshots!Act, Snapshots!Refuse
<1>5. CASE Snapshots!Goto
  BY <1>5 DEF Snapshots!Goto, Snapshots!Arrives, Snapshots!Busy
<1>6. CASE Snapshots!Navigated \/ Snapshots!Clear \/ UNCHANGED snapshots
  BY <1>6 DEF Snapshots!Navigated, Snapshots!Clear, snapshots
<1>7. CASE Snapshots!Restart \/ Snapshots!Reset
  BY <1>7 DEF Snapshots!Restart, Snapshots!Reset, Snapshots!FreshProcess
<1> QED
  BY <1>1, <1>2, <1>3, <1>4, <1>5, <1>6, <1>7 DEF Snapshots!Next

\* A document of its own for every generation, while one call is served at a time.
LEMMA OneDocumentIsKept ==
  ASSUME Snapshots!TypeOK, Counted, OneCall, OneDocument, [Snapshots!Next]_snapshots,
         ~Snapshots!Renewed', ~overlapped'
  PROVE  OneDocument'
<1> USE DEF Snapshots!TypeOK, Snapshots!computer, Snapshots!budget, Snapshots!Idle
<1>0. Snapshots!TypeOK'
  BY SnapshotTypes
<1>1. ASSUME NEW s \in Snappers, Snapshots!BeginSnapshot(s) PROVE OneDocument'
  <2>1. Given' = Given
    BY <1>1 DEF Snapshots!BeginSnapshot, Given, Snapshots!Refs
  <2>2. gen' = gen + 1 /\ latest' = latest
    BY <1>1 DEF Snapshots!BeginSnapshot, Snapshots!Bumped
  <2>3. \A r \in Given : r.id \in Nat /\ r.id <= gen
    BY DEF OneDocument, Given, Snapshots!Refs
  <2> QED
    BY <2>1, <2>2, <2>3 DEF OneDocument
<1>2. ASSUME NEW s \in Snappers, Snapshots!Capture(s) PROVE OneDocument'
  <2> DEFINE new == [id |-> gen, page |-> page]
  <2>1. Given' = Given \cup {new}
    BY <1>2 DEF Snapshots!Capture, Given, Snapshots!Refs, Counted
  <2>2. gen' = gen /\ latest' = page /\ \A t \in Snappers : snap'[t].pc # "capturing"
    BY <1>2 DEF Snapshots!Capture, OneCall
  <2>3. \A r \in Given : r.id \in Nat /\ r.id < gen
    BY <1>2 DEF OneDocument, Given, Snapshots!Refs, Snapshots!Capture
  <2> QED
    BY <2>1, <2>2, <2>3 DEF OneDocument
<1>3. ASSUME Given' \subseteq Given, gen' \in Nat, gen' >= gen,
             gen' = gen => latest' \in {0, latest},
             \A s \in Snappers : snap'[s].pc = "capturing" => snap[s].pc = "capturing"
      PROVE  OneDocument'
  <2>1. \A r \in Given : r.id \in Nat
    BY DEF Given, Snapshots!Refs
  <2> QED
    BY <1>3, <2>1 DEF OneDocument
<1>4. ASSUME NEW s \in Snappers, Snapshots!SnapshotFails(s) \/ Snapshots!Save(s)
      PROVE  OneDocument'
  <2>1. Given' \subseteq Given
    BY <1>4 DEF Snapshots!SnapshotFails, Snapshots!Save, Given, Snapshots!Refs, Counted
  <2> QED
    BY <1>3, <1>4, <2>1 DEF Snapshots!SnapshotFails, Snapshots!Save
<1>5. ASSUME NEW c \in Clickers, \/ Snapshots!Decide(c) \/ Snapshots!Check(c)
                                 \/ Snapshots!Act(c) \/ Snapshots!Refuse(c)
      PROVE  OneDocument'
  <2>1. Given' = Given /\ gen' = gen /\ latest' = latest /\ snap' = snap
    BY <1>5 DEF Snapshots!Decide, Snapshots!Check, Snapshots!Act, Snapshots!Refuse, Given,
                Snapshots!Refs
  <2> QED
    BY <1>3, <2>1
<1>6. CASE \/ Snapshots!Goto \/ Snapshots!Navigated \/ Snapshots!Clear \/ UNCHANGED snapshots
  <2>1. Given' = Given /\ gen' >= gen /\ latest' = latest /\ snap' = snap /\ gen' \in Nat
    BY <1>6 DEF Snapshots!Goto, Snapshots!Navigated, Snapshots!Clear, snapshots, Given,
                Snapshots!Refs
  <2> QED
    BY <1>3, <2>1
<1>7. CASE Snapshots!Restart \/ Snapshots!Reset
  <2>1. Snapshots!Reset /\ ~recreates
    BY <1>7 DEF Snapshots!Restart, Snapshots!Reset, Snapshots!Renewed
  <2>2. Given' = Given /\ gen' = gen /\ latest' = 0 /\ snap' = snap
    BY <2>1 DEF Snapshots!Reset, Given, Snapshots!Refs
  <2> QED
    BY <1>3, <2>2
<1> QED
  BY <1>1, <1>2, <1>4, <1>5, <1>6, <1>7 DEF Snapshots!Next

\* What was checked and what acted is of the document that was decided on.
LEMMA SameDocumentIsKept ==
  ASSUME Snapshots!TypeOK, Counted, HandedOut, OneCall, OneDocument, SameDocument,
         [Snapshots!Next]_snapshots, ~Snapshots!Renewed', ~overlapped'
  PROVE  SameDocument'
<1> USE DEF SameDocument, Snapshots!DecidedOnWhatWasTouched, Snapshots!TypeOK,
            Snapshots!computer, Snapshots!budget, Snapshots!Idle, Snapshots!Unseen
<1>1. ASSUME NEW s \in Snappers, Snapshots!BeginSnapshot(s) PROVE SameDocument'
  BY <1>1 DEF Snapshots!BeginSnapshot, Snapshots!Arrives, Snapshots!Busy
<1>2. ASSUME NEW s \in Snappers,
             Snapshots!Capture(s) \/ Snapshots!SnapshotFails(s) \/ Snapshots!Save(s)
      PROVE  SameDocument'
  BY <1>2 DEF Snapshots!Capture, Snapshots!SnapshotFails, Snapshots!Save
<1>3. ASSUME NEW c \in Clickers, Snapshots!Act(c) PROVE SameDocument'
  <2>1. /\ click[c].pc = "checked" /\ latest = page /\ gen' = gen
        /\ click' = [click EXCEPT ![c].pc = "acted", ![c].acted = latest]
    BY <1>3 DEF Snapshots!Act
  <2>2. click[c].element \in {0, latest}
    <3> SUFFICES ASSUME click[c].element # 0 PROVE click[c].element = latest
      OBVIOUS
    <3> DEFINE r == [id |-> click[c].ref.id, page |-> click[c].element]
    <3>1. r \in held
      BY <2>1 DEF HandedOut
    <3>2. r \in Given /\ r.id = gen
      BY <2>1, <3>1 DEF Given
    <3>3. latest \in {0, r.page} /\ latest > 0
      BY <2>1, <3>2 DEF OneDocument
    <3> QED
      BY <3>3
  <2> QED
    BY <2>1, <2>2
<1>4. ASSUME NEW c \in Clickers,
             Snapshots!Decide(c) \/ Snapshots!Check(c) \/ Snapshots!Refuse(c)
      PROVE  SameDocument'
  BY <1>4 DEF Snapshots!Decide, Snapshots!Check, Snapshots!Accepts, Snapshots!Refuse
<1>5. CASE \/ Snapshots!Goto \/ Snapshots!Clear \/ UNCHANGED snapshots
  BY <1>5 DEF Snapshots!Goto, Snapshots!Clear, snapshots
<1>6. CASE Snapshots!Navigated
  BY <1>6 DEF Snapshots!Navigated, OneCall
<1>7. CASE Snapshots!Restart \/ Snapshots!Reset
  <2>1. Snapshots!Reset /\ ~recreates
    BY <1>7 DEF Snapshots!Restart, Snapshots!Reset, Snapshots!Renewed
  <2> QED
    BY <2>1 DEF Snapshots!Reset
<1> QED
  BY <1>1, <1>2, <1>3, <1>4, <1>5, <1>6, <1>7 DEF Snapshots!Next

\* Two calls at once, and a process that was replaced, are not forgotten.
LEMMA NotForgotten ==
  ASSUME Snapshots!TypeOK, [Snapshots!Next]_snapshots,
         ~Snapshots!Renewed', ~overlapped'
  PROVE  ~Snapshots!Renewed /\ ~overlapped
<1> USE DEF Snapshots!Renewed, Snapshots!TypeOK, Snapshots!computer, Snapshots!budget
<1>1. ASSUME NEW s \in Snappers, \/ Snapshots!BeginSnapshot(s) \/ Snapshots!Capture(s)
                                 \/ Snapshots!SnapshotFails(s) \/ Snapshots!Save(s)
      PROVE  ~Snapshots!Renewed /\ ~overlapped
  BY <1>1 DEF Snapshots!BeginSnapshot, Snapshots!Capture, Snapshots!SnapshotFails,
              Snapshots!Save, Snapshots!Arrives
<1>2. ASSUME NEW c \in Clickers, \/ Snapshots!Decide(c) \/ Snapshots!Check(c)
                                 \/ Snapshots!Act(c) \/ Snapshots!Refuse(c)
      PROVE  ~Snapshots!Renewed /\ ~overlapped
  BY <1>2 DEF Snapshots!Decide, Snapshots!Check, Snapshots!Act, Snapshots!Refuse,
              Snapshots!Arrives
<1>3. CASE \/ Snapshots!Goto \/ Snapshots!Navigated \/ Snapshots!Clear
           \/ Snapshots!Restart \/ Snapshots!Reset \/ UNCHANGED snapshots
  BY <1>3 DEF Snapshots!Goto, Snapshots!Navigated, Snapshots!Clear, Snapshots!Restart,
              Snapshots!Reset, Snapshots!Arrives, snapshots
<1> QED
  BY <1>1, <1>2, <1>3 DEF Snapshots!Next

\* The strengthening holds before the first call and is kept by every step.
LEMMA SnapshotsInvHolds == Snapshots!Spec => []SnapshotsInv
<1>1. Snapshots!Init => SnapshotsInv
  <2> SUFFICES ASSUME Snapshots!Init PROVE SnapshotsInv
    OBVIOUS
  <2> USE DEF Snapshots!Init, Snapshots!Idle, Snapshots!NoRow, Snapshots!Unseen
  <2>1. Snapshots!TypeOK
    <3>1. {navigating, clearing, recreates, overlapped} \subseteq BOOLEAN
      OBVIOUS
    <3>2. /\ snap \in [Snappers -> [pc : {"idle", "capturing", "captured"},
                               id : 0..MaxGen, page : 0..MaxPages]]
          /\ click \in [Clickers -> [pc : {"idle", "decided", "checked", "acted"},
                                ref : Snapshots!Refs \union {Snapshots!NoRow},
                                element : 0..MaxPages, acted : 0..MaxPages]]
      BY SnapshotsAssumption
    <3> QED
      BY <3>1, <3>2, SnapshotsAssumption DEF Snapshots!TypeOK
  <2>2. Counted /\ HandedOut /\ InOrder
    BY DEF Counted, HandedOut, InOrder
  <2>3. Given = {}
    BY DEF Given
  <2>4. OneCall /\ OneDocument /\ SameDocument
    BY <2>3 DEF OneCall, OneDocument, SameDocument, Snapshots!DecidedOnWhatWasTouched
  <2> QED
    BY <2>1, <2>2, <2>4 DEF SnapshotsInv, Calm
<1>2. SnapshotsInv /\ [Snapshots!Next]_snapshots => SnapshotsInv'
  <2> SUFFICES ASSUME SnapshotsInv, [Snapshots!Next]_snapshots PROVE SnapshotsInv'
    OBVIOUS
  <2> USE DEF SnapshotsInv
  <2>1. (Snapshots!TypeOK /\ Counted /\ HandedOut /\ InOrder)'
    BY SnapshotTypes, HandedOutIsKept, OrderIsKept
  <2>2. Calm'
    BY OneCallIsKept, OneDocumentIsKept, SameDocumentIsKept, NotForgotten DEF Calm
  <2> QED
    BY <2>1, <2>2
<1> QED
  BY <1>1, <1>2, PTL DEF Snapshots!Spec, Snapshots!vars, snapshots

\* What a decision is about was in a snapshot of the reference's own generation,
\* through restarts, resets and saves that overlap, on any number of replicas.
THEOREM DecisionsRestOnTheirGeneration ==
  Snapshots!Spec => []DecidedOnASnapshotOfItsGeneration
<1>1. SnapshotsInv => DecidedOnASnapshotOfItsGeneration
  BY DEF SnapshotsInv, HandedOut, DecidedOnASnapshotOfItsGeneration,
         Snapshots!DecidedOnASnapshotOfItsGeneration, Snapshots!Unseen
<1> QED
  BY <1>1, SnapshotsInvHolds, PTL

\* Until a restart or a reset the row resolves every reference the computer would
\* accept, in whatever order the replicas' saves come.
THEOREM TheNewestSnapshotIsNotHidden == Snapshots!Spec => []LiveReferenceResolves
<1>1. SnapshotsInv => LiveReferenceResolves
  <2> SUFFICES ASSUME SnapshotsInv, restarts + resets = 0, NEW ref \in held, ref.id = gen
               PROVE  row.id = ref.id
    BY DEF LiveReferenceResolves, Snapshots!LiveReferenceResolves, Snapshots!Accepts
  <2>1. row.id \in Nat /\ gen \in Nat
    BY SnapshotsAssumption DEF SnapshotsInv, Snapshots!TypeOK, Snapshots!Refs, Snapshots!NoRow
  <2>2. ref.id <= row.id /\ row.id <= gen
    BY DEF SnapshotsInv, InOrder
  <2> QED
    BY <2>1, <2>2
<1> QED
  BY <1>1, SnapshotsInvHolds, PTL

\* While the computer keeps its process and serves one call at a time, a generation is
\* of one document and a click acts on the document it was decided on.
THEOREM OneCallAtATimeIsSafe == Snapshots!Spec => []CalmReplicas
<1>1. SnapshotsInv => CalmReplicas
  BY DEF SnapshotsInv, Calm, OneDocument, SameDocument, Given, CalmReplicas,
         Snapshots!CalmReplicas, Snapshots!CalmDecisions, Snapshots!CalmGenerations,
         Snapshots!OneGenerationPerDocument, Snapshots!TypeOK
<1> QED
  BY <1>1, SnapshotsInvHolds, PTL

-----------------------------------------------------------------------------
\* What is proved of a part is true of the composition the runs check: a part that
\* was not chosen stands still.
THEOREM EachPartIsItself == PartsSpec => Spec /\ Snapshots!Spec
<1>1. PartsInit => Init /\ Snapshots!Init
  BY DEF PartsInit
<1>2. [PartsNext]_all => [Next]_vars /\ [Snapshots!Next]_snapshots
  BY DEF PartsNext, all
<1> QED
  BY <1>1, <1>2, PTL DEF PartsSpec, Spec, Snapshots!Spec, Snapshots!vars, snapshots

\* So whatever the run checks is true of the composition.
THEOREM TheGatewayKeepsItsPromises ==
  PartsSpec => /\ []TrailPromise /\ []CalmReplicas
               /\ []DecidedOnASnapshotOfItsGeneration /\ []LiveReferenceResolves
BY EachPartIsItself, TheTrailIsKept, OneCallAtATimeIsSafe, DecisionsRestOnTheirGeneration,
   TheNewestSnapshotIsNotHidden, PTL
=============================================================================
