----------------------------- MODULE Conversation -----------------------------
(***************************************************************************)
(* One channel in one tab: what a person types, parks, and sends to the    *)
(* Bots of the channel, the turns this starts, and who answers             *)
(* (channel-chat.tsx, conversation-view.tsx, composer.tsx, queue.ts).      *)
(*                                                                         *)
(* React stands between the state and the handlers: a handler reads what   *)
(* the last render committed (drawn), a render takes the state as it is,   *)
(* and the effects of a render run after it, those of a child first.       *)
(* A press of a key or a button has React catch up before the next event;  *)
(* anything else is rendered later, and its effects later still.  Where    *)
(* React is not lagging nothing falls into those gaps.                     *)
(*                                                                         *)
(* A turn is one call of say, or a message handed to the worker.  It may   *)
(* take several runs of the agent, the tab answering a tool between two.   *)
(***************************************************************************)
EXTENDS Naturals, Sequences, FiniteSets, FiniteSetsExt

CONSTANTS Members,     \* the Bots of the channel
          First,       \* the one that speaks when the channel is opened
          Nobody,
          MaxEvents,   \* bound: messages, and times the page points at a member
          MaxLagged,   \* the same where React lags
          MaxRuns      \* bound: runs of one turn

VARIABLES lagging, \* events arrive between a change, its render and its effects
          tab,     \* queue, turns, speaker, and what refs and states say of them
          rejoin,  \* the agent is being connected to the thread
          wire,    \* a run found on the thread is joined and still going: one of before this
                   \* mount, a worker's, or one of the agent of an earlier speaker
          deleted, \* a Bot of the channel was deleted
          focus,   \* the member the page points at
          drawn,   \* what the last render closed over
          due,     \* its effects that have not run
          flush,   \* before the next event React has to "render", run "effects", or "nothing"
          typed,   \* the number of messages so far; a message is its number and whom it is for
          taken,   \* those taken back
          astray,  \* history: those parked while there was no turn to wait for
          focuses

vars == <<lagging, tab, rejoin, wire, deleted, focus, drawn, due, flush, typed, taken, astray,
          focuses>>
world == <<lagging, rejoin, wire, deleted, focus, focuses>>

Typing == {"box", "drain", "go"}
Bounded == typed + focuses < IF lagging THEN MaxLagged ELSE MaxEvents
Message(to) == [id |-> typed + 1, to |-> to]
Turn(text, to, by, at) ==
  [text |-> text, to |-> to, by |-> by, at |-> at, voice |-> Nobody,
   run |-> 0, quiet |-> TRUE, left |-> FALSE]

\* Of a turn that is over only its words and where they came from are kept.
Over(t, k) ==
  LET text == t.turns[k].text
      said == [i \in DOMAIN text |-> [text[i] EXCEPT !.to = Nobody]]
  IN [t EXCEPT !.turns[k] = Turn(said, Nobody, t.turns[k].by, "over")]

\* turnsInFlight, and inFlight of the view.
Live(t) == {k \in DOMAIN t.turns : t.turns[k].at \in {"ready", "running", "between"}}
Busy(t) ==
  \/ wire \/ t.running \/ Live(t) # {}
  \/ \E k \in DOMAIN t.turns : t.turns[k].at = "joining"

Render == [busy |-> Busy(tab), submitting |-> tab.submitting, speaker |-> tab.speaker,
           focus |-> focus, disabled |-> deleted]
CaughtUp == flush = "nothing" \/ (due = {} /\ drawn = Render)
Pressed == flush' = "render"
Happened == flush' = IF lagging THEN "nothing" ELSE "render"

-----------------------------------------------------------------------------
\* say, as far as the wait for the runtime.  quiet is history: no other turn beside
\* this one, no change of speaker during it, and no run joined.
Says_Unawaited(t, k) ==
  [t EXCEPT !.turns[k].at = "ready", !.turns[k].voice = drawn.speaker,
            !.turns[k].quiet = Live(t) = {} /\ ~wire]
Says(t, k) ==
  [t EXCEPT !.awaiting = TRUE, !.turns =
    [j \in DOMAIN @ |->
      IF j = k THEN [@[j] EXCEPT !.at = "ready", !.voice = drawn.speaker,
                                 !.quiet = Live(t) = {} /\ ~wire]
      ELSE [@[j] EXCEPT !.quiet = @ /\ j \notin Live(t)]]]

\* onSubmit: a message for somebody else waits for the speaker to change.
Submits(t, run, by) ==
  LET k == Len(t.turns) + 1
      held == [t EXCEPT !.turns = Append(@, Turn(run.text, run.to, by, "held")),
                        !.running = TRUE]
  IN IF run.to \in {Nobody, drawn.speaker}
     THEN Says(held, k)
     ELSE [held EXCEPT !.pending = k, !.speaker = run.to]

\* flushSameSpeaker: the messages in front that agree on whom they are for, as one turn.
Leading_All(q) == Len(q)
Leading(q) == Max({n \in 1..Len(q) : \A i \in 1..n : q[i].to = q[1].to})
Starts(t, q, by) ==
  LET n == Leading(q) IN
  Submits([t EXCEPT !.queue = SubSeq(q, n + 1, Len(q))],
          [text |-> SubSeq(q, 1, n), to |-> q[1].to], by)

\* Enter or the send button: park it, or send it.
Parks_OwnSend == drawn.submitting
Parks == drawn.busy \/ drawn.submitting
Press(to) ==
  /\ CaughtUp /\ ~drawn.disabled /\ Bounded
  /\ LET q == Append(tab.queue, Message(to)) IN
     \/ Parks /\ tab' = [tab EXCEPT !.queue = q]
     \/ /\ ~Parks /\ ~tab.submitting
        /\ tab' = [Starts(tab, q, "box") EXCEPT !.submitting = TRUE]
  /\ typed' = typed + 1
  /\ astray' = astray \cup (IF Parks /\ ~Busy(tab) THEN {typed + 1} ELSE {})
  /\ Pressed
  /\ UNCHANGED <<world, drawn, due, taken>>

\* "Send and go": the worker has the turn from here.
SendAndGo(to) ==
  /\ CaughtUp /\ ~drawn.disabled /\ ~Parks /\ ~tab.submitting /\ Bounded
  /\ tab' = [tab EXCEPT !.turns = Append(@, Turn(<<Message(to)>>, to, "go", "enqueuing")),
                        !.submitting = TRUE,
                        !.speaker = IF to \in {Nobody, drawn.speaker} THEN @ ELSE to]
  /\ typed' = typed + 1
  /\ Pressed
  /\ UNCHANGED <<world, drawn, due, taken, astray>>

\* It is enqueued, or refused and the words are back in the box.
Gone(k) ==
  /\ CaughtUp /\ tab.turns[k].at = "enqueuing"
  /\ tab' = [Over(tab, k) EXCEPT !.submitting = FALSE]
  /\ Happened
  /\ UNCHANGED <<world, drawn, due, typed, taken, astray>>

TakeBack(i) ==
  /\ CaughtUp
  /\ tab' = [tab EXCEPT !.queue = SelectSeq(@, LAMBDA m : m # tab.queue[i])]
  /\ taken' = taken \cup {tab.queue[i].id}
  /\ Pressed
  /\ UNCHANGED <<world, drawn, due, typed, astray>>

\* A button inside a rendered component.
Ask ==
  /\ CaughtUp /\ Bounded
  /\ tab' = LET k == Len(tab.turns) + 1
                asked == [tab EXCEPT !.turns =
                            Append(@, Turn(<<Message(Nobody)>>, Nobody, "button", "held"))]
            IN Says(asked, k)
  /\ typed' = typed + 1
  /\ Pressed
  /\ UNCHANGED <<world, drawn, due, taken, astray>>

-----------------------------------------------------------------------------
\* The drain effect of the view.
Drains(t) ==
  IF "drain" \in due /\ ~drawn.disabled /\ ~drawn.busy /\ t.queue # <<>>
  THEN Starts(t, t.queue, "drain") ELSE t

\* The page's member becomes the speaker.
Refocuses(t) ==
  IF "focus" \in due /\ drawn.focus # Nobody THEN [t EXCEPT !.speaker = drawn.focus] ELSE t

\* The message that waited for this speaker.
Binds(t) ==
  IF "bind" \in due /\ t.pending # 0 /\ t.turns[t.pending].to = drawn.speaker
  THEN [Says(t, t.pending) EXCEPT !.pending = 0] ELSE t

Effects ==
  /\ due # {}
  /\ tab' = Binds(Refocuses(Drains(tab)))
  /\ due' = {}
  /\ IF flush = "render" THEN UNCHANGED flush ELSE Happened
  /\ UNCHANGED <<world, drawn, typed, taken, astray>>

\* A new channel is seeded with its first message, and has no thread to connect to.
Seeded == tab.turns # <<>> /\ tab.turns[1].by = "seed"

\* A render: with another speaker useAgent gives its agent, the same or another one, which
\* is connected to the thread; a joined run and the turns under way stay with the old one.
Commit ==
  /\ due = {} /\ drawn # Render
  /\ LET moves == drawn.speaker # tab.speaker IN
     /\ tab' = [tab EXCEPT !.turns =
                  [k \in DOMAIN @ |->
                     [@[k] EXCEPT !.quiet = @ /\ (k \in Live(tab) => ~moves),
                                  !.left = @ \/ (k \in Live(tab) /\ moves)]]]
     /\ rejoin' = (rejoin \/ (moves /\ ~Seeded))
     /\ wire' \in {wire, wire /\ ~moves}
     /\ UNCHANGED <<lagging, deleted, focus, focuses, typed, taken, astray>>
     /\ drawn' = Render'
     /\ due' = (IF drawn.busy # drawn'.busy \/ drawn.disabled # deleted THEN {"drain"} ELSE {})
               \cup (IF drawn.focus # focus THEN {"focus"} ELSE {})
               \cup (IF moves THEN {"bind"} ELSE {})
     /\ flush' = IF flush = "render" /\ due' # {} THEN "effects" ELSE "nothing"

-----------------------------------------------------------------------------
\* The join gate of the first message of a new channel.
GateOpens(k) ==
  /\ CaughtUp /\ tab.turns[k].at = "joining"
  /\ tab' = Says(tab, k)
  /\ Happened
  /\ UNCHANGED <<world, drawn, due, typed, taken, astray>>

\* deliver: runAgent; and again, once the tab has answered the run's tool.
RunStarts(k) ==
  /\ CaughtUp /\ tab.turns[k].at \in {"ready", "between"}
  /\ tab' = [tab EXCEPT !.turns[k].at = "running", !.turns[k].run = @ + 1]
  /\ Happened
  /\ UNCHANGED <<world, drawn, due, typed, taken, astray>>

\* The subscriber of the events of the rendered agent's runs, a failure's too: only while
\* a reply is awaited is it named and reported to the roster, or its failure shown; then
\* none is awaited.
Heard(t) == [t EXCEPT !.awaiting = FALSE]

\* The end of a run of an agent that was left may be out of the subscriber's hearing.
Hearings(k) == {Heard(tab)} \cup (IF tab.turns[k].left THEN {tab} ELSE {})

\* The finally blocks of say, start and the composer.
Ends_Box(t, k) ==
  LET by == t.turns[k].by IN
  [Over(t, k) EXCEPT !.running = @ /\ by # "box", !.submitting = @ /\ by # "box"]
Ends(t, k) ==
  LET by == t.turns[k].by IN
  [Over(t, k) EXCEPT !.running = @ /\ by \notin {"box", "drain"},
                     !.submitting = @ /\ by # "box"]

RunPauses(k) ==
  /\ CaughtUp /\ tab.turns[k].at = "running" /\ tab.turns[k].run < MaxRuns
  /\ \E t \in Hearings(k) : tab' = [t EXCEPT !.turns[k].at = "between"]
  /\ Happened
  /\ UNCHANGED <<world, drawn, due, typed, taken, astray>>

RunEnds(k) ==
  /\ CaughtUp /\ tab.turns[k].at = "running"
  /\ \E t \in Hearings(k) : tab' = Ends(t, k)
  /\ Happened
  /\ UNCHANGED <<world, drawn, due, typed, taken, astray>>

\* The run fails because the thread is unknown: nothing is shown and the reply stays
\* awaited.
ThreadUnknown(k) ==
  /\ CaughtUp /\ tab.turns[k].at = "running"
  /\ tab' = Ends(tab, k)
  /\ Happened
  /\ UNCHANGED <<world, drawn, due, typed, taken, astray>>

\* The stop button; the run's end comes after it and is not awaited.  It does not reach
\* the run of an agent that was left.
Stop(k) ==
  /\ CaughtUp /\ tab.turns[k].at \in {"running", "between"}
  /\ \/ tab' = Ends(Heard(tab), k)
     \/ tab.turns[k].left /\ tab' = Heard(tab)
  /\ Happened
  /\ UNCHANGED <<world, drawn, due, typed, taken, astray>>

\* connectAgent: a run is found and joined, beside the turns under way; or there is none,
\* or the thread is unknown; or it fails, which is heard.
Disturbed(t) ==
  [t EXCEPT !.turns = [k \in DOMAIN @ |-> [@[k] EXCEPT !.quiet = @ /\ k \notin Live(t)]]]
Connected ==
  /\ CaughtUp /\ rejoin
  /\ rejoin' = FALSE
  /\ \/ wire' = TRUE /\ tab' = Disturbed(tab)
     \/ UNCHANGED <<wire, tab>>
     \/ UNCHANGED wire /\ tab' = Disturbed(Heard(tab))
  /\ Happened
  /\ UNCHANGED <<lagging, deleted, focus, focuses, drawn, due, typed, taken, astray>>

\* The joined run ends or is stopped: the subscriber cannot tell it from a turn's.
JoinedEnds ==
  /\ CaughtUp /\ wire
  /\ wire' = FALSE /\ tab' = Heard(tab)
  /\ Happened
  /\ UNCHANGED <<lagging, rejoin, deleted, focus, focuses, drawn, due, typed, taken, astray>>

\* The page follows a Bot that needs somebody, or one that uses its computer.
PointsAt(b) ==
  /\ CaughtUp /\ Bounded /\ focus # b
  /\ focus' = b /\ focuses' = focuses + 1
  /\ Happened
  /\ UNCHANGED <<lagging, tab, rejoin, wire, deleted, drawn, due, typed, taken, astray>>

\* A Bot of the channel is deleted, which closes it.
Delete ==
  /\ CaughtUp /\ ~deleted
  /\ deleted' = TRUE
  /\ Happened
  /\ UNCHANGED <<lagging, tab, rejoin, wire, focus, focuses, drawn, due, typed, taken, astray>>

-----------------------------------------------------------------------------
\* A new channel has its first message; a known one is connected to its thread.
Init ==
  /\ \E turns \in {<<>>, <<Turn(<<[id |-> 1, to |-> Nobody]>>, Nobody, "seed", "joining")>>} :
       /\ tab = [queue |-> <<>>, turns |-> turns, speaker |-> First, running |-> FALSE,
                 submitting |-> FALSE, pending |-> 0, awaiting |-> FALSE]
       /\ typed = Len(turns)
       /\ rejoin = (turns = <<>>)
  /\ lagging \in BOOLEAN /\ wire = FALSE /\ deleted = FALSE /\ focus = Nobody /\ focuses = 0
  /\ drawn = Render
  /\ due = {} /\ flush = "nothing" /\ taken = {} /\ astray = {}

TurnStep(k) == Gone(k) \/ GateOpens(k) \/ RunStarts(k) \/ RunEnds(k)
Next ==
  \/ \E to \in Members \cup {Nobody} : Press(to) \/ SendAndGo(to)
  \/ \E i \in DOMAIN tab.queue : TakeBack(i)
  \/ Ask \/ Commit \/ Effects \/ Connected \/ JoinedEnds \/ Delete
  \/ \E k \in DOMAIN tab.turns : TurnStep(k) \/ RunPauses(k) \/ ThreadUnknown(k) \/ Stop(k)
  \/ \E b \in Members : PointsAt(b)

Spec == Init /\ [][Next]_vars

\* React catches up, and a run ends: the server watches every stream (StallGuard).
Fairness ==
  /\ WF_vars(Commit) /\ WF_vars(Effects) /\ WF_vars(JoinedEnds)
  /\ \A k \in 1..MaxEvents :
       WF_vars(k \in DOMAIN tab.turns /\ TurnStep(k))
FairSpec == Spec /\ Fairness

-----------------------------------------------------------------------------
Messages == 1..MaxEvents
TypeOK ==
  /\ tab.queue \in Seq([id : Messages, to : Members \cup {Nobody}])
  /\ tab.speaker \in Members /\ tab.pending \in 0..Len(tab.turns)
  /\ due \subseteq {"drain", "focus", "bind"} /\ flush \in {"nothing", "render", "effects"}
  /\ \A k \in DOMAIN tab.turns :
       tab.turns[k].at \in {"joining", "held", "ready", "running", "between", "enqueuing", "over"}

InQueue == {tab.queue[i].id : i \in DOMAIN tab.queue}
Words(k) == {tab.turns[k].text[i].id : i \in DOMAIN tab.turns[k].text}

\* What a person types goes out once, and to the Bot it names, whatever falls between an
\* event and its render (queue.ts, reduceQueue; channel-chat.tsx, onSubmit and the pending
\* send).
WordsGoOutOnce ==
  /\ TypeOK
  /\ \A m \in 1..typed :
       Cardinality({k \in DOMAIN tab.turns : m \in Words(k)})
         + (IF m \in InQueue THEN 1 ELSE 0) + (IF m \in taken THEN 1 ELSE 0) = 1
  /\ \A k \in DOMAIN tab.turns :
       LET t == tab.turns[k] IN
       t.voice # Nobody => \A i \in DOMAIN t.text : t.text[i].to \in {Nobody, t.voice}

\* And in the order it was typed, but for what was parked beside a message that goes to
\* the worker (conversation-view.tsx, inFlight and the drain).
WordsGoOutInOrder ==
  \A k \in DOMAIN tab.turns : tab.turns[k].by \in Typing =>
    /\ \A j \in 1..(k - 1) : tab.turns[j].by \in Typing =>
         \A m \in Words(j), n \in Words(k) \ astray : m < n
    /\ \A m \in InQueue \ astray, n \in Words(k) : n < m

\* The end of a turn's last run, told to nobody: told are those a reply is awaited of.
Untold(k) ==
  /\ k \in DOMAIN tab.turns /\ tab.turns[k].quiet /\ ~tab.awaiting
  /\ RunEnds(k)

\* The answer of a turn of one run is named and reported, or its failure shown, when
\* nothing came between: no other turn, joined run or speaker; but a failure because the
\* thread is unknown is not shown (channel-chat.tsx, the subscriber of the run's events).
QuietAnswersAreHeard ==
  [][\A k \in 1..MaxEvents : Untold(k) => tab.turns[k].run > 1]_vars

\* The failure of a turn of this mount is shown, whichever of its runs failed and why
\* (channel-chat.tsx, fail).
FailureIsShown ==
  [][\A k \in 1..MaxEvents :
       ~Untold(k) /\ ~(k \in DOMAIN tab.turns /\ tab.turns[k].quiet /\ ThreadUnknown(k))]_vars

\* What ends is "reported only for turns started in this mount" (channel-chat.tsx,
\* awaitingReply): a run that was joined is not taken for one of them.
ReportedForOwnTurns == [][JoinedEnds => ~tab.awaiting]_vars

\* Nothing is parked while the conversation is idle, so the end of a turn drains whatever
\* waits (conversation-view.tsx, the drain).
NothingWaitsIdle == CaughtUp /\ tab.queue # <<>> => drawn.busy \/ deleted

\* What is typed or parked never starts a turn beside another one
\* (conversation-view.tsx, inFlight and the drain).
StartsInTurn ==
  \A k \in DOMAIN tab'.turns \ DOMAIN tab.turns :
    tab'.turns[k].by \in {"box", "drain"} => ~Busy(tab)
TurnsAreInTurn == [][StartsInTurn]_vars

\* All that was typed is said in the end, but what is taken back, parked beside a message
\* that goes to the worker, or the channel closes (conversation-view.tsx, the drain;
\* channel-chat.tsx, the pending send).
AllIsSaid ==
  \A m \in 1..typed :
    \/ m \in taken \cup astray \/ deleted
    \/ \E k \in DOMAIN tab.turns : m \in Words(k) /\ tab.turns[k].at = "over"
EveryMessageIsSaid == []<>AllIsSaid
=============================================================================
