---------------------------- MODULE StallGuard ----------------------------
(***************************************************************************)
(* The watch on the streams of a deployment's Bots: the pump that relays   *)
(* each stream, the watchdog that keeps a clock for it, and the sweep that *)
(* ends a turn whose Bot has said nothing for the configured time.         *)
(*                                                                         *)
(* The watchdog stores when a stream was last heard; the model keeps how   *)
(* long ago that was, up to the time that matters, so the clock needs no   *)
(* bound.                                                                  *)
(***************************************************************************)
EXTENDS Naturals, Sequences, FiniteSets

CONSTANTS Streams,    \* the streams, one per run of a Bot
          Protobuf,   \* those whose content type is the protobuf one
          StallTime,  \* stallMs, in ticks of the clock
          MaxChunks,  \* bound on the chunks of one Bot
          Prompt      \* the event loop hands out what has arrived before time passes

ASSUME StallAssumption ==
  /\ Protobuf \subseteq Streams
  /\ StallTime \in Nat \ {0} /\ MaxChunks \in Nat
  /\ Prompt \in BOOLEAN

VARIABLES pump,     \* none, reading, writing, over
          entry,    \* the watchdog's entry: is it there, its age, is it paused
          sweeper,  \* the interval that sweeps is armed
          bot,      \* the Bot's side: open, closed, broken, cancelled
          sent,     \* how many chunks the Bot has sent
          pipe,     \* how many of them have not been read
          out,      \* what the relay's writable end was given
          waited    \* history: how long the pump has been waiting for the Bot

vars == <<pump, entry, sweeper, bot, sent, pipe, out, waited>>
upstream == <<bot, sent, pipe>>

Unwatched == [watched |-> FALSE, age |-> 0, paused |-> FALSE]
Fresh == [watched |-> TRUE, age |-> 0, paused |-> FALSE]

Init ==
  /\ pump = [s \in Streams |-> "none"]
  /\ entry = [s \in Streams |-> Unwatched]
  /\ sweeper = FALSE
  /\ bot = [s \in Streams |-> "open"]
  /\ sent = [s \in Streams |-> 0]
  /\ pipe = [s \in Streams |-> 0]
  /\ out = [s \in Streams |-> << >>]
  /\ waited = [s \in Streams |-> 0]

Watching == {s \in Streams : entry[s].watched}

\* `finished`: the stream has been released to whoever ends it.
Ended(s) == \E i \in 1..Len(out[s]) : out[s][i] \in {"close", "abort"}

Older_Unlimited(t) == t + 1

\* now - lastChunkAt, up to the time that matters.
Older(t) == IF t < StallTime THEN t + 1 ELSE t

---------------------------------------------------------------------------
(* The Bot.                                                                *)

BotSpeaks(s) ==
  /\ pump[s] # "none" /\ bot[s] = "open" /\ sent[s] < MaxChunks
  /\ sent' = [sent EXCEPT ![s] = @ + 1]
  /\ pipe' = [pipe EXCEPT ![s] = @ + 1]
  /\ UNCHANGED <<pump, entry, sweeper, bot, out, waited>>

BotHangsUp(s) ==
  /\ pump[s] # "none" /\ bot[s] = "open"
  /\ \E how \in {"closed", "broken"} : bot' = [bot EXCEPT ![s] = how]
  /\ UNCHANGED <<pump, entry, sweeper, sent, pipe, out, waited>>

---------------------------------------------------------------------------
(* watch and pump.                                                         *)

\* watch: the Bot has answered, the stream is watched and the pump started.
Open(s) ==
  /\ pump[s] = "none"
  /\ pump' = [pump EXCEPT ![s] = "reading"]
  /\ entry' = [entry EXCEPT ![s] = Fresh]
  /\ sweeper' = TRUE
  /\ UNCHANGED <<upstream, out, waited>>

\* record and pause: the clock of a watched stream stops at its chunk.
Recorded(e) == IF e.watched THEN [Fresh EXCEPT !.paused = TRUE] ELSE e

Recorded_NoPause(e) == IF e.watched THEN Fresh ELSE e

Resumed_KeepsAge(e) == [e EXCEPT !.paused = FALSE]

\* resume: it starts again from now.
Resumed(e) == IF e.watched THEN Fresh ELSE e

\* A read resolves with a chunk, which is handed to the relay.
Read(s) ==
  /\ pump[s] = "reading" /\ pipe[s] > 0 /\ bot[s] \in {"open", "closed"}
  /\ pipe' = [pipe EXCEPT ![s] = @ - 1]
  /\ entry' = [entry EXCEPT ![s] = Recorded(@)]
  /\ pump' = [pump EXCEPT ![s] = "writing"]
  /\ waited' = [waited EXCEPT ![s] = 0]
  /\ UNCHANGED <<sweeper, bot, sent, out>>

\* The consumer takes delivery.
Deliver(s) ==
  /\ pump[s] = "writing"
  /\ out' = [out EXCEPT ![s] = Append(@, "chunk")]
  /\ entry' = [entry EXCEPT ![s] = Resumed(@)]
  /\ pump' = [pump EXCEPT ![s] = "reading"]
  /\ UNCHANGED <<sweeper, upstream, waited>>

Released_Always(s, how) ==
  /\ out' = [out EXCEPT ![s] = Append(@, how)]
  /\ entry' = [entry EXCEPT ![s] = Unwatched]

\* release: only its first caller ends the stream, and it leaves the watch.
Released(s, how) ==
  /\ out' = [out EXCEPT ![s] = IF Ended(s) THEN @ ELSE Append(@, how)]
  /\ entry' = [entry EXCEPT ![s] = Unwatched]

\* The consumer has gone: the write throws, and the relay is aborted.
WriteFails(s) ==
  /\ pump[s] = "writing"
  /\ Released(s, "abort")
  /\ pump' = [pump EXCEPT ![s] = "over"]
  /\ UNCHANGED <<sweeper, upstream, waited>>

\* The Bot's body has ended, or was cancelled: the read resolves as done.
ReadDone(s) ==
  /\ pump[s] = "reading"
  /\ bot[s] = "cancelled" \/ (bot[s] = "closed" /\ pipe[s] = 0)
  /\ Released(s, "close")
  /\ pump' = [pump EXCEPT ![s] = "over"]
  /\ UNCHANGED <<sweeper, upstream, waited>>

\* The Bot's connection broke: the reason is passed on as an abort.
ReadThrows(s) ==
  /\ pump[s] = "reading" /\ bot[s] = "broken"
  /\ Released(s, "abort")
  /\ pump' = [pump EXCEPT ![s] = "over"]
  /\ UNCHANGED <<sweeper, upstream, waited>>

\* A read has something to resolve with.
Ready(s) == pump[s] = "reading" /\ (pipe[s] > 0 \/ bot[s] # "open")

---------------------------------------------------------------------------
(* The sweep.                                                              *)

Silent_EvenPaused == {s \in Watching : entry[s].age >= StallTime}

Silent == {s \in Watching : ~entry[s].paused /\ entry[s].age >= StallTime}

\* giveUp: the sentence, unless the stream is protobuf, and the end.
Sentence(s) == IF s \in Protobuf THEN <<"close">> ELSE <<"stalled", "close">>

StillArmed_Never(S) == FALSE

\* The interval is cleared when nothing is watched any more.
StillArmed(S) == Watching \ S # {}

Sweep ==
  /\ sweeper
  /\ Prompt => \A s \in Streams : ~Ready(s)
  /\ entry' = [s \in Streams |-> IF s \in Silent THEN Unwatched ELSE entry[s]]
  /\ out' = [s \in Streams |->
               IF s \in Silent /\ ~Ended(s) THEN out[s] \o Sentence(s) ELSE out[s]]
  /\ bot' = [s \in Streams |-> IF s \in Silent THEN "cancelled" ELSE bot[s]]
  /\ sweeper' = StillArmed(Silent)
  /\ UNCHANGED <<pump, sent, pipe, waited>>

Tick ==
  /\ Prompt => \A s \in Streams : ~Ready(s)
  /\ entry' = [s \in Streams |->
                 IF entry[s].watched THEN [entry[s] EXCEPT !.age = Older(@)]
                                     ELSE entry[s]]
  /\ waited' = [s \in Streams |->
                  IF pump[s] = "reading" THEN Older(waited[s]) ELSE waited[s]]
  /\ UNCHANGED <<pump, sweeper, upstream, out>>

PumpStep(s) == \/ Read(s) \/ Deliver(s) \/ WriteFails(s)
               \/ ReadDone(s) \/ ReadThrows(s)

Next ==
  \/ \E s \in Streams : BotSpeaks(s) \/ BotHangsUp(s) \/ Open(s) \/ PumpStep(s)
  \/ Sweep \/ Tick

\* Time passes, the interval fires, and what has arrived is handed out. Nothing is
\* assumed of the Bot or of the consumer.
Fairness ==
  /\ WF_vars(Tick) /\ WF_vars(Sweep)
  /\ \A s \in Streams : WF_vars(Read(s) \/ ReadDone(s) \/ ReadThrows(s))

Spec == Init /\ [][Next]_vars
FairSpec == Spec /\ Fairness

---------------------------------------------------------------------------
\* Every variable has its type.
TypeOK ==
  /\ pump \in [Streams -> {"none", "reading", "writing", "over"}]
  /\ entry \in [Streams -> [watched : BOOLEAN, age : 0..StallTime, paused : BOOLEAN]]
  /\ sweeper \in BOOLEAN
  /\ bot \in [Streams -> {"open", "closed", "broken", "cancelled"}]
  /\ sent \in [Streams -> 0..MaxChunks] /\ pipe \in [Streams -> 0..MaxChunks]
  /\ out \in [Streams -> Seq({"chunk", "stalled", "close", "abort"})]
  /\ waited \in [Streams -> 0..StallTime]

Stalled(s) == bot[s] = "cancelled"

\* Only quiet on the wire is counted: a turn is ended for silence only when the
\* pump has waited for the Bot itself for the whole time, however long its reader
\* took over earlier chunks (record, pause and resume).
OnlyTheBotsSilence == \A s \in Streams : Stalled(s) => waited[s] >= StallTime

\* The clock of every stream being watched is the pump's own wait, and it is
\* stopped exactly while a chunk is being handed over (what OnlyTheBotsSilence
\* rests on).
ClockIsTheWait ==
  \A s \in Watching :
    /\ entry[s].paused <=> pump[s] = "writing"
    /\ ~entry[s].paused => entry[s].age = waited[s]

\* The watch as a whole: the types, whose silence it counts, and by which clock.
WatchIsHonest == TypeOK /\ OnlyTheBotsSilence /\ ClockIsTheWait

\* The ending a reader saw, from what the relay was given: "twice" is none of the
\* endings a turn may have.
EndingOf(s) ==
  LET ends == {i \in 1..Len(out[s]) : out[s][i] \in {"close", "abort"}}
  IN  IF ends = {} THEN "open"
      ELSE IF Cardinality(ends) > 1 \/ \E i \in ends : i < Len(out[s]) THEN "twice"
      ELSE IF Stalled(s) THEN "stalled"
      ELSE IF out[s][Len(out[s])] = "abort" THEN "broken" ELSE "completed"

Endings == INSTANCE TurnEndings WITH
  ending <- [s \in Streams |-> EndingOf(s)],
  relayed <- [s \in Streams |-> Cardinality({i \in 1..Len(out[s]) : out[s][i] = "chunk"})]

\* Each turn ends once and in one way, and nothing is relayed after its end,
\* whichever of the pump and the stall comes first.
TurnsEndOnce == Endings!EndingsSpec

\* A pump that waits for its Bot does not wait for ever.
SilenceEnds == \A s \in Streams : pump[s] = "reading" ~> pump[s] # "reading"

\* A turn is not ended while a chunk of its Bot is already here ("a pause on this
\* side of the wire").
NothingWasWaiting ==
  [][\A s \in Streams : bot[s] # "cancelled" /\ bot'[s] = "cancelled" => pipe[s] = 0]_vars
===========================================================================
