----------------------------- MODULE WaitsProofs -----------------------------
(***************************************************************************)
(* What is proved of those who wait, part by part: the watch on a Bot's    *)
(* stream, the runs of a thread, the browsers of a computer.               *)
(***************************************************************************)
EXTENDS Waits, FiniteSetTheorems, TLAPS

\* Whatever is proved of a part holds where the parts are composed: a behaviour of
\* the composition is, seen from each part, one of that part.
THEOREM EachPartIsItself ==
  PartsSpec => Spec /\ UnattendedRun!Spec /\ Browsers!Spec
<1>1. PartsInit => Init /\ UnattendedRun!Init /\ Browsers!Init
  BY DEF PartsInit
<1>2. [PartsNext]_all =>
        [Next]_vars /\ [UnattendedRun!Next]_UnattendedRun!vars /\ [Browsers!Next]_Browsers!vars
  BY DEF PartsNext, all, run, browsers, UnattendedRun!vars, Browsers!vars, Browsers!maps,
         Browsers!calls, Browsers!history
<1> QED
  BY <1>1, <1>2, PTL DEF PartsSpec, Spec, UnattendedRun!Spec, Browsers!Spec

-----------------------------------------------------------------------------
(* The watch on a Bot's stream: a turn is ended for silence only when the  *)
(* Bot itself was silent. The watchdog's clock of every watched stream is  *)
(* the pump's own wait, for any number of streams, any timeout and any     *)
(* consumer.                                                               *)


\* The types the argument needs: the watchdog's entries and the pump.
ClockTypes ==
  /\ pump \in [Streams -> {"none", "reading", "writing", "over"}]
  /\ entry \in [Streams -> [watched : BOOLEAN, age : 0..StallTime, paused : BOOLEAN]]
  /\ bot \in [Streams -> {"open", "closed", "broken", "cancelled"}]
  /\ waited \in [Streams -> 0..StallTime]

\* Where a stream is, seen from its clock. The wait is measured only while the
\* pump reads, and a stream is watched only while it is pumped.
ClockOf(s) ==
  /\ pump[s] \in {"none", "writing"} => waited[s] = 0
  /\ entry[s].watched =>
       /\ pump[s] \in {"reading", "writing"}
       /\ entry[s].paused <=> pump[s] = "writing"
       /\ ~entry[s].paused => entry[s].age = waited[s]
  /\ bot[s] = "cancelled" => waited[s] >= StallTime /\ pump[s] \in {"reading", "over"}

ClockInv == ClockTypes /\ \A s \in Streams : ClockOf(s)

\* The entries the pump writes have the entries' type.
LEMMA EntryTypes ==
  ASSUME NEW e \in [watched : BOOLEAN, age : 0..StallTime, paused : BOOLEAN]
  PROVE  LET E == [watched : BOOLEAN, age : 0..StallTime, paused : BOOLEAN]
         IN Fresh \in E /\ Unwatched \in E /\ Recorded(e) \in E /\ Resumed(e) \in E
<1>1. 0 \in 0..StallTime
  BY StallAssumption DEF StallAssumption
<1>2. /\ Fresh \in [watched : BOOLEAN, age : 0..StallTime, paused : BOOLEAN]
      /\ Unwatched \in [watched : BOOLEAN, age : 0..StallTime, paused : BOOLEAN]
      /\ [Fresh EXCEPT !.paused = TRUE] \in
           [watched : BOOLEAN, age : 0..StallTime, paused : BOOLEAN]
  BY <1>1 DEF Fresh, Unwatched
<1> QED
  BY <1>2 DEF Recorded, Resumed

\* Time makes nothing leave its type, and it never shortens a whole wait.
LEMMA OlderStays ==
  ASSUME NEW t \in 0..StallTime
  PROVE  Older(t) \in 0..StallTime /\ (t >= StallTime => Older(t) >= StallTime)
BY StallAssumption DEF StallAssumption, Older

\* The invariant holds at first: nothing is watched.
LEMMA ClockInit == Init => ClockInv
<1> SUFFICES ASSUME Init PROVE ClockInv
  OBVIOUS
<1>1. 0 \in 0..StallTime
  BY StallAssumption DEF StallAssumption
<1>2. Unwatched \in [watched : BOOLEAN, age : 0..StallTime, paused : BOOLEAN]
  BY <1>1 DEF Unwatched
<1>3. ClockTypes
  BY <1>1, <1>2 DEF Init, ClockTypes
<1>4. \A s \in Streams : ClockOf(s)
  BY DEF Init, ClockOf, Unwatched
<1> QED
  BY <1>3, <1>4 DEF ClockInv

\* A step of one stream leaves the others' clocks as they are, so it is enough
\* that it keeps the types and the clock of that stream.
LEMMA OneStream ==
  ASSUME ClockInv, NEW s \in Streams, ClockTypes', ClockOf(s)',
         \A t \in Streams \ {s} : /\ pump'[t] = pump[t] /\ entry'[t] = entry[t]
                                  /\ bot'[t] = bot[t] /\ waited'[t] = waited[t]
  PROVE  ClockInv'
BY DEF ClockInv, ClockOf

\* Every step keeps the clocks.
LEMMA ClockStep == ClockInv /\ [Next]_vars => ClockInv'
<1> SUFFICES ASSUME ClockInv, [Next]_vars PROVE ClockInv'
  OBVIOUS
<1>t. ClockTypes
  BY DEF ClockInv
<1>z. 0 \in 0..StallTime
  BY StallAssumption DEF StallAssumption
<1>s. ASSUME NEW s \in Streams
      PROVE  /\ ClockOf(s)
             /\ pump[s] \in {"none", "reading", "writing", "over"}
             /\ entry[s] \in [watched : BOOLEAN, age : 0..StallTime, paused : BOOLEAN]
             /\ bot[s] \in {"open", "closed", "broken", "cancelled"}
             /\ waited[s] \in 0..StallTime
  BY <1>t DEF ClockInv, ClockTypes
<1>1. ASSUME NEW s \in Streams, BotSpeaks(s) PROVE ClockInv'
  BY <1>1 DEF BotSpeaks, ClockInv, ClockTypes, ClockOf
<1>2. ASSUME NEW s \in Streams, BotHangsUp(s) PROVE ClockInv'
  <2>1. PICK how \in {"closed", "broken"} : bot' = [bot EXCEPT ![s] = how]
    BY <1>2 DEF BotHangsUp
  <2>2. UNCHANGED <<pump, entry, waited>>
    BY <1>2 DEF BotHangsUp
  <2>3. ClockTypes'
    BY <1>t, <2>1, <2>2 DEF ClockTypes
  <2>4. ClockOf(s)'
    BY <1>t, <1>s, <2>1, <2>2 DEF ClockOf, ClockTypes
  <2> QED
    BY <1>t, <2>1, <2>2, <2>3, <2>4, OneStream DEF ClockTypes
<1>3. ASSUME NEW s \in Streams, Open(s) PROVE ClockInv'
  <2>1. /\ pump' = [pump EXCEPT ![s] = "reading"]
        /\ entry' = [entry EXCEPT ![s] = Fresh]
        /\ UNCHANGED <<bot, waited>>
        /\ pump[s] = "none"
    BY <1>3 DEF Open, upstream
  <2>2. Fresh \in [watched : BOOLEAN, age : 0..StallTime, paused : BOOLEAN]
    BY <1>s, EntryTypes
  <2>3. ClockTypes'
    BY <1>t, <2>1, <2>2 DEF ClockTypes
  <2>4. waited[s] = 0 /\ bot[s] # "cancelled"
    BY <1>s, <2>1 DEF ClockOf
  <2>5. ClockOf(s)'
    BY <1>t, <2>1, <2>4 DEF ClockOf, ClockTypes, Fresh
  <2> QED
    BY <1>t, <2>1, <2>3, <2>5, OneStream DEF ClockTypes
<1>4. ASSUME NEW s \in Streams, Read(s) PROVE ClockInv'
  <2>1. /\ pump' = [pump EXCEPT ![s] = "writing"]
        /\ entry' = [entry EXCEPT ![s] = Recorded(entry[s])]
        /\ waited' = [waited EXCEPT ![s] = 0]
        /\ UNCHANGED bot
        /\ bot[s] # "cancelled"
    BY <1>4 DEF Read
  <2>2. Recorded(entry[s]) \in [watched : BOOLEAN, age : 0..StallTime, paused : BOOLEAN]
    BY <1>s, EntryTypes
  <2>3. ClockTypes'
    BY <1>t, <1>z, <2>1, <2>2 DEF ClockTypes
  <2>4. Recorded(entry[s]).watched => Recorded(entry[s]).paused
    BY <1>s DEF Recorded, Fresh
  <2>5. /\ pump'[s] = "writing" /\ entry'[s] = Recorded(entry[s])
        /\ waited'[s] = 0 /\ bot'[s] # "cancelled"
    BY <1>t, <2>1 DEF ClockTypes
  <2>6. ClockOf(s)'
    BY <2>4, <2>5 DEF ClockOf
  <2> QED
    BY <1>t, <2>1, <2>3, <2>6, OneStream DEF ClockTypes
<1>5. ASSUME NEW s \in Streams, Deliver(s) PROVE ClockInv'
  <2>1. /\ pump' = [pump EXCEPT ![s] = "reading"]
        /\ entry' = [entry EXCEPT ![s] = Resumed(entry[s])]
        /\ UNCHANGED <<bot, waited>>
        /\ pump[s] = "writing"
    BY <1>5 DEF Deliver, upstream
  <2>2. Resumed(entry[s]) \in [watched : BOOLEAN, age : 0..StallTime, paused : BOOLEAN]
    BY <1>s, EntryTypes
  <2>3. ClockTypes'
    BY <1>t, <2>1, <2>2 DEF ClockTypes
  <2>4. Resumed(entry[s]).watched =>
          ~Resumed(entry[s]).paused /\ Resumed(entry[s]).age = 0
    BY <1>s DEF Resumed, Fresh
  <2>5. waited[s] = 0 /\ bot[s] # "cancelled"
    BY <1>s, <2>1 DEF ClockOf
  <2>6. /\ pump'[s] = "reading" /\ entry'[s] = Resumed(entry[s])
        /\ waited'[s] = 0 /\ bot'[s] # "cancelled"
    BY <1>t, <2>1, <2>5 DEF ClockTypes
  <2>7. ClockOf(s)'
    BY <2>4, <2>6 DEF ClockOf
  <2> QED
    BY <1>t, <2>1, <2>3, <2>7, OneStream DEF ClockTypes
<1>6. ASSUME NEW s \in Streams, WriteFails(s) \/ ReadDone(s) \/ ReadThrows(s)
      PROVE ClockInv'
  <2>1. /\ pump' = [pump EXCEPT ![s] = "over"]
        /\ entry' = [entry EXCEPT ![s] = Unwatched]
        /\ UNCHANGED <<bot, waited>>
    BY <1>6 DEF WriteFails, ReadDone, ReadThrows, Released, upstream
  <2>2. Unwatched \in [watched : BOOLEAN, age : 0..StallTime, paused : BOOLEAN]
    BY <1>s, EntryTypes
  <2>3. ClockTypes'
    BY <1>t, <2>1, <2>2 DEF ClockTypes
  <2>4. bot[s] = "cancelled" => waited[s] >= StallTime
    BY <1>s DEF ClockOf
  <2>5. ClockOf(s)'
    BY <1>t, <2>1, <2>4 DEF ClockOf, ClockTypes, Unwatched
  <2> QED
    BY <1>t, <2>1, <2>3, <2>5, OneStream DEF ClockTypes
<1>7. CASE Sweep
  <2>1. /\ entry' = [s \in Streams |-> IF s \in Silent THEN Unwatched ELSE entry[s]]
        /\ bot' = [s \in Streams |-> IF s \in Silent THEN "cancelled" ELSE bot[s]]
        /\ UNCHANGED <<pump, waited>>
    BY <1>7 DEF Sweep
  <2>2. ClockTypes'
    BY <1>t, <1>s, <2>1, EntryTypes DEF ClockTypes
  <2>3. ASSUME NEW s \in Streams PROVE ClockOf(s)'
    <3>1. CASE s \in Silent
      <4>1. entry'[s] = Unwatched /\ bot'[s] = "cancelled"
        BY <2>1, <3>1
      <4>2. entry[s].watched /\ ~entry[s].paused /\ entry[s].age >= StallTime
        BY <3>1 DEF Silent, Watching
      <4>3. pump[s] = "reading" /\ waited[s] >= StallTime
        BY <1>s, <4>2 DEF ClockOf
      <4> QED
        BY <2>1, <4>1, <4>3 DEF ClockOf, Unwatched
    <3>2. CASE s \notin Silent
      <4>1. entry'[s] = entry[s] /\ bot'[s] = bot[s]
        BY <2>1, <3>2
      <4> QED
        BY <1>s, <2>1, <4>1 DEF ClockOf
    <3> QED
      BY <3>1, <3>2
  <2> QED
    BY <2>2, <2>3 DEF ClockInv
<1>8. CASE Tick
  <2>1. /\ entry' = [s \in Streams |->
                      IF entry[s].watched THEN [entry[s] EXCEPT !.age = Older(@)]
                                          ELSE entry[s]]
        /\ waited' = [s \in Streams |->
                       IF pump[s] = "reading" THEN Older(waited[s]) ELSE waited[s]]
        /\ UNCHANGED <<pump, bot>>
    BY <1>8 DEF Tick, upstream
  <2>2. ASSUME NEW s \in Streams
        PROVE  /\ entry'[s] \in
                    [watched : BOOLEAN, age : 0..StallTime, paused : BOOLEAN]
               /\ waited'[s] \in 0..StallTime
    <3>1. entry[s].age \in 0..StallTime /\ Older(entry[s].age) \in 0..StallTime
      BY <1>s, OlderStays
    <3>2. waited[s] \in 0..StallTime /\ Older(waited[s]) \in 0..StallTime
      BY <1>s, OlderStays
    <3> QED
      BY <1>s, <2>1, <3>1, <3>2
  <2>3. ClockTypes'
    <3>1. entry' \in [Streams -> [watched : BOOLEAN, age : 0..StallTime,
                                  paused : BOOLEAN]]
      BY <2>1, <2>2
    <3>2. waited' \in [Streams -> 0..StallTime]
      BY <2>1, <2>2
    <3> QED
      BY <1>t, <2>1, <3>1, <3>2 DEF ClockTypes
  <2>4. ASSUME NEW s \in Streams PROVE ClockOf(s)'
    <3>1. /\ entry'[s].watched = entry[s].watched
          /\ entry'[s].paused = entry[s].paused
          /\ entry[s].watched => entry'[s].age = Older(entry[s].age)
      BY <1>s, <2>1
    <3>2. /\ pump[s] = "reading" => waited'[s] = Older(waited[s])
          /\ pump[s] # "reading" => waited'[s] = waited[s]
      BY <2>1
    <3>3. waited[s] >= StallTime => waited'[s] >= StallTime
      BY <1>s, <3>2, OlderStays
    <3>4. pump'[s] = pump[s] /\ bot'[s] = bot[s]
      BY <2>1
    <3> QED
      BY <1>s, <3>1, <3>2, <3>3, <3>4 DEF ClockOf
  <2> QED
    BY <2>3, <2>4 DEF ClockInv
<1>9. CASE UNCHANGED vars
  BY <1>9 DEF vars, upstream, ClockInv, ClockTypes, ClockOf
<1> QED
  BY <1>1, <1>2, <1>3, <1>4, <1>5, <1>6, <1>7, <1>8, <1>9 DEF Next, PumpStep

\* A turn is ended for silence only when the pump has waited for the Bot itself
\* for the whole time: a slow consumer never counts against a Bot.
THEOREM QuietIsTheBots == Spec => []OnlyTheBotsSilence
<1>1. ClockInv => OnlyTheBotsSilence
  BY DEF ClockInv, ClockOf, OnlyTheBotsSilence, Stalled
<1> QED
  BY <1>1, ClockInit, ClockStep, PTL DEF Spec

\* The clock of every watched stream is the pump's own wait, and it stands still
\* exactly while a chunk is handed over.
THEOREM ClockIsHonest == Spec => []ClockIsTheWait
<1>1. ClockInv => ClockIsTheWait
  BY DEF ClockInv, ClockOf, ClockIsTheWait, Watching
<1> QED
  BY <1>1, ClockInit, ClockStep, PTL DEF Spec

\* The types of the rest; what waits in the pipe has been sent.
RelayTypes ==
  /\ sweeper \in BOOLEAN
  /\ sent \in [Streams -> 0..MaxChunks] /\ pipe \in [Streams -> 0..MaxChunks]
  /\ \A s \in Streams : pipe[s] <= sent[s]
  /\ out \in [Streams -> Seq({"chunk", "stalled", "close", "abort"})]

\* What the relay is given in one step is one of the four.
LEMMA ReleasedType ==
  ASSUME RelayTypes, NEW s \in Streams, NEW how \in {"close", "abort"}, Released(s, how)
  PROVE  out' \in [Streams -> Seq({"chunk", "stalled", "close", "abort"})]
<1> DEFINE Marks == {"chunk", "stalled", "close", "abort"}
<1>1. out[s] \in Seq(Marks) /\ how \in Marks
  BY DEF RelayTypes
<1>2. Append(out[s], how) \in Seq(Marks)
  BY <1>1
<1> QED
  BY <1>1, <1>2 DEF Released, RelayTypes

\* The values keep their types.
LEMMA RelayStep == RelayTypes /\ [Next]_vars => RelayTypes'
<1> SUFFICES ASSUME RelayTypes, [Next]_vars PROVE RelayTypes'
  OBVIOUS
<1> DEFINE Marks == {"chunk", "stalled", "close", "abort"}
<1> USE StallAssumption DEF StallAssumption
<1>1. ASSUME NEW s \in Streams, BotSpeaks(s) PROVE RelayTypes'
  BY <1>1 DEF BotSpeaks, RelayTypes
<1>2. ASSUME NEW s \in Streams, BotHangsUp(s) PROVE RelayTypes'
  BY <1>2 DEF BotHangsUp, RelayTypes
<1>3. ASSUME NEW s \in Streams, Open(s) PROVE RelayTypes'
  BY <1>3 DEF Open, upstream, RelayTypes
<1>4. ASSUME NEW s \in Streams, Read(s) PROVE RelayTypes'
  BY <1>4 DEF Read, RelayTypes
<1>5. ASSUME NEW s \in Streams, Deliver(s) PROVE RelayTypes'
  <2>1. out[s] \in Seq(Marks) /\ "chunk" \in Marks
    BY DEF RelayTypes
  <2>2. Append(out[s], "chunk") \in Seq(Marks)
    BY <2>1
  <2> QED
    BY <1>5, <2>2 DEF Deliver, upstream, RelayTypes
<1>6. ASSUME NEW s \in Streams, WriteFails(s) PROVE RelayTypes'
  BY <1>6, ReleasedType DEF WriteFails, upstream, RelayTypes
<1>7. ASSUME NEW s \in Streams, ReadDone(s) PROVE RelayTypes'
  BY <1>7, ReleasedType DEF ReadDone, upstream, RelayTypes
<1>8. ASSUME NEW s \in Streams, ReadThrows(s) PROVE RelayTypes'
  BY <1>8, ReleasedType DEF ReadThrows, upstream, RelayTypes
<1>9. ASSUME Sweep PROVE RelayTypes'
  <2>1. sweeper' \in BOOLEAN
    BY <1>9 DEF Sweep, StillArmed
  <2>2. ASSUME NEW s \in Streams
        PROVE  /\ out[s] \in Seq(Marks)
               /\ out[s] \o Sentence(s) \in Seq(Marks)
    <3>1. <<"close">> \in Seq(Marks) /\ <<"stalled", "close">> \in Seq(Marks)
      <4>1. "close" \in Marks /\ "stalled" \in Marks
        OBVIOUS
      <4>2. << >> \in Seq(Marks)
        OBVIOUS
      <4>3. Append(<< >>, "close") \in Seq(Marks) /\ Append(<< >>, "stalled") \in Seq(Marks)
        BY <4>1, <4>2
      <4>4. <<"close">> = Append(<< >>, "close") /\ <<"stalled">> = Append(<< >>, "stalled")
        OBVIOUS
      <4>5. Append(<<"stalled">>, "close") \in Seq(Marks)
        BY <4>1, <4>3, <4>4
      <4>6. <<"stalled", "close">> = Append(<<"stalled">>, "close")
        OBVIOUS
      <4> QED
        BY <4>3, <4>4, <4>5, <4>6
    <3>2. out[s] \in Seq(Marks)
      BY DEF RelayTypes
    <3>3. Sentence(s) \in Seq(Marks)
      BY <3>1 DEF Sentence
    <3> QED
      BY <3>2, <3>3
  <2>3. out' \in [Streams -> Seq(Marks)]
    BY <1>9, <2>2 DEF Sweep
  <2> QED
    BY <1>9, <2>1, <2>3 DEF Sweep, RelayTypes
<1>10. ASSUME Tick PROVE RelayTypes'
  BY <1>10 DEF Tick, upstream, RelayTypes
<1>11. CASE UNCHANGED vars
  BY <1>11 DEF vars, RelayTypes
<1> QED
  BY <1>1, <1>2, <1>3, <1>4, <1>5, <1>6, <1>7, <1>8, <1>9, <1>10, <1>11
     DEF Next, PumpStep

\* At first the relays are empty.
LEMMA RelayInit == Init => RelayTypes
<1> SUFFICES ASSUME Init PROVE RelayTypes
  OBVIOUS
<1>1. sweeper \in BOOLEAN
  BY Zenon DEF Init
<1>2. << >> \in Seq({"chunk", "stalled", "close", "abort"})
  OBVIOUS
<1>3. out \in [Streams -> Seq({"chunk", "stalled", "close", "abort"})]
  BY <1>2 DEF Init
<1> QED
  BY StallAssumption, <1>1, <1>3 DEF StallAssumption, Init, RelayTypes

\* The watch as the run checks it: types, whose silence counts, which clock.
THEOREM TheWatchIsHonest == Spec => []WatchIsHonest
<1>2. ClockInv /\ RelayTypes => TypeOK
  BY DEF ClockInv, ClockTypes, RelayTypes, TypeOK
<1>3. Spec => []TypeOK
  BY <1>2, RelayInit, RelayStep, ClockInit, ClockStep, PTL DEF Spec
<1> QED
  BY <1>3, QuietIsTheBots, ClockIsHonest, PTL DEF WatchIsHonest

-----------------------------------------------------------------------------
(* Each turn ends once and in one way: the watch implements TurnEndings.   *)

Marks == {"chunk", "stalled", "close", "abort"}
Final == {"close", "abort"}
EndsIn(o) == {i \in 1..Len(o) : o[i] \in Final}
ChunksIn(o) == {i \in 1..Len(o) : o[i] = "chunk"}

\* The end of a turn is the last its reader is given. After it the stream is not watched
\* and its pump hands nothing on, and until then a stream that is pumped is watched.
EndsOf(s) ==
  /\ EndsIn(out[s]) \subseteq {Len(out[s])}
  /\ Ended(s) => /\ ~entry[s].watched
                 /\ pump[s] = "over" \/ (pump[s] = "reading" /\ bot[s] = "cancelled")
  /\ bot[s] = "cancelled" => Ended(s)
  /\ pump[s] \in {"reading", "writing"} /\ ~Ended(s) => entry[s].watched
  /\ pump[s] = "none" => out[s] = << >>

EndsInv == ClockInv /\ RelayTypes /\ \A s \in Streams : EndsOf(s)

\* What one more mark adds to the ends and the chunks.
LEMMA OneMoreMark ==
  ASSUME NEW o \in Seq(Marks), NEW e \in Marks
  PROVE  /\ Append(o, e) \in Seq(Marks) /\ Len(Append(o, e)) = Len(o) + 1
         /\ EndsIn(Append(o, e)) = EndsIn(o) \cup (IF e \in Final THEN {Len(o) + 1} ELSE {})
         /\ Cardinality(ChunksIn(Append(o, e))) =
              IF e = "chunk" THEN Cardinality(ChunksIn(o)) + 1 ELSE Cardinality(ChunksIn(o))
<1> DEFINE p == Append(o, e)
<1>1. /\ p \in Seq(Marks) /\ Len(o) \in Nat /\ Len(p) = Len(o) + 1 /\ p[Len(o) + 1] = e
      /\ \A i \in 1..Len(o) : p[i] = o[i]
  OBVIOUS
<1> HIDE DEF p
<1>2. 1..Len(p) = 1..Len(o) \cup {Len(o) + 1} /\ Len(o) + 1 \notin 1..Len(o)
  BY <1>1
<1>3. EndsIn(p) = EndsIn(o) \cup (IF e \in Final THEN {Len(o) + 1} ELSE {})
  BY <1>1, <1>2 DEF EndsIn
<1>4. ChunksIn(p) = IF e = "chunk" THEN ChunksIn(o) \cup {Len(o) + 1} ELSE ChunksIn(o)
  BY <1>1, <1>2 DEF ChunksIn
<1>5. IsFiniteSet(ChunksIn(o)) /\ Len(o) + 1 \notin ChunksIn(o)
  <2>1. IsFiniteSet(1..Len(o))
    BY <1>1, FS_Interval
  <2> QED
    BY <1>2, <2>1, FS_Subset DEF ChunksIn
<1>6. Cardinality(ChunksIn(o) \cup {Len(o) + 1}) = Cardinality(ChunksIn(o)) + 1
  BY <1>5, FS_AddElement
<1> QED
  BY <1>1, <1>3, <1>4, <1>6 DEF p

\* Nobody is told the end of a turn twice.
LEMMA EndedIs ==
  ASSUME NEW s \in Streams, RelayTypes
  PROVE  /\ out[s] \in Seq(Marks) /\ Len(out[s]) \in Nat
         /\ Ended(s) <=> EndsIn(out[s]) # {}
<1>1. out[s] \in Seq(Marks)
  BY DEF RelayTypes, Marks
<1> QED
  BY <1>1 DEF Ended, EndsIn, Final

\* One mark that is not an end, or the first end, leaves the end the last.
LEMMA MarksEndOnce ==
  ASSUME NEW o \in Seq(Marks), EndsIn(o) = {}, NEW e \in Marks
  PROVE  /\ EndsIn(Append(o, e)) = IF e \in Final THEN {Len(Append(o, e))} ELSE {}
         /\ EndsIn(Append(o, e)) \subseteq {Len(Append(o, e))}
BY OneMoreMark

\* The sentence ends the turn, and says nothing the Bot said.
LEMMA SentenceEnds ==
  ASSUME NEW s \in Streams, NEW o \in Seq(Marks), EndsIn(o) = {}
  PROVE  LET p == o \o Sentence(s)
         IN  /\ p \in Seq(Marks) /\ EndsIn(p) = {Len(p)}
             /\ Cardinality(ChunksIn(p)) = Cardinality(ChunksIn(o))
<1> DEFINE q == Append(o, "stalled")
<1>1. /\ q \in Seq(Marks) /\ EndsIn(q) = {}
      /\ Cardinality(ChunksIn(q)) = Cardinality(ChunksIn(o))
  <2>1. "stalled" \in Marks /\ "stalled" \notin Final /\ "stalled" # "chunk"
    BY DEF Marks, Final
  <2> QED
    BY <2>1, OneMoreMark
<1>2. "close" \in Marks /\ "close" \in Final /\ "close" # "chunk"
  BY DEF Marks, Final
<1>3. CASE s \in Protobuf
  <2>1. o \o Sentence(s) = Append(o, "close")
    BY <1>3 DEF Sentence
  <2> QED
    BY <1>2, <2>1, OneMoreMark, MarksEndOnce
<1>4. CASE s \notin Protobuf
  <2>1. o \o Sentence(s) = Append(q, "close")
    BY <1>4 DEF Sentence
  <2> HIDE DEF q
  <2> QED
    BY <1>1, <1>2, <2>1, OneMoreMark, MarksEndOnce
<1> QED
  BY <1>3, <1>4

\* An end that is the last mark is the only one.
LEMMA OneEnd ==
  ASSUME NEW o \in Seq(Marks), EndsIn(o) \subseteq {Len(o)}, EndsIn(o) # {}
  PROVE  ~(Cardinality(EndsIn(o)) > 1 \/ \E i \in EndsIn(o) : i < Len(o))
<1> DEFINE ends == EndsIn(o)
<1>1. ends = {Len(o)} /\ Len(o) \in Nat
  OBVIOUS
<1>2. Cardinality(ends) = 1
  BY <1>1, FS_Singleton
<1> HIDE DEF ends
<1>3. ~(Cardinality(ends) > 1) /\ ~\E i \in ends : i < Len(o)
  BY <1>1, <1>2
<1> QED
  BY <1>3 DEF ends

\* The ending of a turn, in which the end is the last mark.
LEMMA EndingIs ==
  ASSUME NEW s \in Streams, RelayTypes, EndsOf(s)
  PROVE  EndingOf(s) = IF ~Ended(s) THEN "open"
                       ELSE IF Stalled(s) THEN "stalled"
                       ELSE IF out[s][Len(out[s])] = "abort" THEN "broken" ELSE "completed"
<1> DEFINE ends == EndsIn(out[s])
<1>1. EndingOf(s) = IF ends = {} THEN "open"
                    ELSE IF Cardinality(ends) > 1 \/ \E i \in ends :
                      i < Len(out[s]) THEN "twice"
                    ELSE IF Stalled(s) THEN "stalled"
                    ELSE IF out[s][Len(out[s])] = "abort" THEN "broken" ELSE "completed"
  BY DEF EndingOf, EndsIn, Final
<1>2. ends \subseteq {Len(out[s])} /\ out[s] \in Seq(Marks) /\ (Ended(s) <=> ends # {})
  BY EndedIs DEF EndsOf
<1>3. ends # {} => ~(Cardinality(ends) > 1 \/ \E i \in ends : i < Len(out[s]))
  BY <1>2, OneEnd
<1> HIDE DEF ends
<1> QED
  BY <1>1, <1>2, <1>3

\* A step that gives a stream's reader nothing and cancels nobody leaves its ending.
LEMMA EndingStays ==
  ASSUME NEW s \in Streams, out'[s] = out[s], Stalled(s)' = Stalled(s)
  PROVE  EndingOf(s)' = EndingOf(s)
BY DEF EndingOf

\* The first end a stream is released with is its ending, and a later one is not told.
LEMMA ReleaseEnds ==
  ASSUME NEW s \in Streams, NEW how \in Final, ClockInv, RelayTypes,
         \A r \in Streams : EndsOf(r), Released(s, how)
  PROVE  /\ ~Ended(s) => /\ out'[s] = Append(out[s], how) /\ Ended(s)'
                         /\ EndsIn(out'[s]) = {Len(out'[s])} /\ out'[s][Len(out'[s])] = how
         /\ Ended(s) => out' = out
         /\ entry'[s] = Unwatched
         /\ Cardinality(ChunksIn(out'[s])) = Cardinality(ChunksIn(out[s]))
         /\ \A r \in Streams \ {s} : out'[r] = out[r] /\ entry'[r] = entry[r]
<1>1. out \in [Streams -> Seq(Marks)] /\ entry[s] = entry[s] /\ s \in DOMAIN entry
  BY DEF RelayTypes, Marks, ClockInv, ClockTypes
<1>2. /\ out' = [out EXCEPT ![s] = IF Ended(s) THEN @ ELSE Append(@, how)]
      /\ entry' = [entry EXCEPT ![s] = Unwatched]
  BY DEF Released
<1>3. how \in Marks /\ how # "chunk"
  BY DEF Marks, Final
<1>4. CASE Ended(s)
  BY <1>1, <1>2, <1>4
<1>5. CASE ~Ended(s)
  <2>1. out'[s] = Append(out[s], how) /\ out[s] \in Seq(Marks) /\ EndsIn(out[s]) = {}
    BY <1>1, <1>2, <1>5, EndedIs
  <2>2. EndsIn(out'[s]) = {Len(out'[s])} /\ Len(out'[s]) \in 1..Len(out'[s])
    BY <1>3, <2>1, OneMoreMark, MarksEndOnce
  <2>3. out'[s][Len(out'[s])] = how
    BY <2>1
  <2>4. Ended(s)'
    BY <2>2, <2>3 DEF Ended, Final
  <2>5. Cardinality(ChunksIn(out'[s])) = Cardinality(ChunksIn(out[s]))
    BY <1>3, <2>1, OneMoreMark
  <2> QED
    BY <1>1, <1>2, <1>5, <2>1, <2>2, <2>3, <2>4, <2>5
<1> QED
  BY <1>4, <1>5

\* What happens to the endings in one step: nothing, a chunk is relayed, or streams end.
EndsStep ==
  /\ EndsInv'
  /\ [Endings!EndingsNext]_<<[s \in Streams |-> EndingOf(s)],
                             [s \in Streams |-> Cardinality(ChunksIn(out[s]))]>>

\* A step that touches no stream's end.
LEMMA NothingEnds ==
  ASSUME EndsInv, ClockInv', RelayTypes', UNCHANGED out,
         \A s \in Streams : (bot'[s] = "cancelled" <=> bot[s] = "cancelled"),
         \A s \in Streams : EndsOf(s)'
  PROVE  EndsStep
<1>1. \A s \in Streams : EndingOf(s)' = EndingOf(s)
  BY EndingStays DEF Stalled
<1>2. [s \in Streams |-> EndingOf(s)]' = [s \in Streams |-> EndingOf(s)]
  BY <1>1
<1>3. [s \in Streams |-> Cardinality(ChunksIn(out[s]))]' =
        [s \in Streams |-> Cardinality(ChunksIn(out[s]))]
  OBVIOUS
<1> QED
  BY <1>2, <1>3 DEF EndsStep, EndsInv

\* The watch releases a stream whose pump is over.
LEMMA AReleaseEnds ==
  ASSUME EndsInv, ClockInv', RelayTypes', NEW s \in Streams, NEW how \in Final,
         Released(s, how), pump' = [pump EXCEPT ![s] = "over"], bot' = bot
  PROVE  EndsStep
<1>1. ClockInv /\ RelayTypes /\ \A r \in Streams : EndsOf(r)
  BY DEF EndsInv
<1>2. /\ ~Ended(s) => /\ out'[s] = Append(out[s], how) /\ Ended(s)'
                      /\ EndsIn(out'[s]) = {Len(out'[s])} /\ out'[s][Len(out'[s])] = how
      /\ Ended(s) => out' = out
      /\ entry'[s] = Unwatched
      /\ Cardinality(ChunksIn(out'[s])) = Cardinality(ChunksIn(out[s]))
      /\ \A r \in Streams \ {s} : out'[r] = out[r] /\ entry'[r] = entry[r]
  BY <1>1, ReleaseEnds
<1>3. pump'[s] = "over" /\ \A r \in Streams \ {s} : pump'[r] = pump[r]
  BY <1>1 DEF ClockInv, ClockTypes
<1>4. ASSUME NEW r \in Streams \ {s}
      PROVE  EndsOf(r)' /\ EndingOf(r)' = EndingOf(r)
  <2>1. out'[r] = out[r] /\ entry'[r] = entry[r] /\ pump'[r] = pump[r] /\ bot'[r] = bot[r]
    BY <1>2, <1>3
  <2>2. EndsOf(r)'
    BY <1>1, <2>1 DEF EndsOf, Ended
  <2>3. Stalled(r)' = Stalled(r)
    BY <2>1 DEF Stalled
  <2> QED
    BY <2>1, <2>2, <2>3, EndingStays
<1>5. EndsOf(s)' /\ Ended(s)'
  <2>1. Ended(s) => Ended(s)'
    BY <1>2 DEF Ended
  <2>2. EndsIn(out[s])' \subseteq {Len(out[s])'}
    <3>1. CASE Ended(s)
      BY <1>1, <1>2, <3>1 DEF EndsOf
    <3>2. CASE ~Ended(s)
      BY <1>2, <3>2
    <3> QED
      BY <3>1, <3>2
  <2> QED
    BY <1>2, <1>3, <2>1, <2>2 DEF EndsOf, Unwatched
<1>6. EndsInv'
  BY <1>4, <1>5 DEF EndsInv
<1>7. \A r \in Streams : Cardinality(ChunksIn(out'[r])) = Cardinality(ChunksIn(out[r]))
  BY <1>2
<1>8. CASE Ended(s)
  <2>1. EndingOf(s)' = EndingOf(s)
    BY <1>2, <1>8, EndingStays DEF Stalled
  <2>2. \A r \in Streams : EndingOf(r)' = EndingOf(r)
    BY <1>4, <2>1
  <2> QED
    BY <1>6, <1>7, <2>2 DEF EndsStep
<1>9. CASE ~Ended(s)
  <2>1. EndingOf(s) = "open"
    BY <1>1, <1>9, EndingIs
  <2>2. ~Stalled(s)'
    BY <1>1, <1>9 DEF EndsOf, Stalled
  <2>3. EndingOf(s)' = IF how = "abort" THEN "broken" ELSE "completed"
    <3> DEFINE o == out'[s]
    <3>1. /\ o \in Seq(Marks) /\ EndsIn(o) = {Len(o)} /\ EndsIn(o) # {}
          /\ o[Len(o)] = how
      BY <1>2, <1>9 DEF RelayTypes, Marks
    <3>2. ~(Cardinality(EndsIn(o)) > 1 \/ \E i \in EndsIn(o) : i < Len(o))
      BY <3>1, OneEnd
    <3>3. EndingOf(s)' = IF EndsIn(o) = {} THEN "open"
                         ELSE IF Cardinality(EndsIn(o)) > 1 \/ \E i \in EndsIn(o) : i < Len(o)
                              THEN "twice"
                         ELSE IF Stalled(s)' THEN "stalled"
                         ELSE IF o[Len(o)] = "abort" THEN "broken" ELSE "completed"
      BY DEF EndingOf, EndsIn, Final
    <3> HIDE DEF o
    <3> QED
      BY <2>2, <3>1, <3>2, <3>3
  <2>4. Endings!End({s})
    <3> DEFINE e == [r \in Streams |-> EndingOf(r)]
               c == [r \in Streams |-> Cardinality(ChunksIn(out[r]))]
               h == IF how = "abort" THEN "broken" ELSE "completed"
    <3>1. e[s] = "open"
      BY <2>1
    <3>2. e' = [r \in Streams |-> IF r \in {s} THEN h ELSE e[r]] /\ h \in Endings!Endings
      BY <1>4, <2>3 DEF Endings!Endings
    <3>3. c' = c
      BY <1>7
    <3> QED
      BY <3>1, <3>2, <3>3, Zenon DEF Endings!End, ChunksIn
  <2> QED
    BY <1>6, <2>4 DEF EndsStep, Endings!EndingsNext
<1> QED
  BY <1>8, <1>9

\* A sweep ends every stream that was silent, and no other.
LEMMA ASweepEnds ==
  ASSUME EndsInv, ClockInv', RelayTypes', Sweep
  PROVE  EndsStep
<1>1. ClockInv /\ RelayTypes /\ \A r \in Streams : EndsOf(r)
  BY DEF EndsInv
<1>2. /\ entry' = [s \in Streams |-> IF s \in Silent THEN Unwatched ELSE entry[s]]
      /\ out' = [s \in Streams |->
                   IF s \in Silent /\ ~Ended(s) THEN out[s] \o Sentence(s) ELSE out[s]]
      /\ bot' = [s \in Streams |-> IF s \in Silent THEN "cancelled" ELSE bot[s]]
      /\ pump' = pump
  BY DEF Sweep
<1>3. ASSUME NEW s \in Silent
      PROVE  /\ s \in Streams /\ ~Ended(s) /\ EndsOf(s)' /\ EndingOf(s) = "open"
             /\ EndingOf(s)' = "stalled"
             /\ Cardinality(ChunksIn(out'[s])) = Cardinality(ChunksIn(out[s]))
  <2>1. s \in Streams /\ entry[s].watched /\ ~entry[s].paused
    BY DEF Silent, Watching
  <2>2. ~Ended(s) /\ pump[s] = "reading"
    BY <1>1, <2>1 DEF EndsOf, ClockInv, ClockOf
  <2>3. out[s] \in Seq(Marks) /\ EndsIn(out[s]) = {}
    BY <1>1, <2>1, <2>2, EndedIs
  <2> DEFINE o == out'[s]
  <2>4. o = out[s] \o Sentence(s) /\ bot'[s] = "cancelled" /\ entry'[s] = Unwatched
    BY <1>2, <2>1, <2>2
  <2>5. /\ o \in Seq(Marks) /\ EndsIn(o) = {Len(o)} /\ EndsIn(o) # {}
        /\ Cardinality(ChunksIn(o)) = Cardinality(ChunksIn(out[s]))
    BY <2>1, <2>3, <2>4, SentenceEnds
  <2>6. ~(Cardinality(EndsIn(o)) > 1 \/ \E i \in EndsIn(o) : i < Len(o))
    BY <2>5, OneEnd
  <2>7. EndingOf(s)' = IF EndsIn(o) = {} THEN "open"
                       ELSE IF Cardinality(EndsIn(o)) > 1 \/ \E i \in EndsIn(o) : i < Len(o)
                            THEN "twice"
                       ELSE IF Stalled(s)' THEN "stalled"
                       ELSE IF o[Len(o)] = "abort" THEN "broken" ELSE "completed"
    BY DEF EndingOf, EndsIn, Final
  <2>8. Stalled(s)' /\ pump'[s] = "reading"
    BY <1>2, <2>2, <2>4 DEF Stalled
  <2>9. Ended(s)'
    BY <2>5 DEF Ended, EndsIn, Final
  <2> HIDE DEF o
  <2>10. EndingOf(s)' = "stalled"
    BY <2>5, <2>6, <2>7, <2>8
  <2>11. EndsOf(s)'
    BY <2>4, <2>5, <2>8, <2>9 DEF EndsOf, Unwatched, o
  <2>12. EndingOf(s) = "open"
    BY <1>1, <2>1, <2>2, EndingIs
  <2> QED
    BY <2>1, <2>2, <2>5, <2>10, <2>11, <2>12 DEF o
<1>4. ASSUME NEW s \in Streams \ Silent
      PROVE  EndsOf(s)' /\ EndingOf(s)' = EndingOf(s) /\ out'[s] = out[s]
  <2>1. out'[s] = out[s] /\ entry'[s] = entry[s] /\ pump'[s] = pump[s] /\ bot'[s] = bot[s]
    BY <1>2
  <2>2. EndsOf(s)'
    BY <1>1, <2>1 DEF EndsOf, Ended
  <2>3. Stalled(s)' = Stalled(s)
    BY <2>1 DEF Stalled
  <2> QED
    BY <2>1, <2>2, <2>3, EndingStays
<1>5. EndsInv'
  BY <1>3, <1>4 DEF EndsInv
<1>6. Endings!End(Silent)
  <2> DEFINE e == [r \in Streams |-> EndingOf(r)]
             c == [r \in Streams |-> Cardinality(ChunksIn(out[r]))]
  <2>1. \A s \in Silent : e[s] = "open"
    BY <1>3
  <2>2. e' = [r \in Streams |-> IF r \in Silent THEN "stalled" ELSE e[r]]
    BY <1>3, <1>4
  <2>3. c' = c
    BY <1>3, <1>4
  <2>4. "stalled" \in Endings!Endings
    BY DEF Endings!Endings
  <2> QED
    BY <2>1, <2>2, <2>3, <2>4, Zenon DEF Endings!End, ChunksIn
<1>7. Silent \in SUBSET Streams
  BY DEF Silent, Watching
<1> QED
  BY <1>5, <1>6, <1>7 DEF EndsStep, Endings!EndingsNext

\* A chunk is handed to the reader of a turn that is open.
LEMMA ADeliveryRelays ==
  ASSUME EndsInv, ClockInv', RelayTypes', NEW s \in Streams, Deliver(s)
  PROVE  EndsStep
<1>1. ClockInv /\ RelayTypes /\ \A r \in Streams : EndsOf(r)
  BY DEF EndsInv
<1>2. pump[s] = "writing" /\ ~Ended(s) /\ entry[s].watched
  BY <1>1 DEF Deliver, EndsOf
<1>3. out[s] \in Seq(Marks) /\ EndsIn(out[s]) = {}
  BY <1>1, <1>2, EndedIs
<1>4. /\ out'[s] = Append(out[s], "chunk") /\ pump'[s] = "reading" /\ entry'[s] = Fresh
      /\ bot' = bot
      /\ \A r \in Streams \ {s} :
           out'[r] = out[r] /\ pump'[r] = pump[r] /\ entry'[r] = entry[r]
  BY <1>1, <1>2 DEF Deliver, upstream, Resumed, RelayTypes, ClockInv, ClockTypes
<1>5. /\ EndsIn(out'[s]) = {} /\ out'[s] \in Seq(Marks)
      /\ Cardinality(ChunksIn(out'[s])) = Cardinality(ChunksIn(out[s])) + 1
  <2>1. "chunk" \in Marks /\ "chunk" \notin Final
    BY DEF Marks, Final
  <2> QED
    BY <1>3, <1>4, <2>1, OneMoreMark
<1>6. ~Ended(s)'
  BY <1>5 DEF Ended, EndsIn, Final
<1>7. EndsOf(s)'
  BY <1>1, <1>2, <1>4, <1>5, <1>6 DEF EndsOf, Fresh
<1>8. EndingOf(s) = "open" /\ EndingOf(s)' = "open"
  BY <1>3, <1>5 DEF EndingOf, EndsIn, Final
<1>9. ASSUME NEW r \in Streams \ {s}
      PROVE  EndsOf(r)' /\ EndingOf(r)' = EndingOf(r)
  <2>1. out'[r] = out[r] /\ entry'[r] = entry[r] /\ pump'[r] = pump[r] /\ bot'[r] = bot[r]
    BY <1>4
  <2>2. EndsOf(r)'
    BY <1>1, <2>1 DEF EndsOf, Ended
  <2>3. Stalled(r)' = Stalled(r)
    BY <2>1 DEF Stalled
  <2> QED
    BY <2>1, <2>2, <2>3, EndingStays
<1>10. EndsInv'
  BY <1>7, <1>9 DEF EndsInv
<1>11. Endings!Relay(s)
  <2> DEFINE e == [r \in Streams |-> EndingOf(r)]
             c == [r \in Streams |-> Cardinality(ChunksIn(out[r]))]
  <2>1. e[s] = "open" /\ e' = e
    BY <1>8, <1>9
  <2>2. c' = [c EXCEPT ![s] = @ + 1]
    BY <1>4, <1>5
  <2> QED
    BY <2>1, <2>2, Zenon DEF Endings!Relay, ChunksIn
<1> QED
  BY <1>10, <1>11 DEF EndsStep, Endings!EndingsNext

\* The watch implements what it promises the reader of a turn.
THEOREM TurnsAreEndedOnce == Spec => TurnsEndOnce
<1> DEFINE ending == [s \in Streams |-> EndingOf(s)]
           relayed == [s \in Streams |-> Cardinality(ChunksIn(out[s]))]
<1>1. Init => EndsInv /\ Endings!EndingsInit
  <2> SUFFICES ASSUME Init PROVE EndsInv /\ Endings!EndingsInit
    OBVIOUS
  <2>1. \A s \in Streams : /\ out[s] = << >> /\ pump[s] = "none" /\ bot[s] = "open"
                           /\ entry[s] = Unwatched
    BY DEF Init
  <2>2. EndsIn(<< >>) = {} /\ ChunksIn(<< >>) = {} /\ Cardinality({}) = 0
    BY FS_EmptySet DEF EndsIn, ChunksIn
  <2>3. \A s \in Streams : ~Ended(s)
    BY <2>1 DEF Ended
  <2>4. \A s \in Streams : EndsOf(s)
    BY <2>1, <2>2, <2>3 DEF EndsOf
  <2>5. \A s \in Streams : EndingOf(s) = "open"
    BY <2>1, <2>2 DEF EndingOf, EndsIn, Final
  <2>6. ending = [s \in Streams |-> "open"] /\ relayed = [s \in Streams |-> 0]
    BY <2>1, <2>2, <2>5
  <2>7. Endings!EndingsInit
    BY <2>6, Zenon DEF Endings!EndingsInit, ChunksIn
  <2> QED
    BY <2>4, <2>7, ClockInit, RelayInit DEF EndsInv
<1>2. EndsInv /\ [Next]_vars => EndsStep
  <2> SUFFICES ASSUME EndsInv, [Next]_vars PROVE EndsStep
    OBVIOUS
  <2>1. /\ ClockInv /\ RelayTypes /\ \A s \in Streams : EndsOf(s)
        /\ ClockInv' /\ RelayTypes'
    BY ClockStep, RelayStep DEF EndsInv
  <2>2. ASSUME UNCHANGED <<out, entry, pump, bot>>
        PROVE  EndsStep
    <3>1. \A s \in Streams : EndsOf(s)'
      BY <2>1, <2>2 DEF EndsOf, Ended
    <3> QED
      BY <2>1, <2>2, <3>1, NothingEnds
  <2>3. ASSUME NEW s \in Streams, BotSpeaks(s) \/ BotHangsUp(s) PROVE EndsStep
    <3>1. UNCHANGED <<out, entry, pump>>
      BY <2>3 DEF BotSpeaks, BotHangsUp
    <3>2. \A r \in Streams : (bot'[r] = "cancelled" <=> bot[r] = "cancelled")
      BY <2>1, <2>3 DEF BotSpeaks, BotHangsUp, ClockInv, ClockTypes
    <3>3. \A r \in Streams : EndsOf(r)'
      BY <2>1, <3>1, <3>2 DEF EndsOf, Ended
    <3> QED
      BY <2>1, <3>1, <3>2, <3>3, NothingEnds
  <2>4. ASSUME NEW s \in Streams, Open(s) PROVE EndsStep
    <3>1. /\ pump[s] = "none" /\ pump' = [pump EXCEPT ![s] = "reading"]
          /\ entry' = [entry EXCEPT ![s] = Fresh] /\ UNCHANGED <<out, bot>>
      BY <2>4 DEF Open, upstream
    <3>2. out[s] = << >> /\ ~Ended(s)
      BY <2>1, <3>1 DEF EndsOf, Ended
    <3>3. \A r \in Streams : EndsOf(r)'
      BY <2>1, <3>1, <3>2 DEF EndsOf, Ended, Fresh, ClockInv, ClockTypes
    <3> QED
      BY <2>1, <3>1, <3>3, NothingEnds
  <2>5. ASSUME NEW s \in Streams, Read(s) PROVE EndsStep
    <3>1. /\ pump[s] = "reading" /\ bot[s] # "cancelled" /\ UNCHANGED <<out, bot>>
          /\ pump' = [pump EXCEPT ![s] = "writing"]
          /\ entry' = [entry EXCEPT ![s] = Recorded(@)]
      BY <2>5 DEF Read
    <3>2. ~Ended(s)
      BY <2>1, <3>1 DEF EndsOf, ClockInv, ClockOf
    <3>3. \A r \in Streams : entry'[r].watched = entry[r].watched
      BY <2>1, <3>1 DEF Recorded, Fresh, ClockInv, ClockTypes
    <3>4. \A r \in Streams : EndsOf(r)'
      BY <2>1, <3>1, <3>2, <3>3 DEF EndsOf, Ended, ClockInv, ClockTypes
    <3> QED
      BY <2>1, <3>1, <3>4, NothingEnds
  <2>6. ASSUME NEW s \in Streams, Deliver(s) PROVE EndsStep
    BY <2>1, <2>6, ADeliveryRelays
  <2>7. ASSUME NEW s \in Streams, WriteFails(s) \/ ReadDone(s) \/ ReadThrows(s)
        PROVE  EndsStep
    <3>1. \E how \in Final : Released(s, how)
      BY <2>7 DEF WriteFails, ReadDone, ReadThrows, Final
    <3>2. pump' = [pump EXCEPT ![s] = "over"] /\ bot' = bot
      BY <2>7 DEF WriteFails, ReadDone, ReadThrows, upstream
    <3> QED
      BY <2>1, <3>1, <3>2, AReleaseEnds
  <2>8. CASE Sweep
    BY <2>1, <2>8, ASweepEnds
  <2>9. CASE Tick
    <3>1. UNCHANGED <<out, bot, pump>>
      BY <2>9 DEF Tick, upstream
    <3>2. \A r \in Streams : entry'[r].watched = entry[r].watched
      BY <2>1, <2>9 DEF Tick, ClockInv, ClockTypes
    <3>3. \A r \in Streams : EndsOf(r)'
      BY <2>1, <3>1, <3>2 DEF EndsOf, Ended
    <3> QED
      BY <2>1, <3>1, <3>3, NothingEnds
  <2>10. CASE UNCHANGED vars
    BY <2>2, <2>10 DEF vars
  <2> QED
    BY <2>3, <2>4, <2>5, <2>6, <2>7, <2>8, <2>9, <2>10 DEF Next, PumpStep
<1>3. EndsStep => EndsInv' /\ [Endings!EndingsNext]_<<ending, relayed>>
  BY DEF EndsStep
<1> QED
  BY <1>1, <1>2, <1>3, PTL DEF Spec, TurnsEndOnce, Endings!EndingsSpec, ChunksIn

-----------------------------------------------------------------------------
(* The runs of a thread: who has its lock while its runner writes, for any *)
(* number of jobs, tabs, tries and faults.                                 *)

\* A run asks to join only while it is at work, and a runner that writes has the
\* lock, unless its run lost it or had given up.
HeldByItsRun ==
  \A r \in UnattendedRun!Runs :
    /\ runner[r] = "joining" => stage[r] = "running"
    /\ runner[r] = "running" /\ r \notin outlived => stage[r] = "running" /\ lock = r

\* A job that has yet to ask for the lock has a try left.
TriesLeft ==
  \A j \in UnattendedRun!Jobs :
    stage[j] \in {"idle", "poll", "gates", "open", "lock"} => tries[j] >= 1

\* The types of all but what is said.
RunTypes ==
  /\ stage \in [UnattendedRun!Runs ->
                  {"idle", "poll", "gates", "open", "lock", "running", "cleanup",
                   "persist", "ended", "dead"}]
  /\ answer \in [UnattendedRun!Runs -> {"none", "refused", "failed", "succeeded"}]
  /\ tries \in [UnattendedRun!Runs -> 0..Attempts]
  /\ runner \in [UnattendedRun!Runs -> {"off", "joining", "left", "running", "done", "error"}]
  /\ known \in BOOLEAN /\ lock \in {0} \cup UnattendedRun!Runs
  /\ outlived \subseteq UnattendedRun!Runs /\ mishaps \in Nat
  /\ TriesLeft
RunInv == RunTypes /\ HeldByItsRun

\* The types of what is said.
SaidTypes ==
  /\ asks \in [UnattendedRun!Runs -> Prompts]
  /\ says \in [UnattendedRun!Runs -> Replies \cup {""}]
  /\ thread \subseteq [by : UnattendedRun!Runs, text : UnattendedRun!Texts]

\* A job looks for its words when its runner is done, and is over when they are found.
RunsToTheEnd ==
  \A j \in UnattendedRun!Jobs :
    /\ stage[j] = "persist" => runner[j] = "done"
    /\ answer[j] = "succeeded" => stage[j] = "ended"

SaidInv == SaidTypes /\ RunsToTheEnd /\ UnattendedRun!SucceededIsOnTheThread

\* Nothing has run yet.
LEMMA RunInit == UnattendedRun!Init => RunInv /\ SaidInv
<1> SUFFICES ASSUME UnattendedRun!Init PROVE RunInv /\ SaidInv
  OBVIOUS
<1>1. RunTypes
  <2>1. /\ stage = [r \in UnattendedRun!Runs |-> "idle"]
        /\ answer = [r \in UnattendedRun!Runs |-> "none"]
        /\ tries = [r \in UnattendedRun!Runs |-> Attempts]
        /\ runner = [r \in UnattendedRun!Runs |-> "off"]
        /\ known \in BOOLEAN /\ lock = 0 /\ outlived = {} /\ mishaps = 0
    BY DEF UnattendedRun!Init
  <2>2. Attempts \in 0..Attempts /\ Attempts >= 1
    BY RunAssumption DEF RunAssumption
  <2>3. TriesLeft
    BY <2>1, <2>2 DEF TriesLeft, UnattendedRun!Runs, UnattendedRun!Jobs
  <2> QED
    BY <2>1, <2>2, <2>3 DEF RunTypes
<1>2. HeldByItsRun
  BY DEF UnattendedRun!Init, HeldByItsRun, UnattendedRun!Runs, UnattendedRun!Jobs
<1>3. SaidTypes
  BY DEF UnattendedRun!Init, SaidTypes
<1>4. RunsToTheEnd /\ UnattendedRun!SucceededIsOnTheThread
  BY DEF UnattendedRun!Init, RunsToTheEnd, UnattendedRun!SucceededIsOnTheThread,
     UnattendedRun!Runs, UnattendedRun!Jobs
<1> QED
  BY <1>1, <1>2, <1>3, <1>4 DEF RunInv, SaidInv

\* The numbers of the runs, of which none is the lock nobody holds.
LEMMA RunNumbers ==
  /\ UnattendedRun!Jobs \subseteq UnattendedRun!Runs
  /\ UnattendedRun!Tabs \subseteq UnattendedRun!Runs
  /\ UnattendedRun!Jobs \cap UnattendedRun!Tabs = {}
  /\ 0 \notin UnattendedRun!Runs
BY RunAssumption DEF RunAssumption, UnattendedRun!Jobs, UnattendedRun!Tabs, UnattendedRun!Runs

\* What a job that looks for its words changes, whatever it finds.
LEMMA PersistMoves ==
  ASSUME NEW j, UnattendedRun!Persist(j), mishaps \in Nat
  PROVE  /\ \E outcome \in {"succeeded", "failed"} : UnattendedRun!Answers(j, outcome)
         /\ stage[j] = "persist" /\ stage' = [stage EXCEPT ![j] = "ended"]
         /\ mishaps' \in Nat
         /\ UNCHANGED <<tries, runner, known, lock, outlived>>
<1>1. /\ \E outcome \in {"succeeded", "failed"} : UnattendedRun!Answers(j, outcome)
      /\ UNCHANGED mishaps \/ mishaps' = mishaps + 1
  <2> DEFINE Words == says[j] # "" /\ UnattendedRun!Found(asks[j])
                        /\ UnattendedRun!Found(says[j])
             outcome == IF Words THEN "succeeded" ELSE "failed"
  <2>1. \/ UnattendedRun!Answers(j, outcome) /\ UNCHANGED mishaps
        \/ UnattendedRun!Answers(j, "failed") /\ mishaps' = mishaps + 1
    BY ZenonT(30) DEF UnattendedRun!Persist, UnattendedRun!Trouble
  <2>2. outcome \in {"succeeded", "failed"}
    OBVIOUS
  <2> HIDE DEF outcome
  <2> QED
    BY <2>1, <2>2
<1>2. /\ stage[j] = "persist" /\ stage' = [stage EXCEPT ![j] = "ended"]
      /\ UNCHANGED <<tries, runner, known, lock, outlived>>
  BY DEF UnattendedRun!Persist, UnattendedRun!Goto
<1> QED
  BY <1>1, <1>2

\* What a runner that ends changes of the rest, whatever it leaves on the thread.
LEMMA RunnerEndsMoves ==
  ASSUME NEW r, UnattendedRun!RunnerEnds(r), mishaps \in Nat
  PROVE  /\ \E s \in {"done", "error"} : runner' = [runner EXCEPT ![r] = s]
         /\ mishaps' \in Nat
         /\ UNCHANGED <<stage, answer, tries, known, lock, outlived>>
<1>1. /\ \E s \in {"done", "error"} : runner' = [runner EXCEPT ![r] = s]
      /\ UNCHANGED mishaps \/ mishaps' = mishaps + 1
  BY ZenonT(30) DEF UnattendedRun!RunnerEnds, UnattendedRun!Trouble
<1>2. UNCHANGED <<stage, answer, tries, known, lock, outlived>>
  BY DEF UnattendedRun!RunnerEnds
<1>3. mishaps' \in Nat
  BY <1>1
<1> QED
  BY <1>1, <1>2, <1>3, Zenon

\* A step of one job before and at its run. Only the job itself moves.
LEMMA JobKeepsRuns ==
  ASSUME RunInv, NEW j \in UnattendedRun!Jobs,
         UnattendedRun!Start(j) \/ UnattendedRun!JobStep(j) \/ UnattendedRun!WallClock(j)
  PROVE  RunInv'
<1> USE RunNumbers DEF RunInv, RunTypes, TriesLeft, HeldByItsRun, UnattendedRun!Goto,
        UnattendedRun!Answers, UnattendedRun!Refuses, UnattendedRun!Fails, UnattendedRun!Trouble
<1>1. CASE UnattendedRun!Start(j)
  BY <1>1 DEF UnattendedRun!Start
<1>2. CASE UnattendedRun!Poll(j)
  BY <1>2 DEF UnattendedRun!Poll
<1>3. CASE UnattendedRun!Gates(j)
  BY <1>3 DEF UnattendedRun!Gates
<1>4. CASE UnattendedRun!Open(j)
  <2>1. CASE known' = TRUE /\ UnattendedRun!Goto(j, "lock") /\ UNCHANGED <<answer, mishaps>>
    BY <1>4, <2>1 DEF UnattendedRun!Open
  <2>2. CASE UnattendedRun!Trouble /\ UnattendedRun!Fails(j) /\ UNCHANGED known
    BY <1>4, <2>2 DEF UnattendedRun!Open
  <2> QED
    BY <1>4, <2>1, <2>2 DEF UnattendedRun!Open
<1>5. CASE UnattendedRun!Acquire(j)
  BY <1>5, RunAssumption DEF UnattendedRun!Acquire, RunAssumption
<1>6. CASE UnattendedRun!Finished(j)
  BY <1>6 DEF UnattendedRun!Finished
<1>7. CASE UnattendedRun!StartupTimeout(j)
  BY <1>7 DEF UnattendedRun!StartupTimeout
<1>8. CASE UnattendedRun!Cleanup(j)
  BY <1>8 DEF UnattendedRun!Cleanup, UnattendedRun!Freed
<1>9. CASE UnattendedRun!Persist(j)
  <2>1. PICK outcome \in {"succeeded", "failed"} :
          answer' = [answer EXCEPT ![j] = IF @ = "none" THEN outcome ELSE @]
    BY <1>9, PersistMoves
  <2>2. /\ stage[j] = "persist" /\ stage' = [stage EXCEPT ![j] = "ended"]
        /\ mishaps' \in Nat
        /\ UNCHANGED <<tries, runner, known, lock, outlived>>
    BY <1>9, PersistMoves
  <2> QED
    BY <2>1, <2>2
<1>10. CASE UnattendedRun!WallClock(j)
  BY <1>10 DEF UnattendedRun!WallClock
<1> QED
  BY <1>1, <1>2, <1>3, <1>4, <1>5, <1>6, <1>7, <1>8, <1>9, <1>10 DEF UnattendedRun!JobStep

\* A step of a tab, of a runner or of the platform.
LEMMA OthersKeepRuns ==
  ASSUME RunInv, NEW r \in UnattendedRun!Runs,
         \/ r \in UnattendedRun!Tabs /\ (UnattendedRun!TabRuns(r) \/ UnattendedRun!TabEnds(r))
         \/ UnattendedRun!Joins(r) \/ UnattendedRun!JoinRejected(r)
         \/ UnattendedRun!RunnerEnds(r) \/ UnattendedRun!Dies(r)
  PROVE  RunInv'
<1> USE RunNumbers DEF RunInv, RunTypes, TriesLeft, HeldByItsRun, UnattendedRun!Goto,
        UnattendedRun!Trouble
<1>1. CASE r \in UnattendedRun!Tabs /\ UnattendedRun!TabRuns(r)
  BY <1>1 DEF UnattendedRun!TabRuns
<1>2. CASE r \in UnattendedRun!Tabs /\ UnattendedRun!TabEnds(r)
  BY <1>2 DEF UnattendedRun!TabEnds, UnattendedRun!Freed
<1>3. CASE UnattendedRun!Joins(r)
  BY <1>3 DEF UnattendedRun!Joins
<1>4. CASE UnattendedRun!JoinRejected(r)
  BY <1>4 DEF UnattendedRun!JoinRejected
<1>5. CASE UnattendedRun!RunnerEnds(r)
  <2>1. /\ \E s \in {"done", "error"} : runner' = [runner EXCEPT ![r] = s]
        /\ mishaps' \in Nat
        /\ UNCHANGED <<stage, answer, tries, known, lock, outlived>>
    BY <1>5, RunnerEndsMoves
  <2> QED
    BY <2>1
<1>6. CASE UnattendedRun!Dies(r)
  BY <1>6 DEF UnattendedRun!Dies, UnattendedRun!Settled
<1> QED
  BY <1>1, <1>2, <1>3, <1>4, <1>5, <1>6

\* A lock that is lost is one whose run does not write, or has lost it in the renewal.
LEMMA LapseKeepsRuns == RunInv /\ UnattendedRun!Lapses => RunInv'
BY RunNumbers DEF RunInv, RunTypes, TriesLeft, HeldByItsRun, UnattendedRun!Lapses,
   UnattendedRun!Renews, UnattendedRun!Locked, UnattendedRun!Trouble

\* The invariant of a run is kept by every step.
LEMMA RunStep == RunInv /\ [UnattendedRun!Next]_UnattendedRun!vars => RunInv'
<1> SUFFICES ASSUME RunInv, [UnattendedRun!Next]_UnattendedRun!vars PROVE RunInv'
  OBVIOUS
<1>1. CASE UNCHANGED UnattendedRun!vars
  BY <1>1 DEF UnattendedRun!vars, RunInv, RunTypes, TriesLeft, HeldByItsRun
<1>2. CASE UnattendedRun!Next
  BY <1>2, RunNumbers, JobKeepsRuns, OthersKeepRuns, LapseKeepsRuns DEF UnattendedRun!Next
<1> QED
  BY <1>1, <1>2

\* What was reported stays true when the thread only grows, and no job is reported done
\* or changes once it is.
LEMMA TheSaidStays ==
  ASSUME SaidInv, asks' = asks, thread \subseteq thread',
         says' \in [UnattendedRun!Runs -> Replies \cup {""}],
         thread' \subseteq [by : UnattendedRun!Runs, text : UnattendedRun!Texts],
         \A j \in UnattendedRun!Jobs :
           /\ stage'[j] = "persist" => runner'[j] = "done"
           /\ answer'[j] = "succeeded" =>
                /\ answer[j] = "succeeded" /\ stage'[j] = stage[j]
                /\ runner'[j] = runner[j] /\ says'[j] = says[j]
  PROVE  SaidInv'
<1>1. SaidTypes'
  BY DEF SaidInv, SaidTypes
<1>2. RunsToTheEnd'
  BY DEF SaidInv, RunsToTheEnd
<1>3. UnattendedRun!SucceededIsOnTheThread'
  <2> DEFINE Kept(j, w) ==
        \/ UnattendedRun!Message(j, w) \in thread'
        \/ \E m \in thread' \ {UnattendedRun!Message(j, w)} : w \in Holds[m.text]
  <2> SUFFICES ASSUME NEW j \in UnattendedRun!Jobs, answer'[j] = "succeeded"
               PROVE  /\ runner'[j] = "done" /\ says'[j] # ""
                      /\ \A w \in {asks'[j], says'[j]} : Kept(j, w)
    BY DEF UnattendedRun!SucceededIsOnTheThread, UnattendedRun!Message
  <2>1. /\ answer[j] = "succeeded" /\ asks'[j] = asks[j] /\ says'[j] = says[j]
        /\ runner'[j] = runner[j]
    OBVIOUS
  <2>2. /\ runner[j] = "done" /\ says[j] # ""
        /\ \A w \in {asks[j], says[j]} :
             \/ UnattendedRun!Message(j, w) \in thread
             \/ \E m \in thread \ {UnattendedRun!Message(j, w)} : w \in Holds[m.text]
    BY <2>1 DEF SaidInv, UnattendedRun!SucceededIsOnTheThread
  <2>3. \A w \in {asks[j], says[j]} : Kept(j, w)
    BY <2>2, ZenonT(30)
  <2> HIDE DEF Kept
  <2> QED
    BY <2>1, <2>2, <2>3
<1> QED
  BY <1>1, <1>2, <1>3 DEF SaidInv

\* The job looks for its words: what it finds and is not its own is another's.
LEMMA PersistKeepsTheSaid ==
  ASSUME RunInv, SaidInv, NEW j \in UnattendedRun!Jobs, UnattendedRun!Persist(j)
  PROVE  SaidInv'
<1>1. /\ stage[j] = "persist" /\ runner[j] = "done" /\ stage' = [stage EXCEPT ![j] = "ended"]
      /\ UNCHANGED <<runner, asks, says, thread>>
  BY DEF UnattendedRun!Persist, UnattendedRun!Goto, SaidInv, RunsToTheEnd
<1>2. \A i \in UnattendedRun!Jobs \ {j} : stage'[i] = stage[i] /\ answer'[i] = answer[i]
  BY RunNumbers, <1>1 DEF UnattendedRun!Persist, UnattendedRun!Answers, RunInv, RunTypes
<1>3. answer'[j] = "succeeded" =>
        says[j] # "" /\ UnattendedRun!Found(asks[j]) /\ UnattendedRun!Found(says[j])
  <2>1. answer[j] # "succeeded"
    BY <1>1 DEF SaidInv, RunsToTheEnd
  <2> QED
    BY RunNumbers, <2>1 DEF UnattendedRun!Persist, UnattendedRun!Answers, RunInv, RunTypes
<1>4. SaidTypes'
  BY <1>1 DEF SaidInv, SaidTypes
<1>5. RunsToTheEnd'
  <2>1. stage'[j] = "ended"
    BY RunNumbers, <1>1 DEF RunInv, RunTypes
  <2> QED
    BY <1>1, <1>2, <2>1 DEF SaidInv, RunsToTheEnd
<1>6. UnattendedRun!SucceededIsOnTheThread'
  <2> SUFFICES ASSUME NEW i \in UnattendedRun!Jobs, answer'[i] = "succeeded"
               PROVE  /\ runner[i] = "done" /\ says[i] # ""
                      /\ \A w \in {asks[i], says[i]} :
                           \/ UnattendedRun!Message(i, w) \in thread
                           \/ \E m \in thread \ {UnattendedRun!Message(i, w)} :
                                w \in Holds[m.text]
    BY <1>1 DEF UnattendedRun!SucceededIsOnTheThread, UnattendedRun!Message
  <2>1. CASE i = j
    BY <1>1, <1>3, <2>1 DEF UnattendedRun!Found
  <2>2. CASE i # j
    BY <1>2, <2>2 DEF SaidInv, UnattendedRun!SucceededIsOnTheThread
  <2> QED
    BY <2>1, <2>2
<1> QED
  BY <1>4, <1>5, <1>6 DEF SaidInv

\* A runner that ends adds to the thread, and is the runner of no job that is over.
LEMMA RunnerKeepsTheSaid ==
  ASSUME RunInv, SaidInv, NEW r \in UnattendedRun!Runs, UnattendedRun!RunnerEnds(r)
  PROVE  SaidInv'
<1>1. PICK w \in Replies \cup {""} :
        /\ says' = [says EXCEPT ![r] = w]
        /\ \E kept \in SUBSET ({UnattendedRun!Message(r, asks[r])}
                                 \cup {UnattendedRun!Message(r, v) : v \in {w} \ {""}}) :
             thread' = thread \cup kept
  BY DEF UnattendedRun!RunnerEnds
<1>2. /\ runner[r] = "running" /\ UNCHANGED <<stage, answer, asks>>
      /\ \A q \in UnattendedRun!Runs \ {r} : runner'[q] = runner[q]
  BY DEF UnattendedRun!RunnerEnds, RunInv, RunTypes
<1>3. /\ says' \in [UnattendedRun!Runs -> Replies \cup {""}]
      /\ \A q \in UnattendedRun!Runs \ {r} : says'[q] = says[q]
  BY <1>1 DEF SaidInv, SaidTypes
<1>4. /\ thread \subseteq thread'
      /\ thread' \subseteq [by : UnattendedRun!Runs, text : UnattendedRun!Texts]
  <2>1. asks[r] \in UnattendedRun!Texts
    BY DEF SaidInv, SaidTypes, UnattendedRun!Texts
  <2>2. \A v \in {w} \ {""} : v \in UnattendedRun!Texts
    BY DEF UnattendedRun!Texts
  <2>3. {UnattendedRun!Message(r, asks[r])}
          \cup {UnattendedRun!Message(r, v) : v \in {w} \ {""}}
        \subseteq [by : UnattendedRun!Runs, text : UnattendedRun!Texts]
    <3>1. \A v \in UnattendedRun!Texts :
            UnattendedRun!Message(r, v) \in [by : UnattendedRun!Runs, text : UnattendedRun!Texts]
      BY DEF UnattendedRun!Message
    <3> QED
      BY <2>1, <2>2, <3>1, Zenon
  <2>4. thread \subseteq [by : UnattendedRun!Runs, text : UnattendedRun!Texts]
    BY DEF SaidInv, SaidTypes
  <2> QED
    BY <1>1, <2>3, <2>4
<1>5. \A j \in UnattendedRun!Jobs :
        stage[j] = "persist" \/ answer[j] = "succeeded" => runner[j] = "done" /\ j # r
  BY <1>2 DEF SaidInv, RunsToTheEnd, UnattendedRun!SucceededIsOnTheThread
<1> QED
  BY RunNumbers, <1>2, <1>3, <1>4, <1>5, TheSaidStays

\* Any other step leaves what is said.
LEMMA RunKeepsTheSaid ==
  ASSUME RunInv, SaidInv, UnattendedRun!Next
  PROVE  SaidInv'
<1> USE RunNumbers DEF RunInv, RunTypes, SaidInv, RunsToTheEnd, UnattendedRun!Goto,
        UnattendedRun!Answers, UnattendedRun!Refuses, UnattendedRun!Fails
<1> DEFINE Quiet == /\ UNCHANGED <<asks, says, thread>>
                    /\ \A j \in UnattendedRun!Jobs :
                         /\ stage'[j] = "persist" => runner'[j] = "done"
                         /\ answer'[j] = "succeeded" =>
                              /\ answer[j] = "succeeded" /\ stage'[j] = stage[j]
                              /\ runner'[j] = runner[j]
<1>1. Quiet => SaidInv'
  BY TheSaidStays DEF SaidTypes
<1>2. ASSUME NEW j \in UnattendedRun!Jobs, UnattendedRun!Start(j) PROVE Quiet
  BY <1>2 DEF UnattendedRun!Start
<1>3. ASSUME NEW j \in UnattendedRun!Jobs, UnattendedRun!Poll(j) PROVE Quiet
  BY <1>3 DEF UnattendedRun!Poll
<1>4. ASSUME NEW j \in UnattendedRun!Jobs, UnattendedRun!Gates(j) PROVE Quiet
  BY <1>4 DEF UnattendedRun!Gates
<1>5. ASSUME NEW j \in UnattendedRun!Jobs, UnattendedRun!Open(j) PROVE Quiet
  BY <1>5 DEF UnattendedRun!Open
<1>6. ASSUME NEW j \in UnattendedRun!Jobs, UnattendedRun!Acquire(j) PROVE Quiet
  BY <1>6 DEF UnattendedRun!Acquire
<1>7. ASSUME NEW j \in UnattendedRun!Jobs, UnattendedRun!Finished(j) PROVE Quiet
  BY <1>7 DEF UnattendedRun!Finished
<1>8. ASSUME NEW j \in UnattendedRun!Jobs, UnattendedRun!StartupTimeout(j) PROVE Quiet
  BY <1>8 DEF UnattendedRun!StartupTimeout
<1>9. ASSUME NEW j \in UnattendedRun!Jobs, UnattendedRun!Cleanup(j) PROVE Quiet
  BY <1>9 DEF UnattendedRun!Cleanup
<1>10. ASSUME NEW j \in UnattendedRun!Jobs, UnattendedRun!WallClock(j) PROVE Quiet
  BY <1>10 DEF UnattendedRun!WallClock
<1>11. ASSUME NEW r \in UnattendedRun!Tabs, UnattendedRun!TabRuns(r) \/ UnattendedRun!TabEnds(r)
       PROVE  Quiet
  BY <1>11 DEF UnattendedRun!TabRuns, UnattendedRun!TabEnds
<1>12. ASSUME NEW r \in UnattendedRun!Runs,
              UnattendedRun!Joins(r) \/ UnattendedRun!JoinRejected(r)
       PROVE  Quiet
  BY <1>12 DEF UnattendedRun!Joins, UnattendedRun!JoinRejected,
     UnattendedRun!SucceededIsOnTheThread
<1>13. ASSUME NEW r \in UnattendedRun!Runs, UnattendedRun!Dies(r) PROVE Quiet
  BY <1>13 DEF UnattendedRun!Dies, UnattendedRun!Settled
<1>14. ASSUME UnattendedRun!Lapses PROVE Quiet
  BY <1>14 DEF UnattendedRun!Lapses
<1> QED
  BY <1>1, <1>2, <1>3, <1>4, <1>5, <1>6, <1>7, <1>8, <1>9, <1>10, <1>11, <1>12, <1>13, <1>14,
     PersistKeepsTheSaid, RunnerKeepsTheSaid
     DEF UnattendedRun!Next, UnattendedRun!JobStep

\* What is kept of the runs in every behaviour.
THEOREM RunsAreKept == UnattendedRun!Spec => [](RunInv /\ SaidInv)
<1>1. RunInv /\ SaidInv /\ [UnattendedRun!Next]_UnattendedRun!vars => RunInv' /\ SaidInv'
  <2> SUFFICES ASSUME RunInv, SaidInv, [UnattendedRun!Next]_UnattendedRun!vars
               PROVE  RunInv' /\ SaidInv'
    OBVIOUS
  <2>1. CASE UNCHANGED UnattendedRun!vars
    <3>1. SaidInv'
      BY <2>1 DEF UnattendedRun!vars, SaidInv, SaidTypes, RunsToTheEnd,
         UnattendedRun!SucceededIsOnTheThread, UnattendedRun!Message
    <3> QED
      BY <3>1, RunStep
  <2>2. CASE UnattendedRun!Next
    BY <2>2, RunStep, RunKeepsTheSaid
  <2> QED
    BY <2>1, <2>2
<1> QED
  BY <1>1, RunInit, PTL DEF UnattendedRun!Spec

\* Two runs do not write to one thread at once, a job whose wall clock has passed
\* included, unless one lost its lock or had given up; and a job that is reported
\* done ran to its end and said something, and what it was asked and said is on the
\* thread, or part of other words there (jobs/run.ts, runtime-run.ts, thread.ts).
THEOREM RunsAreHonest == UnattendedRun!Spec => []HonestRuns
<1>1. RunInv /\ SaidInv => HonestRuns
  <2> SUFFICES ASSUME RunInv, SaidInv PROVE HonestRuns
    OBVIOUS
  <2>1. UnattendedRun!TypeOK
    BY DEF RunInv, RunTypes, SaidInv, SaidTypes, UnattendedRun!TypeOK
  <2>2. UnattendedRun!OneRunWrites
    BY DEF RunInv, HeldByItsRun, UnattendedRun!OneRunWrites
  <2> QED
    BY <2>1, <2>2 DEF SaidInv, HonestRuns, UnattendedRun!HonestRuns
<1> QED
  BY <1>1, RunsAreKept, PTL

-----------------------------------------------------------------------------
(* The browsers of a computer: what its maps say of the launches under way *)
(* and of the Chromium processes, for any number of Bots and calls, any    *)
(* cap and any faults.                                                     *)

\* Of finitely many things with a number one has the least.
LEMMA SomeIsLeast ==
  ASSUME NEW S, IsFiniteSet(S), S # {}, NEW f, \A x \in S : f[x] \in Nat
  PROVE  \E x \in S : \A y \in S : f[x] <= f[y]
<1> DEFINE Below(x) == {y \in S : f[y] < f[x]}
           T == {Below(x) : x \in S}
<1>1. T \subseteq FiniteSubsetsOf(S) /\ T # {}
  <2>1. \A x \in S : IsFiniteSet(Below(x)) /\ Below(x) \in SUBSET S
    BY FS_Subset
  <2> QED
    BY <2>1 DEF FiniteSubsetsOf
<1>2. PICK M \in T : \A N \in T : <<N, M>> \notin StrictSubsetOrdering(S)
  BY <1>1, FS_StrictSubsetOrderingWellFounded, WFMin
<1>3. PICK x \in S : M = Below(x)
  OBVIOUS
<1>4. ASSUME NEW y \in S, f[y] < f[x] PROVE FALSE
  <2>1. Below(y) \subseteq Below(x) /\ y \in Below(x) /\ y \notin Below(y)
    BY <1>4
  <2>2. <<Below(y), Below(x)>> \in StrictSubsetOrdering(S)
    BY <2>1 DEF StrictSubsetOrdering
  <2> QED
    BY <1>2, <1>3, <2>2
<1> QED
  BY <1>4

\* The numbers of the calls.
LEMMA CallNumbers ==
  /\ Browsers!None \notin Browsers!Calls
  /\ Browsers!Sweeper \notin Browsers!Calls
  /\ Browsers!Sweeper \in Browsers!Actors
  /\ Browsers!Calls \subseteq Browsers!Actors
BY BrowsersAssumption DEF BrowsersAssumption, Browsers!None, Browsers!Calls,
   Browsers!Sweeper, Browsers!Actors

\* At first the values have their types.
LEMMA BrowserTypesInit == Browsers!Init => Browsers!TypeOK
BY CallNumbers DEF Browsers!Init, Browsers!TypeOK

\* Whether an entry is idle stays a truth value when entries come and go.
LEMMA IdleIsBoolean ==
  Browsers!TypeOK /\ Browsers!IdleWithEntry => idle' \in [Bots -> BOOLEAN]
<1> SUFFICES ASSUME Browsers!TypeOK, Browsers!IdleWithEntry PROVE idle' \in [Bots -> BOOLEAN]
  OBVIOUS
<1>1. \A b \in Bots : (idle[b] /\ live'[b] = live[b]) \in BOOLEAN
  OBVIOUS
<1> QED
  BY <1>1 DEF Browsers!IdleWithEntry

\* The values keep their types.
LEMMA BrowserTypesStep ==
  Browsers!TypeOK /\ [Browsers!Next]_Browsers!vars => Browsers!TypeOK'
<1> SUFFICES ASSUME Browsers!TypeOK, [Browsers!Next]_Browsers!vars PROVE Browsers!TypeOK'
  OBVIOUS
<1> USE CallNumbers, IdleIsBoolean
    DEF Browsers!TypeOK, Browsers!maps, Browsers!calls, Browsers!history, Browsers!Answered
<1>1. ASSUME NEW c \in Browsers!Calls, Browsers!Arrival(c) PROVE Browsers!TypeOK'
  <2> USE DEF Browsers!Arrives, Browsers!Launching, Browsers!Asked
  <2>1. CASE Browsers!PageJoins(c)
    BY <2>1 DEF Browsers!PageJoins
  <2>2. CASE Browsers!PageReuses(c)
    BY <2>2 DEF Browsers!PageReuses, Browsers!Touch
  <2>3. CASE Browsers!PageDrops(c)
    BY <2>3 DEF Browsers!PageDrops
  <2>4. CASE Browsers!PageLaunches(c)
    BY <2>4 DEF Browsers!PageLaunches
  <2>5. CASE Browsers!StopsNothing(c)
    BY <2>5 DEF Browsers!StopsNothing
  <2>6. CASE Browsers!ResetsNothing(c)
    BY <2>6 DEF Browsers!ResetsNothing
  <2>7. ASSUME NEW k \in {"stop", "reset"}, Browsers!StopCloses(c, k) PROVE Browsers!TypeOK'
    BY <2>7 DEF Browsers!StopCloses
  <2> QED
    BY <1>1, <2>1, <2>2, <2>3, <2>4, <2>5, <2>6, <2>7 DEF Browsers!Arrival
<1>2. ASSUME NEW c \in Browsers!Calls, Browsers!Goes(c) PROVE Browsers!TypeOK'
  <2>1. CASE Browsers!Dropped(c)
    BY <2>1 DEF Browsers!Dropped
  <2>2. CASE Browsers!LocksSwept(c)
    BY <2>2 DEF Browsers!LocksSwept
  <2>3. CASE Browsers!Launched(c)
    <3>1. CASE Browsers!Excess(c) = {}
      <4>1. idle' \in [Bots -> BOOLEAN]
        BY <2>3 DEF Browsers!Launched
      <4>2. /\ usedAt' \in [Bots -> Nat] /\ touches' \in Nat
            /\ live' \in [Bots -> Browsers!Calls \cup {Browsers!None}]
            /\ chromium' \in [Browsers!Calls -> {"none", "up", "closing", "gone"}]
        BY <2>3, <3>1 DEF Browsers!Launched, Browsers!Touch
      <4> QED
        BY <2>3, <3>1, <4>1, <4>2 DEF Browsers!Launched
    <3>2. CASE Browsers!Excess(c) # {}
      <4>1. PICK v \in Browsers!Excess(c) :
              Browsers!EvictFirst(c, v, Browsers!Excess(c), [live EXCEPT ![caller[c]] = c])
        BY <2>3, <3>2 DEF Browsers!Launched
      <4>2. /\ Browsers!Excess(c) \subseteq Bots /\ v # caller[c] /\ live[v] \in Browsers!Calls
            /\ [live EXCEPT ![caller[c]] = c] \in [Bots -> Browsers!Calls \cup {Browsers!None}]
            /\ [live EXCEPT ![caller[c]] = c][v] = live[v]
        BY DEF Browsers!Excess, Browsers!LiveBots
      <4>3. /\ live' \in [Bots -> Browsers!Calls \cup {Browsers!None}]
            /\ chromium' \in [Browsers!Calls -> {"none", "up", "closing", "gone"}]
            /\ held' \in [Browsers!Actors -> Browsers!Calls \cup {Browsers!None}]
            /\ list' \in [Browsers!Actors -> SUBSET Bots]
            /\ pc' = [pc EXCEPT ![c] = "evicting"]
        BY <4>1, <4>2 DEF Browsers!EvictFirst, Browsers!Asked
      <4>4. /\ usedAt' \in [Bots -> Nat] /\ touches' \in Nat /\ idle' \in [Bots -> BOOLEAN]
            /\ open' \in [Browsers!Calls -> BOOLEAN]
            /\ UNCHANGED <<kind, caller, starting, trouble, sweeps, hurried, dropped>>
        BY <2>3, <3>2 DEF Browsers!Launched, Browsers!Touch
      <4> QED
        BY <4>3, <4>4
    <3> QED
      BY <3>1, <3>2
  <2>4. CASE Browsers!JoinEnds(c)
    BY <2>4 DEF Browsers!JoinEnds
  <2>5. CASE Browsers!CapEnforced(c)
    BY <2>5 DEF Browsers!CapEnforced
  <2>6. CASE Browsers!Stopped(c)
    BY <2>6 DEF Browsers!Stopped
  <2>7. CASE Browsers!Removed(c)
    BY <2>7 DEF Browsers!Removed
  <2> QED
    BY <1>2, <2>1, <2>2, <2>3, <2>4, <2>5, <2>6, <2>7 DEF Browsers!Goes
<1>3. ASSUME NEW c \in Browsers!Calls,
             \/ Browsers!LaunchFails(c) \/ Browsers!Exits(c) \/ Browsers!Crashes(c)
             \/ Browsers!PageCloses(c)
      PROVE  Browsers!TypeOK'
  <2>1. CASE Browsers!LaunchFails(c)
    BY <2>1 DEF Browsers!LaunchFails
  <2>2. CASE Browsers!Exits(c)
    BY <2>2 DEF Browsers!Exits
  <2>3. CASE Browsers!Crashes(c)
    BY <2>3 DEF Browsers!Crashes
  <2>4. CASE Browsers!PageCloses(c)
    BY <2>4 DEF Browsers!PageCloses
  <2> QED
    BY <1>3, <2>1, <2>2, <2>3, <2>4
<1>4. CASE Browsers!SweepIdle
  <2>1. PICK v \in Browsers!LiveBots :
          Browsers!EvictFirst(Browsers!Sweeper, v, {b \in Browsers!LiveBots : idle[b]}, live)
    BY <1>4 DEF Browsers!SweepIdle
  <2>2. v \in Bots /\ live[v] \in Browsers!Calls /\ Browsers!LiveBots \subseteq Bots
    BY DEF Browsers!LiveBots
  <2>3. /\ live' \in [Bots -> Browsers!Calls \cup {Browsers!None}]
        /\ chromium' \in [Browsers!Calls -> {"none", "up", "closing", "gone"}]
        /\ held' \in [Browsers!Actors -> Browsers!Calls \cup {Browsers!None}]
        /\ list' \in [Browsers!Actors -> SUBSET Bots]
        /\ pc' = [pc EXCEPT ![Browsers!Sweeper] = "evicting"]
    BY <2>1, <2>2 DEF Browsers!EvictFirst, Browsers!Asked
  <2> QED
    BY <1>4, <2>3 DEF Browsers!SweepIdle
<1>5. CASE Browsers!SweepNext
  BY <1>5 DEF Browsers!SweepNext, Browsers!Asked
<1>6. CASE Browsers!SweepEnds
  BY <1>6 DEF Browsers!SweepEnds
<1>7. ASSUME NEW b \in Bots, Browsers!GoesIdle(b) PROVE Browsers!TypeOK'
  BY <1>7 DEF Browsers!GoesIdle
<1>8. CASE UNCHANGED Browsers!vars
  BY <1>8 DEF Browsers!vars
<1> QED
  BY <1>1, <1>2, <1>3, <1>4, <1>5, <1>6, <1>7, <1>8 DEF Browsers!Next

\* A call that launches is the one its Bot's next calls are given, unless page() has
\* found that Bot's browser half-dead.
LaunchesAreKnown ==
  \A c \in Browsers!Calls :
    /\ pc[c] \in {"sweeping", "launching", "evicting"} =>
         starting[caller[c]] = c \/ caller[c] \in dropped
    /\ pc[c] = "dropping" => caller[c] \in dropped

Launches == Browsers!StartingIsInFlight /\ LaunchesAreKnown

\* At first no launch is under way.
LEMMA LaunchesInit == Browsers!Init => Launches
BY CallNumbers DEF Browsers!Init, Launches, Browsers!StartingIsInFlight, LaunchesAreKnown

\* The launches under way and the map of them stay in step.
LEMMA LaunchesStep ==
  Browsers!TypeOK /\ Launches /\ [Browsers!Next]_Browsers!vars => Launches'
<1> SUFFICES ASSUME Browsers!TypeOK, Launches, [Browsers!Next]_Browsers!vars
             PROVE  Launches'
  OBVIOUS
<1> USE CallNumbers DEF Launches, Browsers!StartingIsInFlight, LaunchesAreKnown,
        Browsers!maps, Browsers!calls, Browsers!history, Browsers!Answered
<1>0. /\ live \in [Bots -> Browsers!Calls \cup {Browsers!None}]
      /\ starting \in [Bots -> Browsers!Calls \cup {Browsers!None}]
      /\ caller \in [Browsers!Calls -> Bots]
      /\ pc \in [Browsers!Actors ->
                  {"idle", "joined", "dropping", "sweeping", "launching", "evicting",
                   "stopping", "removing", "ok", "failed", "done"}]
  BY DEF Browsers!TypeOK
<1>1. ASSUME NEW c \in Browsers!Calls, Browsers!Arrival(c) PROVE Launches'
  <2>0. pc[c] = "idle" /\ hurried' \in {hurried, hurried \cup {caller[c]}} /\ UNCHANGED caller
    BY <1>1 DEF Browsers!Arrival, Browsers!Arrives, Browsers!PageJoins, Browsers!PageReuses,
       Browsers!PageDrops, Browsers!PageLaunches, Browsers!StopsNothing,
       Browsers!ResetsNothing, Browsers!StopCloses
  <2> USE <1>0, <2>0
  <2>1. CASE Browsers!PageJoins(c)
    BY <2>1 DEF Browsers!PageJoins
  <2>2. CASE Browsers!PageReuses(c)
    BY <2>2 DEF Browsers!PageReuses, Browsers!Touch
  <2>3. CASE Browsers!PageDrops(c)
    BY <2>3 DEF Browsers!PageDrops
  <2>4. CASE Browsers!PageLaunches(c)
    BY <2>4 DEF Browsers!PageLaunches, Browsers!Launching
  <2>5. CASE Browsers!StopsNothing(c)
    BY <2>5 DEF Browsers!StopsNothing
  <2>6. CASE Browsers!ResetsNothing(c)
    BY <2>6 DEF Browsers!ResetsNothing
  <2>7. ASSUME NEW k \in {"stop", "reset"}, Browsers!StopCloses(c, k) PROVE Launches'
    BY <2>7 DEF Browsers!StopCloses
  <2> QED
    BY <1>1, <2>1, <2>2, <2>3, <2>4, <2>5, <2>6, <2>7 DEF Browsers!Arrival
<1>2. ASSUME NEW c \in Browsers!Calls, Browsers!Goes(c) PROVE Launches'
  <2> USE <1>0
  <2>1. CASE Browsers!Dropped(c)
    BY <2>1 DEF Browsers!Dropped
  <2>2. CASE Browsers!LocksSwept(c)
    BY <2>2 DEF Browsers!LocksSwept
  <2>3. CASE Browsers!Launched(c)
    BY <2>3 DEF Browsers!Launched, Browsers!EvictFirst
  <2>4. CASE Browsers!JoinEnds(c)
    BY <2>4 DEF Browsers!JoinEnds
  <2>5. CASE Browsers!CapEnforced(c)
    BY <2>5 DEF Browsers!CapEnforced
  <2>6. CASE Browsers!Stopped(c)
    BY <2>6 DEF Browsers!Stopped
  <2>7. CASE Browsers!Removed(c)
    BY <2>7 DEF Browsers!Removed
  <2> QED
    BY <1>2, <2>1, <2>2, <2>3, <2>4, <2>5, <2>6, <2>7 DEF Browsers!Goes
<1>3. ASSUME NEW c \in Browsers!Calls, Browsers!LaunchFails(c) PROVE Launches'
  BY <1>0, <1>3 DEF Browsers!LaunchFails
<1>4. ASSUME NEW c \in Browsers!Calls,
             Browsers!Exits(c) \/ Browsers!Crashes(c) \/ Browsers!PageCloses(c)
      PROVE  Launches'
  BY <1>4 DEF Browsers!Exits, Browsers!Crashes, Browsers!PageCloses
<1>5. CASE Browsers!SweepIdle \/ Browsers!SweepNext \/ Browsers!SweepEnds
  BY <1>0, <1>5 DEF Browsers!SweepIdle, Browsers!EvictFirst, Browsers!SweepNext,
     Browsers!SweepEnds
<1>6. ASSUME NEW b \in Bots, Browsers!GoesIdle(b) PROVE Launches'
  BY <1>6 DEF Browsers!GoesIdle
<1>7. CASE UNCHANGED Browsers!vars
  BY <1>7 DEF Browsers!vars
<1> QED
  BY <1>1, <1>2, <1>3, <1>4, <1>5, <1>6, <1>7 DEF Browsers!Next

\* The composed module counts as its parts do.
LEMMA SameCardinality == \A S : Browsers!Cardinality(S) = Cardinality(S)
BY Zenon DEF Browsers!Cardinality, Cardinality

\* No two Bots with a browser were used at the same instant, nor any after now.
TouchesApart ==
  /\ \A b \in Bots : usedAt[b] <= touches
  /\ \A a, b \in Browsers!LiveBots : a # b => usedAt[a] # usedAt[b]

CapInv == Browsers!LiveWithinCap /\ TouchesApart

\* The Bots with a browser are finitely many.
LEMMA LiveBotsFinite ==
  /\ IsFiniteSet(Browsers!LiveBots) /\ Cardinality(Browsers!LiveBots) \in Nat
  /\ IsFiniteSet(Browsers!LiveBots)' /\ Cardinality(Browsers!LiveBots)' \in Nat
<1>1. Browsers!LiveBots \in SUBSET Bots /\ Browsers!LiveBots' \in SUBSET Bots
  BY DEF Browsers!LiveBots
<1> QED
  BY <1>1, BrowsersAssumption, FS_Subset, FS_CardinalityType DEF BrowsersAssumption

\* chooseEvictions: with the launch that ends, the cap is exceeded by one browser at
\* most, and the one it chooses has been quiet longest.
LEMMA TheQuietestIsChosen ==
  ASSUME Browsers!TypeOK, CapInv, NEW c \in Browsers!Calls
  PROVE  LET running == Browsers!LiveBots \cup {caller[c]}
         IN  /\ IsFiniteSet(running)
             /\ Browsers!Excess(c) = {} => Cardinality(running) <= MaxLive
             /\ \A v \in Browsers!Excess(c) :
                  /\ v \in running \ {caller[c]}
                  /\ Cardinality(running \ {v}) <= MaxLive
                  /\ \A a \in running \ {caller[c]} : usedAt[v] <= usedAt[a]
<1> DEFINE running == Browsers!LiveBots \cup {caller[c]}
           others == running \ {caller[c]}
           older(b) == {a \in others : usedAt[a] < usedAt[b]}
<1>1. Browsers!Excess(c) =
        {b \in others : Cardinality(older(b)) + MaxLive < Cardinality(running)}
  <2>1. Browsers!Excess(c) =
          {b \in others : Browsers!Cardinality(older(b)) + MaxLive
                          < Browsers!Cardinality(running)}
    BY Zenon DEF Browsers!Excess
  <2> QED
    BY <2>1, SameCardinality, Zenon
<1>2. /\ IsFiniteSet(running) /\ Cardinality(running) \in Nat
      /\ Cardinality(running) <= MaxLive + 1 /\ MaxLive \in Nat \ {0}
  <2>1. /\ IsFiniteSet(running)
        /\ Cardinality(running) = IF caller[c] \in Browsers!LiveBots
             THEN Cardinality(Browsers!LiveBots) ELSE Cardinality(Browsers!LiveBots) + 1
    BY LiveBotsFinite, FS_AddElement
  <2>2. Cardinality(Browsers!LiveBots) \in Nat /\ Cardinality(Browsers!LiveBots) <= MaxLive
    BY LiveBotsFinite, SameCardinality DEF CapInv, Browsers!LiveWithinCap
  <2> QED
    BY <2>1, <2>2, BrowsersAssumption DEF BrowsersAssumption
<1>3. /\ IsFiniteSet(others) /\ \A a \in others : usedAt[a] \in Nat
      /\ \A b : IsFiniteSet(older(b)) /\ Cardinality(older(b)) \in Nat
      /\ \A b : older(b) = {} => \A a \in others : ~(usedAt[a] < usedAt[b])
      /\ \A b : (\A a \in others : ~(usedAt[a] < usedAt[b])) => older(b) = {}
  <2>1. IsFiniteSet(others)
    BY <1>2, FS_RemoveElement
  <2>2. others \subseteq Bots /\ usedAt \in [Bots -> Nat]
    BY DEF Browsers!TypeOK, Browsers!LiveBots
  <2>3. \A b : older(b) \in SUBSET others
    OBVIOUS
  <2> QED
    BY <2>1, <2>2, <2>3, FS_Subset, FS_CardinalityType
<1> HIDE DEF older
<1>4. ASSUME Browsers!Excess(c) = {} PROVE Cardinality(running) <= MaxLive
  <2> SUFFICES ASSUME Cardinality(running) > MaxLive PROVE FALSE
    BY <1>2
  <2>1. others # {}
    <3>1. others = {} => running = {caller[c]}
      OBVIOUS
    <3>2. Cardinality({caller[c]}) = 1
      BY FS_Singleton
    <3> QED
      BY <3>1, <3>2, <1>2
  <2>2. PICK x \in others : \A y \in others : usedAt[x] <= usedAt[y]
    BY <1>3, <2>1, SomeIsLeast
  <2>3. older(x) = {}
    <3>1. \A a \in others : ~(usedAt[a] < usedAt[x])
      BY <1>3, <2>2
    <3> QED
      BY <1>3, <3>1
  <2>4. Cardinality(older(x)) = 0
    BY <2>3, FS_EmptySet
  <2> QED
    BY <1>1, <1>2, <1>4, <2>2, <2>4
<1>5. ASSUME NEW v \in Browsers!Excess(c)
      PROVE  /\ v \in others
             /\ Cardinality(running \ {v}) <= MaxLive
             /\ \A a \in others : usedAt[v] <= usedAt[a]
  <2>1. v \in others /\ Cardinality(older(v)) + MaxLive < Cardinality(running)
    BY <1>1, <1>5
  <2>2. Cardinality(older(v)) = 0
    BY <2>1, <1>2, <1>3
  <2>3. older(v) = {}
    BY <2>2, <1>3, FS_EmptySet
  <2>4. Cardinality(running \ {v}) = Cardinality(running) - 1
    BY <1>2, <2>1, FS_RemoveElement
  <2> QED
    BY <1>2, <1>3, <2>1, <2>3, <2>4
<1> QED
  BY <1>2, <1>4, <1>5

\* What the steps do to the Bots with a browser: the end of a launch alone adds one.
LEMMA LiveBotsStep ==
  ASSUME Browsers!TypeOK, [Browsers!Next]_Browsers!vars,
         \A c \in Browsers!Calls : ~Browsers!Launched(c)
  PROVE  /\ Browsers!LiveBots' \subseteq Browsers!LiveBots
         /\ UNCHANGED <<usedAt, touches>> \/ \E b \in Bots : Browsers!Touch(b)
<1> USE CallNumbers DEF Browsers!maps, Browsers!calls, Browsers!history, Browsers!LiveBots
<1>0. /\ live \in [Bots -> Browsers!Calls \cup {Browsers!None}]
      /\ caller \in [Browsers!Calls -> Bots]
  BY DEF Browsers!TypeOK
<1>1. ASSUME NEW c \in Browsers!Calls, Browsers!Arrival(c)
      PROVE  /\ Browsers!LiveBots' \subseteq Browsers!LiveBots
             /\ UNCHANGED <<usedAt, touches>> \/ \E b \in Bots : Browsers!Touch(b)
  BY <1>0, <1>1 DEF Browsers!Arrival, Browsers!PageJoins, Browsers!PageReuses,
     Browsers!PageDrops, Browsers!PageLaunches, Browsers!StopsNothing,
     Browsers!ResetsNothing, Browsers!StopCloses
<1>2. ASSUME NEW c \in Browsers!Calls,
             Browsers!Goes(c) \/ Browsers!LaunchFails(c) \/ Browsers!Exits(c)
             \/ Browsers!Crashes(c) \/ Browsers!PageCloses(c)
      PROVE  /\ Browsers!LiveBots' \subseteq Browsers!LiveBots
             /\ UNCHANGED <<usedAt, touches>>
  BY <1>0, <1>2 DEF Browsers!Goes, Browsers!Dropped, Browsers!LocksSwept, Browsers!JoinEnds,
     Browsers!CapEnforced, Browsers!Stopped, Browsers!Removed, Browsers!LaunchFails,
     Browsers!Exits, Browsers!Crashes, Browsers!PageCloses
<1>3. ASSUME \/ Browsers!SweepIdle \/ Browsers!SweepNext \/ Browsers!SweepEnds
             \/ \E b \in Bots : Browsers!GoesIdle(b)
             \/ UNCHANGED Browsers!vars
      PROVE  /\ Browsers!LiveBots' \subseteq Browsers!LiveBots
             /\ UNCHANGED <<usedAt, touches>>
  BY <1>0, <1>3 DEF Browsers!SweepIdle, Browsers!EvictFirst, Browsers!SweepNext,
     Browsers!SweepEnds, Browsers!GoesIdle, Browsers!vars
<1> QED
  BY <1>1, <1>2, <1>3 DEF Browsers!Next

\* The cap is kept: a launch that exceeds it leaves the oldest behind.
LEMMA CapStep ==
  Browsers!TypeOK /\ CapInv /\ [Browsers!Next]_Browsers!vars => CapInv'
<1> SUFFICES ASSUME Browsers!TypeOK, CapInv, [Browsers!Next]_Browsers!vars PROVE CapInv'
  OBVIOUS
<1>0. /\ live \in [Bots -> Browsers!Calls \cup {Browsers!None}]
      /\ usedAt \in [Bots -> Nat] /\ touches \in Nat
      /\ caller \in [Browsers!Calls -> Bots]
  BY DEF Browsers!TypeOK
<1>1. ASSUME NEW c \in Browsers!Calls, Browsers!Launched(c) PROVE CapInv'
  <2> DEFINE running == Browsers!LiveBots \cup {caller[c]}
  <2>1. /\ usedAt' = [usedAt EXCEPT ![caller[c]] = touches + 1] /\ touches' = touches + 1
        /\ UNCHANGED caller
    BY <1>1 DEF Browsers!Launched, Browsers!Touch
  <2>2. Browsers!LiveBots' \subseteq running /\ Cardinality(Browsers!LiveBots') <= MaxLive
    <3>1. CASE Browsers!Excess(c) = {}
      <4>1. Browsers!LiveBots' = running
        BY <1>0, <1>1, <3>1, CallNumbers DEF Browsers!Launched, Browsers!LiveBots
      <4> QED
        BY <3>1, <4>1, TheQuietestIsChosen
    <3>2. CASE Browsers!Excess(c) # {}
      <4>1. PICK v \in Browsers!Excess(c) :
              live' = [[live EXCEPT ![caller[c]] = c] EXCEPT ![v] = Browsers!None]
        BY <1>1, <3>2 DEF Browsers!Launched, Browsers!EvictFirst
      <4>2. v \in running \ {caller[c]}
        BY TheQuietestIsChosen
      <4>3. Browsers!LiveBots' = running \ {v}
        BY <1>0, <4>1, <4>2, CallNumbers DEF Browsers!LiveBots
      <4> QED
        BY <4>3, TheQuietestIsChosen
    <3> QED
      BY <3>1, <3>2
  <2>3. Browsers!LiveWithinCap'
    BY <2>2, SameCardinality DEF Browsers!LiveWithinCap
  <2>4. TouchesApart'
    BY <1>0, <2>1, <2>2 DEF CapInv, TouchesApart, Browsers!LiveBots
  <2> QED
    BY <2>3, <2>4 DEF CapInv
<1>2. ASSUME \A c \in Browsers!Calls : ~Browsers!Launched(c) PROVE CapInv'
  <2>1. /\ Browsers!LiveBots' \subseteq Browsers!LiveBots
        /\ UNCHANGED <<usedAt, touches>> \/ \E b \in Bots : Browsers!Touch(b)
    BY <1>2, LiveBotsStep
  <2>2. Cardinality(Browsers!LiveBots') <= Cardinality(Browsers!LiveBots)
    BY <2>1, LiveBotsFinite, FS_Subset
  <2>3. Browsers!LiveWithinCap'
    BY <2>2, LiveBotsFinite, SameCardinality, BrowsersAssumption
       DEF CapInv, Browsers!LiveWithinCap, BrowsersAssumption
  <2>4. TouchesApart'
    BY <1>0, <2>1 DEF CapInv, TouchesApart, Browsers!Touch, Browsers!LiveBots
  <2> QED
    BY <2>3, <2>4 DEF CapInv
<1> QED
  BY <1>1, <1>2

\* At first no browser is live.
LEMMA CapInit == Browsers!Init => CapInv
<1> SUFFICES ASSUME Browsers!Init PROVE CapInv
  OBVIOUS
<1>1. Browsers!LiveBots = {}
  BY DEF Browsers!Init, Browsers!LiveBots
<1>2. Cardinality({}) = 0
  BY FS_EmptySet
<1> QED
  BY <1>1, <1>2, SameCardinality, BrowsersAssumption DEF Browsers!Init, CapInv,
     Browsers!LiveWithinCap, TouchesApart, BrowsersAssumption

\* What is kept of the maps in every behaviour.
MapsInv == Browsers!TypeOK /\ Launches /\ CapInv

\* The maps, their types and the launches in flight, in every behaviour.
THEOREM MapsInvHolds == Browsers!Spec => []MapsInv
  BY BrowserTypesInit, LaunchesInit, CapInit, BrowserTypesStep, LaunchesStep, CapStep, PTL
     DEF Browsers!Spec, MapsInv

\* The maps of profiles.ts never hold more browsers than the cap, however launches,
\* evictions and sweeps overlap, and a launch in flight can still end.
THEOREM TheMapsAreKept == Browsers!Spec => []MapsAreKept
<1>1. MapsInv => MapsAreKept
  BY DEF MapsInv, Launches, CapInv, MapsAreKept, Browsers!MapsAreKept
<1> QED
  BY <1>1, MapsInvHolds, PTL

\* Two launches of one Bot at once: only if page() has found its browser half-dead.
THEOREM LaunchesAreShared == Browsers!Spec => []SharedLaunches
<1>1. MapsInv => SharedLaunches
  BY DEF MapsInv, Launches, LaunchesAreKnown, SharedLaunches, Browsers!SharedLaunches,
     Browsers!TwoLaunches
<1> QED
  BY <1>1, MapsInvHolds, PTL

\* The cap closes the Bot that has been quiet longest, never the one that asked.
THEOREM TheCapClosesTheQuietest == Browsers!Spec => CapClosesTheQuietest
<1> DEFINE QuietestCloses ==
      \A c \in Browsers!Calls :
        pc[c] = "launching" /\ pc'[c] \in {"ok", "evicting"}
        => /\ live'[caller[c]] = c
           /\ \A v \in Browsers!LiveBots : live'[v] = Browsers!None =>
                \A b \in Browsers!LiveBots :
                  live'[b] # Browsers!None => usedAt[v] < usedAt'[b]
<1>1. MapsInv /\ [Browsers!Next]_Browsers!vars => [QuietestCloses]_Browsers!vars
  <2> SUFFICES ASSUME MapsInv, Browsers!Next, NEW c \in Browsers!Calls,
                      pc[c] = "launching", pc'[c] \in {"ok", "evicting"}
               PROVE  /\ live'[caller[c]] = c
                      /\ \A v, b \in Browsers!LiveBots :
                           live'[v] = Browsers!None /\ live'[b] # Browsers!None
                             => usedAt[v] < usedAt'[b]
    OBVIOUS
  <2>0. /\ live \in [Bots -> Browsers!Calls \cup {Browsers!None}]
        /\ usedAt \in [Bots -> Nat] /\ touches \in Nat
        /\ caller \in [Browsers!Calls -> Bots]
    BY DEF MapsInv, Browsers!TypeOK
  <2>1. Browsers!Launched(c)
    <3> USE CallNumbers DEF MapsInv, Browsers!TypeOK, Browsers!calls
    <3>1. ASSUME NEW d \in Browsers!Calls, Browsers!Arrival(d) PROVE FALSE
      BY <3>1 DEF Browsers!Arrival, Browsers!Arrives, Browsers!PageJoins,
         Browsers!PageReuses, Browsers!PageDrops, Browsers!PageLaunches,
         Browsers!StopsNothing, Browsers!ResetsNothing, Browsers!StopCloses
    <3>2. ASSUME NEW d \in Browsers!Calls, Browsers!Goes(d), ~Browsers!Launched(c) PROVE FALSE
      BY <3>2 DEF Browsers!Goes, Browsers!Dropped, Browsers!LocksSwept, Browsers!Launched,
         Browsers!EvictFirst, Browsers!JoinEnds, Browsers!CapEnforced, Browsers!Stopped,
         Browsers!Removed
    <3>3. ASSUME NEW d \in Browsers!Calls,
                 \/ Browsers!LaunchFails(d) \/ Browsers!Exits(d) \/ Browsers!Crashes(d)
                 \/ Browsers!PageCloses(d)
          PROVE  FALSE
      BY <3>3 DEF Browsers!LaunchFails, Browsers!Exits, Browsers!Crashes, Browsers!PageCloses
    <3>4. ASSUME \/ Browsers!SweepIdle \/ Browsers!SweepNext \/ Browsers!SweepEnds
                 \/ \E b \in Bots : Browsers!GoesIdle(b)
          PROVE  FALSE
      BY <3>4 DEF Browsers!SweepIdle, Browsers!EvictFirst, Browsers!SweepNext,
         Browsers!SweepEnds, Browsers!GoesIdle
    <3> QED
      BY <3>1, <3>2, <3>3, <3>4 DEF Browsers!Next
  <2>2. usedAt' = [usedAt EXCEPT ![caller[c]] = touches + 1]
    BY <2>1 DEF Browsers!Launched, Browsers!Touch
  <2>3. CASE Browsers!Excess(c) = {}
    BY <2>0, <2>1, <2>3, CallNumbers DEF Browsers!Launched, Browsers!LiveBots
  <2>4. CASE Browsers!Excess(c) # {}
    <3>1. PICK v \in Browsers!Excess(c) :
            live' = [[live EXCEPT ![caller[c]] = c] EXCEPT ![v] = Browsers!None]
      BY <2>1, <2>4 DEF Browsers!Launched, Browsers!EvictFirst
    <3>2. /\ v \in Browsers!LiveBots /\ v # caller[c]
          /\ \A a \in Browsers!LiveBots \ {caller[c]} : usedAt[v] <= usedAt[a]
      BY TheQuietestIsChosen DEF MapsInv
    <3>3. /\ \A a \in Browsers!LiveBots \ {v} : usedAt[v] # usedAt[a]
          /\ usedAt[v] <= touches /\ Browsers!LiveBots \subseteq Bots
      BY <3>2 DEF MapsInv, CapInv, TouchesApart, Browsers!LiveBots
    <3>4. ASSUME NEW w \in Browsers!LiveBots, live'[w] = Browsers!None PROVE w = v
                   \/ w = caller[c]
      BY <2>0, <3>1, <3>4 DEF Browsers!LiveBots
    <3>5. live'[caller[c]] = c /\ c # Browsers!None
      BY <2>0, <3>1, <3>2, CallNumbers
    <3>6. ASSUME NEW b \in Browsers!LiveBots, b # v PROVE usedAt[v] < usedAt'[b]
      <4>1. CASE b = caller[c]
        BY <2>0, <2>2, <3>2, <3>3, <4>1
      <4>2. CASE b # caller[c]
        BY <2>0, <2>2, <3>2, <3>3, <3>6, <4>2
      <4> QED
        BY <4>1, <4>2
    <3>7. live'[v] = Browsers!None
      BY <2>0, <3>1, <3>2, <3>3
    <3> QED
      BY <3>4, <3>5, <3>6, <3>7
  <2> QED
    BY <2>3, <2>4
<1> QED
  BY <1>1, MapsInvHolds, PTL DEF Browsers!Spec, CapClosesTheQuietest,
     Browsers!CapClosesTheQuietest

\* A Bot that waited for its calls and for the eviction of its browser before it asked
\* again, and whose browser page() has not found half-dead.
Unhurried(b) == b \notin hurried \cup dropped

\* Such a Bot has one call under way at most ...
AloneAtWork ==
  \A c, d \in Browsers!Calls :
    caller[c] = caller[d] /\ Unhurried(caller[c]) /\ Browsers!Under(c) /\ Browsers!Under(d)
      => c = d

\* ... which knows what writes the directory it is about to use ...
NothingWritesUnderneath ==
  \A c, i \in Browsers!Calls :
    caller[c] = caller[i] /\ Unhurried(caller[c]) =>
      /\ pc[c] \in {"sweeping", "launching", "stopping", "removing"} =>
           live[caller[c]] = Browsers!None
      /\ pc[c] \in {"sweeping", "removing"} => ~Browsers!Writing(i)
      /\ pc[c] = "launching" /\ Browsers!Writing(i) => i = c
      /\ pc[c] = "stopping" /\ Browsers!Writing(i) => i = held[c]

\* ... and whatever writes it is in the map, is being evicted or belongs to that call.
WritersAreKnown ==
  \A i \in Browsers!Calls :
    Unhurried(caller[i]) /\ Browsers!Writing(i) =>
      \/ live[caller[i]] = i \/ Browsers!Evicted(i)
      \/ \E c \in Browsers!Calls :
           caller[c] = caller[i] /\ pc[c] \in {"launching", "stopping"}

DirectoryInv == AloneAtWork /\ NothingWritesUnderneath /\ WritersAreKnown

\* At first no Chromium is writing.
LEMMA DirectoryInit == Browsers!Init => DirectoryInv
BY CallNumbers DEF Browsers!Init, DirectoryInv, AloneAtWork, NothingWritesUnderneath,
   WritersAreKnown, Browsers!Under, Browsers!Writing

\* A call arrives: its Bot is hurried by it, or nothing of the Bot is under way.
LEMMA ArrivalKeepsDirectory ==
  ASSUME Browsers!TypeOK, DirectoryInv, NEW c \in Browsers!Calls, Browsers!Arrival(c)
  PROVE  DirectoryInv'
<1> USE CallNumbers DEF DirectoryInv, AloneAtWork, NothingWritesUnderneath, WritersAreKnown,
        Unhurried, Browsers!Under, Browsers!Writing, Browsers!Evicted, Browsers!maps,
        Browsers!Answered
<1>0. /\ live \in [Bots -> Browsers!Calls \cup {Browsers!None}]
      /\ chromium \in [Browsers!Calls -> {"none", "up", "closing", "gone"}]
      /\ caller \in [Browsers!Calls -> Bots]
      /\ held \in [Browsers!Actors -> Browsers!Calls \cup {Browsers!None}]
      /\ pc \in [Browsers!Actors ->
                  {"idle", "joined", "dropping", "sweeping", "launching", "evicting",
                   "stopping", "removing", "ok", "failed", "done"}]
  BY DEF Browsers!TypeOK
<1>1. \E k \in {"page", "stop", "reset"} : Browsers!Arrives(c, k)
  BY DEF Browsers!Arrival, Browsers!PageJoins, Browsers!PageReuses, Browsers!PageDrops,
     Browsers!PageLaunches, Browsers!StopsNothing, Browsers!ResetsNothing, Browsers!StopCloses
<1>2. /\ pc[c] = "idle" /\ hurried \subseteq hurried' /\ UNCHANGED caller
      /\ \A b \in Bots : b # caller[c] /\ b \in hurried' => b \in hurried
      /\ caller[c] \notin hurried' =>
           \A d \in Browsers!Calls : caller[d] = caller[c] =>
             ~Browsers!Under(d) /\ ~Browsers!Evicted(d)
  BY <1>1 DEF Browsers!Arrives
<1>3. CASE Browsers!PageJoins(c)
  BY <1>0, <1>2, <1>3 DEF Browsers!PageJoins
<1>4. CASE Browsers!PageReuses(c)
  BY <1>0, <1>2, <1>4 DEF Browsers!PageReuses, Browsers!Touch
<1>5. CASE Browsers!PageDrops(c)
  BY <1>0, <1>2, <1>5 DEF Browsers!PageDrops, Browsers!Asked
<1>6. CASE Browsers!PageLaunches(c)
  BY <1>0, <1>2, <1>6 DEF Browsers!PageLaunches
<1>7. CASE Browsers!StopsNothing(c)
  BY <1>0, <1>2, <1>7 DEF Browsers!StopsNothing
<1>8. CASE Browsers!ResetsNothing(c)
  BY <1>0, <1>2, <1>8 DEF Browsers!ResetsNothing
<1>9. ASSUME NEW k \in {"stop", "reset"}, Browsers!StopCloses(c, k) PROVE DirectoryInv'
  BY <1>0, <1>2, <1>9 DEF Browsers!StopCloses, Browsers!Asked
<1> QED
  BY <1>3, <1>4, <1>5, <1>6, <1>7, <1>8, <1>9 DEF Browsers!Arrival

\* A step of a call that is under way.
LEMMA WorkKeepsDirectory ==
  ASSUME Browsers!TypeOK, Launches, DirectoryInv, NEW c \in Browsers!Calls,
         Browsers!Goes(c) \/ Browsers!LaunchFails(c)
  PROVE  DirectoryInv'
<1> USE CallNumbers DEF DirectoryInv, AloneAtWork, NothingWritesUnderneath, WritersAreKnown,
        Unhurried, Browsers!Under, Browsers!Writing, Browsers!Evicted, Browsers!maps,
        Browsers!history, Browsers!Answered
<1>0. /\ live \in [Bots -> Browsers!Calls \cup {Browsers!None}]
      /\ chromium \in [Browsers!Calls -> {"none", "up", "closing", "gone"}]
      /\ caller \in [Browsers!Calls -> Bots]
      /\ held \in [Browsers!Actors -> Browsers!Calls \cup {Browsers!None}]
      /\ pc \in [Browsers!Actors ->
                  {"idle", "joined", "dropping", "sweeping", "launching", "evicting",
                   "stopping", "removing", "ok", "failed", "done"}]
  BY DEF Browsers!TypeOK
<1>1. CASE Browsers!Dropped(c)
  BY <1>0, <1>1 DEF Browsers!Dropped, Launches, LaunchesAreKnown
<1>2. CASE Browsers!LocksSwept(c)
  BY <1>0, <1>2 DEF Browsers!LocksSwept
<1>3. CASE Browsers!Launched(c)
  <2>1. CASE Browsers!Excess(c) = {}
    BY <1>0, <1>3, <2>1 DEF Browsers!Launched
  <2>2. CASE Browsers!Excess(c) # {}
    <3>1. PICK v \in Browsers!Excess(c) :
            Browsers!EvictFirst(c, v, Browsers!Excess(c), [live EXCEPT ![caller[c]] = c])
      BY <1>3, <2>2 DEF Browsers!Launched
    <3>2. v \in Bots /\ v # caller[c] /\ live[v] \in Browsers!Calls
      BY <1>0 DEF Browsers!Excess, Browsers!LiveBots
    <3>3. /\ live' = [[live EXCEPT ![caller[c]] = c] EXCEPT ![v] = Browsers!None]
          /\ chromium' = [chromium EXCEPT ![live[v]] = IF @ = "up" THEN "closing" ELSE @]
          /\ held' = [held EXCEPT ![c] = live[v]]
          /\ pc' = [pc EXCEPT ![c] = "evicting"]
          /\ UNCHANGED <<caller, hurried, dropped>> /\ pc[c] = "launching"
      BY <1>0, <1>3, <2>2, <3>1, <3>2
         DEF Browsers!Launched, Browsers!EvictFirst, Browsers!Asked
    <3> QED
      BY <1>0, <3>2, <3>3, SMTT(30)
  <2> QED
    BY <2>1, <2>2
<1>4. CASE Browsers!JoinEnds(c)
  BY <1>0, <1>4 DEF Browsers!JoinEnds
<1>5. CASE Browsers!CapEnforced(c)
  BY <1>0, <1>5 DEF Browsers!CapEnforced, Browsers!Settled
<1>6. CASE Browsers!Stopped(c)
  BY <1>0, <1>6 DEF Browsers!Stopped, Browsers!SettledStop, Browsers!Settled
<1>7. CASE Browsers!Removed(c)
  BY <1>0, <1>7 DEF Browsers!Removed
<1>8. CASE Browsers!LaunchFails(c)
  BY <1>0, <1>8 DEF Browsers!LaunchFails
<1> QED
  BY <1>1, <1>2, <1>3, <1>4, <1>5, <1>6, <1>7, <1>8 DEF Browsers!Goes

\* A step of Chromium, of the sweep or of time.
LEMMA RestKeepsDirectory ==
  ASSUME Browsers!TypeOK, DirectoryInv,
         \/ \E c \in Browsers!Calls :
              Browsers!Exits(c) \/ Browsers!Crashes(c) \/ Browsers!PageCloses(c)
         \/ Browsers!SweepIdle \/ Browsers!SweepNext \/ Browsers!SweepEnds
         \/ \E b \in Bots : Browsers!GoesIdle(b)
         \/ UNCHANGED Browsers!vars
  PROVE  DirectoryInv'
<1> USE CallNumbers DEF DirectoryInv, AloneAtWork, NothingWritesUnderneath, WritersAreKnown,
        Unhurried, Browsers!Under, Browsers!Writing, Browsers!Evicted, Browsers!maps,
        Browsers!calls, Browsers!history, Browsers!Answered
<1>0. /\ live \in [Bots -> Browsers!Calls \cup {Browsers!None}]
      /\ chromium \in [Browsers!Calls -> {"none", "up", "closing", "gone"}]
      /\ caller \in [Browsers!Calls -> Bots]
      /\ held \in [Browsers!Actors -> Browsers!Calls \cup {Browsers!None}]
      /\ pc \in [Browsers!Actors ->
                  {"idle", "joined", "dropping", "sweeping", "launching", "evicting",
                   "stopping", "removing", "ok", "failed", "done"}]
  BY DEF Browsers!TypeOK
<1>1. ASSUME NEW c \in Browsers!Calls,
             Browsers!Exits(c) \/ Browsers!Crashes(c) \/ Browsers!PageCloses(c)
      PROVE  DirectoryInv'
  BY <1>0, <1>1 DEF Browsers!Exits, Browsers!Crashes, Browsers!PageCloses
<1>2. CASE Browsers!SweepIdle
  BY <1>0, <1>2 DEF Browsers!SweepIdle, Browsers!EvictFirst, Browsers!Asked, Browsers!LiveBots
<1>3. CASE Browsers!SweepNext
  BY <1>0, <1>3 DEF Browsers!SweepNext, Browsers!Asked, Browsers!Settled
<1>4. CASE Browsers!SweepEnds
  BY <1>0, <1>4 DEF Browsers!SweepEnds, Browsers!Settled
<1>5. ASSUME NEW b \in Bots, Browsers!GoesIdle(b) PROVE DirectoryInv'
  BY <1>5 DEF Browsers!GoesIdle
<1>6. CASE UNCHANGED Browsers!vars
  BY <1>6 DEF Browsers!vars
<1> QED
  BY <1>1, <1>2, <1>3, <1>4, <1>5, <1>6

\* No step takes a directory from under a Chromium.
LEMMA DirectoryStep ==
  MapsInv /\ DirectoryInv /\ [Browsers!Next]_Browsers!vars => DirectoryInv'
BY ArrivalKeepsDirectory, WorkKeepsDirectory, RestKeepsDirectory DEF MapsInv, Browsers!Next

\* What is kept of the profile directories in every behaviour.
THEOREM DirectoryInvHolds == Browsers!Spec => []DirectoryInv
  BY DirectoryInit, DirectoryStep, MapsInvHolds, PTL DEF Browsers!Spec

\* A Bot that waits for the end of its last call and of an eviction before it asks
\* again has its singleton locks swept, and its profile directory removed, only when
\* no Chromium of its own is writing there, whatever other Bots do and whatever fails.
THEOREM TheDirectoryIsFree == Browsers!Spec => []UnhurriedDirectoryIsFree
<1>1. DirectoryInv => UnhurriedDirectoryIsFree
  BY DEF DirectoryInv, NothingWritesUnderneath, Unhurried, UnhurriedDirectoryIsFree,
     Browsers!UnhurriedDirectoryIsFree, Browsers!SweepsRunning, Browsers!RemovesRunning
<1> QED
  BY <1>1, DirectoryInvHolds, PTL

-----------------------------------------------------------------------------
\* Whatever the runs check of the safety of those who wait is true of the composition.
THEOREM TheWaitsAreSafe ==
  PartsSpec => /\ []WatchIsHonest /\ TurnsEndOnce /\ []HonestRuns /\ []MapsAreKept
               /\ []SharedLaunches /\ []UnhurriedDirectoryIsFree /\ CapClosesTheQuietest
BY EachPartIsItself, TheWatchIsHonest, TurnsAreEndedOnce, RunsAreHonest, TheMapsAreKept,
   LaunchesAreShared, TheDirectoryIsFree, TheCapClosesTheQuietest, PTL
=============================================================================
