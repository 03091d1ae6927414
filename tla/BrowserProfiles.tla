--------------------------- MODULE BrowserProfiles ---------------------------
(***************************************************************************)
(* The browsers of one computer (agent-computer/src/profiles.ts and        *)
(* browser-eviction.ts): one Chromium per Bot, started on first use,       *)
(* closed by stop, reset, the cap and the idle sweep.                      *)
(*                                                                         *)
(* The process has one thread: a step runs from one await to the next, and *)
(* anything else may run in between.  close() only asks Chromium to exit;  *)
(* it goes on writing its profile directory until it has, and the two      *)
(* seconds closeAndWait adds are taken to be enough for that.              *)
(*                                                                         *)
(* A browser is named by the page() call that launched it.                 *)
(***************************************************************************)
EXTENDS Naturals, FiniteSets

CONSTANTS Bots,
          MaxCalls,    \* bound: calls of page, stop and reset
          MaxLive,     \* MAX_LIVE_BROWSERS
          MaxTrouble,  \* bound: crashes, closed pages and failed launches
          MaxSweeps    \* bound: idle sweeps that find something

Calls == 1..MaxCalls
None == 0
Sweeper == MaxCalls + 1

VARIABLES
  \* The maps of createProfiles.
  live,     \* live[b]: the browser of Bot b, or None
  usedAt,   \* usedAt[b] of that entry, on a clock of touches
  idle,     \* whether usedAt[b] is more than IDLE_TIMEOUT_MS ago
  starting, \* starting[b]: the call whose launch is in flight, or None
  \* The Chromium processes.
  chromium, \* chromium[c]: "none", "up", "closing" or "gone"
  open,     \* open[c]: whether its page is open
  \* The calls, and the idle sweep, which is no call.
  kind,     \* kind[c]: "none", "page", "stop" or "reset"
  bot,      \* bot[c]
  pc,       \* pc[c], and pc[Sweeper]
  held,     \* held[c]: the browser it is closing, or the call it waits for
  list,     \* list[c]: the Bots it has still to evict
  clock, trouble, sweeps,
  \* History: the Bots called while another call or an eviction of theirs was
  \* under way, and those whose browser page() found half-dead.
  hurried, dropped

maps == <<live, usedAt, idle, starting>>
calls == <<kind, bot, pc, held, list>>
history == <<hurried, dropped>>
vars == <<maps, chromium, open, calls, clock, trouble, sweeps, history>>

Actors == Calls \cup {Sweeper}

Init == /\ live = [b \in Bots |-> None]
        /\ usedAt = [b \in Bots |-> 0]
        /\ idle = [b \in Bots |-> FALSE]
        /\ starting = [b \in Bots |-> None]
        /\ chromium = [c \in Calls |-> "none"]
        /\ open = [c \in Calls |-> FALSE]
        /\ kind = [c \in Calls |-> "none"]
        /\ bot \in [Calls -> Bots]
        /\ pc = [c \in Actors |-> "idle"]
        /\ held = [c \in Actors |-> None]
        /\ list = [c \in Actors |-> {}]
        /\ clock = 0 /\ trouble = 0 /\ sweeps = 0
        /\ hurried = {} /\ dropped = {}

Answered == {"ok", "failed", "done"}
Under(c) == pc[c] \notin {"idle"} \cup Answered

\* Browser i is being evicted, by the cap or by the sweep.
Evicted(i) == \E a \in Actors : pc[a] = "evicting" /\ held[a] = i

\* Calls arrive in the order of their numbers.
Arrives(c, k) ==
  /\ pc[c] = "idle" /\ \A d \in 1..(c - 1) : pc[d] # "idle"
  /\ kind' = [kind EXCEPT ![c] = k]
  /\ hurried' = IF \E d \in Calls : bot[d] = bot[c] /\ (Under(d) \/ Evicted(d))
                  THEN hurried \cup {bot[c]} ELSE hurried
  /\ UNCHANGED bot

LiveBots == {b \in Bots : live[b] # None}

Asked(i) == [chromium EXCEPT ![i] = IF @ = "up" THEN "closing" ELSE @]

Touch(b) == /\ clock' = clock + 1
            /\ usedAt' = [usedAt EXCEPT ![b] = clock + 1]

\* An entry that is replaced or deleted takes its age with it.
IdleWithEntry == idle' = [b \in Bots |-> idle[b] /\ live'[b] = live[b]]

(***************************************************************************)
(* page(botId), up to its first await.                                     *)
(***************************************************************************)
Launching_Unshared(c) == None

Launching(c) == starting[bot[c]]

Healthy(i) == chromium[i] = "up" /\ open[i]

PageJoins(c) ==
  /\ Arrives(c, "page")
  /\ Launching(c) # None
  /\ pc' = [pc EXCEPT ![c] = "joined"]
  /\ held' = [held EXCEPT ![c] = Launching(c)]
  /\ UNCHANGED <<maps, chromium, open, list, clock, trouble, sweeps, dropped>>

PageReuses(c) ==
  /\ Arrives(c, "page")
  /\ Launching(c) = None
  /\ live[bot[c]] # None /\ Healthy(live[bot[c]])
  /\ Touch(bot[c]) /\ idle' = [idle EXCEPT ![bot[c]] = FALSE]
  /\ pc' = [pc EXCEPT ![c] = "ok"]
  /\ UNCHANGED <<live, starting, chromium, open, held, list, trouble, sweeps, dropped>>

\* Half-dead: the browser went away, or its page did.
PageDrops(c) ==
  /\ Arrives(c, "page")
  /\ Launching(c) = None
  /\ live[bot[c]] # None /\ ~Healthy(live[bot[c]])
  /\ chromium' = Asked(live[bot[c]])
  /\ pc' = [pc EXCEPT ![c] = "dropping"]
  /\ dropped' = dropped \cup {bot[c]}
  /\ UNCHANGED <<maps, open, held, list, clock, trouble, sweeps>>

PageLaunches(c) ==
  /\ Arrives(c, "page")
  /\ Launching(c) = None /\ live[bot[c]] = None
  /\ starting' = [starting EXCEPT ![bot[c]] = c]
  /\ pc' = [pc EXCEPT ![c] = "sweeping"]
  /\ UNCHANGED <<live, usedAt, idle, chromium, open, held, list, clock, trouble, sweeps, dropped>>

\* close() has returned; the launch does not look at the maps again.
Dropped(c) ==
  /\ pc[c] = "dropping"
  /\ live' = [live EXCEPT ![bot[c]] = None]
  /\ starting' = [starting EXCEPT ![bot[c]] = c]
  /\ pc' = [pc EXCEPT ![c] = "sweeping"]
  /\ IdleWithEntry
  /\ UNCHANGED <<usedAt, chromium, open, kind, bot, held, list, clock, trouble, sweeps, history>>

\* The singleton files are gone and Chromium is starting on the directory.
LocksSwept(c) ==
  /\ pc[c] = "sweeping"
  /\ chromium' = [chromium EXCEPT ![c] = "up"]
  /\ pc' = [pc EXCEPT ![c] = "launching"]
  /\ UNCHANGED <<maps, open, kind, bot, held, list, clock, trouble, sweeps, history>>

(***************************************************************************)
(* The launch ends: the new browser enters the map and the cap is          *)
(* enforced, up to the first await of the first eviction.                  *)
(***************************************************************************)
Excess_NoCap(c) == {}

Excess_MostRecent(c) ==
  LET running == LiveBots \cup {bot[c]}
      newer(b) == {a \in running \ {bot[c]} : usedAt[a] > usedAt[b]}
  IN  {b \in running \ {bot[c]} : Cardinality(newer(b)) + MaxLive < Cardinality(running)}

\* chooseEvictions: the least recently used first, down to the cap.
Excess(c) ==
  LET running == LiveBots \cup {bot[c]}
      older(b) == {a \in running \ {bot[c]} : usedAt[a] < usedAt[b]}
  IN  {b \in running \ {bot[c]} : Cardinality(older(b)) + MaxLive < Cardinality(running)}

\* evict(v), the first of the Bots chosen, runs up to its await at once.
EvictFirst(a, v, chosen, running) ==
  /\ live' = [running EXCEPT ![v] = None]
  /\ chromium' = Asked(running[v])
  /\ held' = [held EXCEPT ![a] = running[v]]
  /\ list' = [list EXCEPT ![a] = chosen \ {v}]
  /\ pc' = [pc EXCEPT ![a] = "evicting"]

Launched(c) ==
  /\ pc[c] = "launching"
  /\ open' = [open EXCEPT ![c] = TRUE]
  /\ Touch(bot[c])
  /\ IF Excess(c) = {}
       THEN /\ live' = [live EXCEPT ![bot[c]] = c]
            /\ starting' = [starting EXCEPT ![bot[c]] = None]
            /\ pc' = [pc EXCEPT ![c] = "ok"]
            /\ UNCHANGED <<chromium, held, list>>
       ELSE /\ \E v \in Excess(c) :
                 /\ \A b \in Excess(c) : usedAt[v] <= usedAt[b]
                 /\ EvictFirst(c, v, Excess(c), [live EXCEPT ![bot[c]] = c])
            /\ UNCHANGED starting
  /\ IdleWithEntry
  /\ UNCHANGED <<kind, bot, trouble, sweeps, history>>

\* The finally clause of page() runs after a failure too.
LaunchFails_StaysPinned(c) ==
  /\ pc[c] \in {"sweeping", "launching"}
  /\ trouble < MaxTrouble /\ trouble' = trouble + 1
  /\ chromium' = [chromium EXCEPT ![c] = "gone"]
  /\ pc' = [pc EXCEPT ![c] = "failed"]
  /\ UNCHANGED <<maps, open, kind, bot, held, list, clock, sweeps, history>>

LaunchFails(c) ==
  /\ pc[c] \in {"sweeping", "launching"}
  /\ trouble < MaxTrouble /\ trouble' = trouble + 1
  /\ chromium' = [chromium EXCEPT ![c] = "gone"]
  /\ starting' = [starting EXCEPT ![bot[c]] = None]
  /\ pc' = [pc EXCEPT ![c] = "failed"]
  /\ UNCHANGED <<live, usedAt, idle, open, kind, bot, held, list, clock, sweeps, history>>

JoinEnds_OnlySuccess(c) ==
  /\ pc[c] = "joined" /\ pc[held[c]] = "ok"
  /\ pc' = [pc EXCEPT ![c] = "ok"]
  /\ UNCHANGED <<maps, chromium, open, kind, bot, held, list, clock, trouble, sweeps, history>>

JoinEnds(c) ==
  /\ pc[c] = "joined" /\ pc[held[c]] \in Answered
  /\ pc' = [pc EXCEPT ![c] = pc[held[c]]]
  /\ UNCHANGED <<maps, chromium, open, kind, bot, held, list, clock, trouble, sweeps, history>>

(***************************************************************************)
(* The rest of an eviction loop: once the browser before it has gone, the  *)
(* next Bot of the list, if it still has one.  Only the sweep ever has a   *)
(* second one: LiveWithinCap leaves the cap at most one Bot to close.      *)
(***************************************************************************)
Settled(a) == held[a] # None => chromium[held[a]] = "gone"

SweepNext ==
  /\ pc[Sweeper] = "evicting" /\ Settled(Sweeper)
  /\ \E v \in list[Sweeper] :
       /\ list' = [list EXCEPT ![Sweeper] = @ \ {v}]
       /\ IF live[v] = None THEN UNCHANGED <<live, chromium, held>>
          ELSE /\ live' = [live EXCEPT ![v] = None]
               /\ chromium' = Asked(live[v])
               /\ held' = [held EXCEPT ![Sweeper] = live[v]]
  /\ IdleWithEntry
  /\ UNCHANGED <<usedAt, starting, open, kind, bot, pc, clock, trouble, sweeps, history>>

CapEnforced(c) ==
  /\ pc[c] = "evicting" /\ Settled(c) /\ list[c] = {}
  /\ starting' = [starting EXCEPT ![bot[c]] = None]
  /\ pc' = [pc EXCEPT ![c] = "ok"]
  /\ held' = [held EXCEPT ![c] = None]
  /\ UNCHANGED <<live, usedAt, idle, chromium, open, kind, bot, list, clock, trouble, sweeps,
                 history>>

SweepIdle ==
  /\ pc[Sweeper] = "idle" /\ sweeps < MaxSweeps
  /\ sweeps' = sweeps + 1
  /\ \E v \in LiveBots :
       idle[v] /\ EvictFirst(Sweeper, v, {b \in LiveBots : idle[b]}, live)
  /\ IdleWithEntry
  /\ UNCHANGED <<usedAt, starting, open, kind, bot, clock, trouble, history>>

SweepEnds ==
  /\ pc[Sweeper] = "evicting" /\ Settled(Sweeper) /\ list[Sweeper] = {}
  /\ pc' = [pc EXCEPT ![Sweeper] = "idle"]
  /\ held' = [held EXCEPT ![Sweeper] = None]
  /\ UNCHANGED <<maps, chromium, open, kind, bot, list, clock, trouble, sweeps, history>>

(***************************************************************************)
(* stop(botId) and reset(botId).                                           *)
(***************************************************************************)
StopsNothing_Throws(c) ==
  /\ Arrives(c, "stop") /\ live[bot[c]] = None
  /\ pc' = [pc EXCEPT ![c] = "thrown"]
  /\ UNCHANGED <<maps, chromium, open, held, list, clock, trouble, sweeps, dropped>>

StopsNothing(c) ==
  /\ Arrives(c, "stop") /\ live[bot[c]] = None
  /\ pc' = [pc EXCEPT ![c] = "done"]
  /\ UNCHANGED <<maps, chromium, open, held, list, clock, trouble, sweeps, dropped>>

ResetsNothing(c) ==
  /\ Arrives(c, "reset") /\ live[bot[c]] = None
  /\ pc' = [pc EXCEPT ![c] = "removing"]
  /\ UNCHANGED <<maps, chromium, open, held, list, clock, trouble, sweeps, dropped>>

StopCloses(c, k) ==
  /\ Arrives(c, k) /\ live[bot[c]] # None
  /\ live' = [live EXCEPT ![bot[c]] = None]
  /\ chromium' = Asked(live[bot[c]])
  /\ held' = [held EXCEPT ![c] = live[bot[c]]]
  /\ pc' = [pc EXCEPT ![c] = "stopping"]
  /\ IdleWithEntry
  /\ UNCHANGED <<usedAt, starting, open, list, clock, trouble, sweeps, dropped>>

SettledStop_NoWait(c) == TRUE

SettledStop(c) == Settled(c)

Stopped(c) ==
  /\ pc[c] = "stopping" /\ SettledStop(c)
  /\ pc' = [pc EXCEPT ![c] = IF kind[c] = "reset" THEN "removing" ELSE "done"]
  /\ UNCHANGED <<maps, chromium, open, kind, bot, held, list, clock, trouble, sweeps, history>>

\* rm -r of the profile directory.
Removed(c) ==
  /\ pc[c] = "removing"
  /\ pc' = [pc EXCEPT ![c] = "done"]
  /\ UNCHANGED <<maps, chromium, open, kind, bot, held, list, clock, trouble, sweeps, history>>

(***************************************************************************)
(* Chromium, its pages and the time.                                       *)
(***************************************************************************)
Exits(i) == /\ chromium[i] = "closing"
            /\ chromium' = [chromium EXCEPT ![i] = "gone"]
            /\ UNCHANGED <<maps, open, calls, clock, trouble, sweeps, history>>

Crashes(i) == /\ chromium[i] = "up" /\ pc[i] # "launching"
              /\ trouble < MaxTrouble /\ trouble' = trouble + 1
              /\ chromium' = [chromium EXCEPT ![i] = "gone"]
              /\ UNCHANGED <<maps, open, calls, clock, sweeps, history>>

PageCloses(i) == /\ chromium[i] = "up" /\ open[i]
                 /\ trouble < MaxTrouble /\ trouble' = trouble + 1
                 /\ open' = [open EXCEPT ![i] = FALSE]
                 /\ UNCHANGED <<maps, chromium, calls, clock, sweeps, history>>

\* Those used before it are idle by then. Only while a sweep is left to see it.
GoesIdle(b) == /\ live[b] # None /\ ~idle[b] /\ sweeps < MaxSweeps
               /\ \A a \in Bots : live[a] # None /\ usedAt[a] < usedAt[b] => idle[a]
               /\ idle' = [idle EXCEPT ![b] = TRUE]
               /\ UNCHANGED <<live, usedAt, starting, chromium, open, calls, clock, trouble,
                              sweeps, history>>

Goes(c) == \/ Dropped(c) \/ LocksSwept(c) \/ Launched(c) \/ JoinEnds(c)
           \/ CapEnforced(c) \/ Stopped(c) \/ Removed(c)

Arrival(c) == \/ PageJoins(c) \/ PageReuses(c) \/ PageDrops(c) \/ PageLaunches(c)
              \/ StopsNothing(c) \/ ResetsNothing(c)
              \/ \E k \in {"stop", "reset"} : StopCloses(c, k)

Next == \/ \E c \in Calls : \/ Arrival(c) \/ Goes(c) \/ LaunchFails(c)
                            \/ Exits(c) \/ Crashes(c) \/ PageCloses(c)
        \/ SweepIdle \/ SweepNext \/ SweepEnds
        \/ \E b \in Bots : GoesIdle(b)

Spec == Init /\ [][Next]_vars

\* The event loop runs what is ready, and a Chromium asked to exit does.
Fairness == /\ \A c \in Calls : WF_vars(Goes(c)) /\ WF_vars(Exits(c))
            /\ WF_vars(SweepNext) /\ WF_vars(SweepEnds)

LiveSpec == Spec /\ Fairness

-----------------------------------------------------------------------------
(***************************************************************************)
(* The maps and the calls have their types.                                *)
(***************************************************************************)
TypeOK ==
  /\ live \in [Bots -> Calls \cup {None}]
  /\ usedAt \in [Bots -> Nat] /\ clock \in Nat
  /\ idle \in [Bots -> BOOLEAN]
  /\ starting \in [Bots -> Calls \cup {None}]
  /\ chromium \in [Calls -> {"none", "up", "closing", "gone"}]
  /\ open \in [Calls -> BOOLEAN]
  /\ kind \in [Calls -> {"none", "page", "stop", "reset"}]
  /\ bot \in [Calls -> Bots]
  /\ pc \in [Actors -> {"idle", "joined", "dropping", "sweeping", "launching",
                        "evicting", "stopping", "removing"} \cup Answered]
  /\ held \in [Actors -> Calls \cup {None}]
  /\ list \in [Actors -> SUBSET Bots]
  /\ trouble \in Nat /\ sweeps \in Nat
  /\ hurried \subseteq Bots /\ dropped \subseteq Bots

Writing(i) == chromium[i] \in {"up", "closing"}

(***************************************************************************)
(* The map never holds more than the cap between two steps, however many   *)
(* launches, evictions and sweeps overlap (enforceCap).                    *)
(***************************************************************************)
LiveWithinCap == Cardinality(LiveBots) <= MaxLive

(***************************************************************************)
(* A call waits only for a launch that can still end, and a launch that    *)
(* ended, failed or not, is not what the next call is given ("a failed     *)
(* launch does not pin future calls to a rejected promise").               *)
(***************************************************************************)
StartingIsInFlight ==
  \A b \in Bots : starting[b] # None =>
    /\ pc[starting[b]] \in {"sweeping", "launching", "evicting"}
    /\ bot[starting[b]] = b

(***************************************************************************)
(* The two maps of profiles.ts between any two steps.                      *)
(***************************************************************************)
MapsAreKept == TypeOK /\ LiveWithinCap /\ StartingIsInFlight

(***************************************************************************)
(* A launch that enforces the cap closes the Bot that has been quiet       *)
(* longest, and never the one that just asked.                             *)
(***************************************************************************)
CapClosesTheQuietest ==
  [][\A c \in Calls :
       pc[c] = "launching" /\ pc'[c] \in {"ok", "evicting"}
       => /\ live'[bot[c]] = c
          /\ \A v \in LiveBots : live'[v] = None =>
               \A b \in LiveBots : live'[b] # None => usedAt[v] < usedAt'[b]]_vars

(***************************************************************************)
(* Every page, stop and reset call is answered: launches that wait for     *)
(* evictions, and calls that wait for launches, never wait in a circle.    *)
(***************************************************************************)
EveryCallAnswered == \A c \in Calls : Under(c) ~> pc[c] \in Answered

(***************************************************************************)
(* Calls that arrive during a launch wait for that launch instead of       *)
(* starting another browser against the same profile directory (page):     *)
(* always so in OneLaunchPerBot, and in SharedLaunches for a Bot whose     *)
(* browser page() has never found half-dead.                               *)
(***************************************************************************)
TwoLaunches(c, d) ==
  /\ c # d /\ bot[c] = bot[d]
  /\ {pc[c], pc[d]} \subseteq {"sweeping", "launching"}

OneLaunchPerBot == \A c, d \in Calls : ~TwoLaunches(c, d)

SharedLaunches == \A c, d \in Calls : TwoLaunches(c, d) => bot[c] \in dropped

(***************************************************************************)
(* A singleton lock swept before a launch is from a life that has ended,   *)
(* no browser of this Bot is running.                                      *)
(***************************************************************************)
SweepsRunning(c) ==
  pc[c] = "sweeping" /\ \E i \in Calls : bot[i] = bot[c] /\ Writing(i)

SweptLocksAreStale == \A c \in Calls : ~SweepsRunning(c)

(***************************************************************************)
(* The browser is closed before the directory is deleted (reset).          *)
(***************************************************************************)
RemovesRunning(c) ==
  pc[c] = "removing" /\ \E i \in Calls : bot[i] = bot[c] /\ Writing(i)

RemovedIsClosed == \A c \in Calls : ~RemovesRunning(c)

(***************************************************************************)
(* Both hold for a Bot that waits for the end of its last call, and of an  *)
(* eviction of its browser, before it asks again, and whose browser page() *)
(* has never found half-dead, whatever other Bots do and whatever crashes. *)
(***************************************************************************)
UnhurriedDirectoryIsFree ==
  \A c \in Calls :
    SweepsRunning(c) \/ RemovesRunning(c) => bot[c] \in hurried \cup dropped

(***************************************************************************)
(* The sweep closes browsers nothing has touched for a while.              *)
(***************************************************************************)
SweptIsIdle ==
  [][\A b \in Bots : live[b] # None /\ live'[b] = None
                     /\ list[Sweeper] # list'[Sweeper]
     => idle[b]]_vars
=============================================================================
