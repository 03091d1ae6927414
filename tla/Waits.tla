-------------------------------- MODULE Waits --------------------------------
(***************************************************************************)
(* Those who wait for somebody else's process: the reader of a Bot's       *)
(* stream and the watch on it (StallGuard), the runs that take turns on a  *)
(* thread (UnattendedRun), and the calls that wait for a browser           *)
(* (BrowserProfiles).                                                      *)
(*                                                                         *)
(* These parts share no state in the code, so a behaviour is one of one    *)
(* part, chosen at the beginning, and each part is checked alone.          *)
(***************************************************************************)
EXTENDS StallGuard

CONSTANTS Parts,      \* the parts a behaviour may be one of
          MaxJobs, MaxTabs, Prompts, Replies, Holds, Attempts, Mishaps, \* of UnattendedRun
          Bots, MaxCalls, MaxLive, MaxTrouble, MaxSweeps     \* of BrowserProfiles

ASSUME PartsAssumption == Parts \subseteq {"streams", "run", "browsers"}
ASSUME RunAssumption == MaxJobs \in Nat /\ MaxTabs \in Nat /\ Attempts \in Nat \ {0}
ASSUME TextsAssumption ==
  LET texts == Prompts \cup Replies IN
  /\ "" \notin texts /\ Holds \in [texts -> SUBSET texts]
  /\ \A w \in texts : w \in Holds[w]
ASSUME BrowsersAssumption == MaxCalls \in Nat /\ MaxLive \in Nat \ {0} /\ IsFiniteSet(Bots)

VARIABLES part,
          stage, answer, tries, runner, known, lock, asks, says, thread, outlived, mishaps,
          live, usedAt, idle, starting, chromium, open, kind, caller, pc, held, list,
          touches, trouble, sweeps, hurried, dropped

run == <<stage, answer, tries, runner, known, lock, asks, says, thread, outlived, mishaps>>
browsers == <<live, usedAt, idle, starting, chromium, open, kind, caller, pc, held, list,
              touches, trouble, sweeps, hurried, dropped>>

UnattendedRun == INSTANCE UnattendedRun WITH
  MaxTrouble <- Mishaps, pc <- stage, trouble <- mishaps
Browsers == INSTANCE BrowserProfiles WITH bot <- caller, clock <- touches

\* A part that is not chosen stands still in one of its initial states.
PartsInit ==
  /\ part \in Parts
  /\ Init
  /\ UnattendedRun!Init /\ (part # "run" => known)
  /\ part # "run" => asks = [r \in UnattendedRun!Runs |-> CHOOSE p \in Prompts : TRUE]
  /\ Browsers!Init
  /\ part # "browsers" => caller = [c \in Browsers!Calls |-> CHOOSE b \in Bots : TRUE]

PartsNext ==
  \/ part = "streams" /\ Next /\ UNCHANGED <<part, run, browsers>>
  \/ part = "run" /\ UnattendedRun!Next /\ UNCHANGED <<part, vars, browsers>>
  \/ part = "browsers" /\ Browsers!Next /\ UNCHANGED <<part, vars, run>>

all == <<part, vars, run, browsers>>
PartsSpec == PartsInit /\ [][PartsNext]_all

\* The fairness of a part asks nothing of it where it stands still: nobody has called.
FairParts == PartsSpec /\ Fairness /\ UnattendedRun!Fairness /\ Browsers!Fairness

-----------------------------------------------------------------------------
\* One run writes to a thread at once, and a job reported done is on it or its words are
\* (jobs/run.ts, thread.ts).
HonestRuns == UnattendedRun!HonestRuns

\* The two maps of the browsers between any two steps (profiles.ts).
MapsAreKept == Browsers!MapsAreKept

\* Calls that arrive during a launch share it (profiles.ts, page).
SharedLaunches == Browsers!SharedLaunches

\* Whoever waits finds the profile directory free (profiles.ts, reset and page).
UnhurriedDirectoryIsFree == Browsers!UnhurriedDirectoryIsFree

\* The cap closes the Bot that has been quiet longest (browser-eviction.ts).
CapClosesTheQuietest == Browsers!CapClosesTheQuietest

\* The lock of a thread is lost by whoever has it (jobs/runtime-run.ts), and every call
\* that wants a browser is answered (profiles.ts).
WaitsEnd == UnattendedRun!LockComesFree /\ Browsers!EveryCallAnswered
=============================================================================
