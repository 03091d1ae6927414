--------------------------- MODULE TurnEndings ---------------------------
(***************************************************************************)
(* What the watch on a Bot's stream promises the reader of a turn: the     *)
(* turn is relayed while it is open, it ends once and in one way, and      *)
(* nothing follows its end.                                                *)
(***************************************************************************)
EXTENDS Naturals

CONSTANT Streams

VARIABLES ending,   \* how each turn ended, "open" while it has not
          relayed   \* how many of the Bot's chunks its reader has been given

Endings == {"completed", "broken", "stalled"}

EndingsInit ==
  /\ ending = [s \in Streams |-> "open"]
  /\ relayed = [s \in Streams |-> 0]

\* One stream hands on a chunk.
Relay(s) ==
  /\ ending[s] = "open"
  /\ relayed' = [relayed EXCEPT ![s] = @ + 1]
  /\ UNCHANGED ending

\* Open streams end, several at once when one sweep finds them silent.
End(S) ==
  /\ \A s \in S : ending[s] = "open"
  /\ \E how \in Endings :
       ending' = [s \in Streams |-> IF s \in S THEN how ELSE ending[s]]
  /\ UNCHANGED relayed

EndingsNext == (\E s \in Streams : Relay(s)) \/ (\E S \in SUBSET Streams : End(S))

EndingsSpec == EndingsInit /\ [][EndingsNext]_<<ending, relayed>>
===========================================================================
