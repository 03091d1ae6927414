----------------------------- MODULE MCChannel -----------------------------
(***************************************************************************)
(* A channel, for TLC: the loop of its goal as the server keeps it         *)
(* (GoalLoop), and the conversation in one tab that shows it               *)
(* (Conversation).                                                         *)
(*                                                                         *)
(* These parts share no state in the code, so a behaviour is one of one    *)
(* part, chosen at the beginning, and the run checks each part alone.      *)
(***************************************************************************)
EXTENDS GoalLoop

VARIABLES part,
          lagging, tab, rejoin, wire, deleted, focus, drawn, due, flush, typed, taken, astray,
          focuses

conversation == <<lagging, tab, rejoin, wire, deleted, focus, drawn, due, flush, typed,
                  taken, astray, focuses>>

Conversation == INSTANCE Conversation WITH
  Members <- {"a", "b"}, First <- "a", Nobody <- "nobody",
  MaxEvents <- 3, MaxLagged <- 2, MaxRuns <- 2

Parts == {"goal", "conversation"}

\* A part that is not chosen stands still in one of its initial states.
MCInit ==
  /\ part \in Parts
  /\ Init
  /\ Conversation!Init /\ (part # "conversation" => typed = 0 /\ ~lagging)

MCNext ==
  \/ part = "goal" /\ Next /\ UNCHANGED <<part, conversation>>
  \/ part = "conversation" /\ Conversation!Next /\ UNCHANGED <<part, vars>>

all == <<part, vars, conversation>>
MCSpec == MCInit /\ [][MCNext]_all /\ Conversation!Fairness

-----------------------------------------------------------------------------
\* What a person types goes out once, to the Bot it names, and an undisturbed answer is
\* told; and in its order, a turn at a time, where React does not lag (channel-chat.tsx,
\* conversation-view.tsx).
ConversationPromise ==
  /\ [](Conversation!WordsGoOutOnce /\ (~lagging => Conversation!WordsGoOutInOrder))
  /\ Conversation!QuietAnswersAreHeard
  /\ [][~lagging => Conversation!StartsInTurn]_conversation

\* All that is typed is said in the end, where React does not lag (conversation-view.tsx,
\* the drain).
EveryMessageIsSaid == []<>(lagging \/ Conversation!AllIsSaid)
=============================================================================
