------------------------------ MODULE GoalCard ------------------------------
(***************************************************************************)
(* What the goal loop promises its owner: a high-risk action waits on a    *)
(* card instead of acting, one card waits at a time, an action is carried  *)
(* out only while its card waits, and an answered card stays answered.     *)
(***************************************************************************)
CONSTANT Cards

VARIABLES phase,   \* phase[c]: "none", "waiting" or "decided"
          carried  \* the cards whose action was carried out, once or more

vars == <<phase, carried>>

Waiting == {c \in Cards : phase[c] = "waiting"}

Init == /\ phase = [c \in Cards |-> "none"]
        /\ carried = {}

Open(c) == /\ Waiting = {} /\ phase[c] = "none"
           /\ phase' = [phase EXCEPT ![c] = "waiting"]
           /\ UNCHANGED carried

CarryOut(c) == /\ c \in Waiting
               /\ carried' = carried \cup {c}
               /\ UNCHANGED phase

Decide(c) == /\ c \in Waiting
             /\ phase' = [phase EXCEPT ![c] = "decided"]
             /\ UNCHANGED carried

Next == \E c \in Cards : Open(c) \/ CarryOut(c) \/ Decide(c)

Spec == Init /\ [][Next]_vars
=============================================================================
