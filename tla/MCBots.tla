------------------------------- MODULE MCBots -------------------------------
(* Bots for TLC: whose Bot each is, and which organization it belongs to.    *)
EXTENDS Bots

MCOwner == [b \in Bots |-> IF b = "b" THEN "p" ELSE "q"]
MCBelongs == [b \in Bots |-> IF b = "b" THEN "home" ELSE "other"]
=============================================================================
