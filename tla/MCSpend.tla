------------------------------- MODULE MCSpend -------------------------------
(* Spend for TLC: SPEND_CENTS in tens of cents.                            *)
EXTENDS Spend, TLC

MCKinds == {"unattended", "model", "computer"}
MCCents == ("unattended" :> 10) @@ ("model" :> 1) @@ ("computer" :> 5)
=============================================================================
