----------------------------- MODULE SpendLedger -----------------------------
(***************************************************************************)
(* What an organization's spend cap promises: a unit of spend is recorded  *)
(* only if what is then spent stays within the cap in force at that        *)
(* moment.  Lowering the cap below what is spent refuses later work and    *)
(* takes nothing back.                                                     *)
(***************************************************************************)
EXTENDS Naturals

CONSTANTS Amounts, \* the cents one unit of work may cost
          Caps,    \* the caps an owner may set
          NoCap    \* spend_cap_cents is null

VARIABLES cap, used

Fits(cents) == cap # NoCap => used + cents <= cap

Init == cap \in Caps \cup {NoCap} /\ used = 0

Charge == \E cents \in Amounts :
            /\ Fits(cents)
            /\ used' = used + cents
            /\ UNCHANGED cap

SetCap == cap' \in Caps \cup {NoCap} /\ UNCHANGED used

Next == Charge \/ SetCap

Spec == Init /\ [][Next]_<<cap, used>>
=============================================================================
