----------------------------- MODULE Checkout -----------------------------
(***************************************************************************)
(* How a person comes by a workspace and how it is paid for: POST          *)
(* /api/orgs, which gives the first one free, and the Stripe webhooks,     *)
(* which make the paid one, change its seats and end its plan. One person, *)
(* one subscription; deliveries and requests on any replica.               *)
(***************************************************************************)
EXTENDS Naturals, FiniteSets

CONSTANTS Creates,   \* slots for POST /api/orgs
          Hooks,     \* slots for webhook deliveries
          MaxOrgs,   \* bound on the workspaces made
          Repeats,   \* the events Stripe delivers again after an answer
          Crashes    \* a replica may stop between two statements

ASSUME CheckoutAssumption == IsFiniteSet(Creates) /\ MaxOrgs \in Nat

Events == {"completed", "updated", "deleted"}

VARIABLES orgs,      \* the workspaces, in the order they were made
          create,    \* the POST /api/orgs calls
          hook,      \* the webhook deliveries
          events,    \* Stripe's events: none, pending, answered
          made,      \* how many workspaces have been made
          jumbled    \* history: a webhook came next to another, out of order or
                     \* with a completed checkout again, or stopped half way

vars == <<orgs, create, hook, events, made, jumbled>>

Orgs == 1..MaxOrgs
NoOrg == [plan |-> "none", sub |-> FALSE, owned |-> FALSE, from |-> "none"]
IdleCall == [pc |-> "idle", org |-> 0]
IdleHook == [pc |-> "idle", event |-> "none", org |-> 0]

Init ==
  /\ orgs = [o \in Orgs |-> NoOrg]
  /\ create = [c \in Creates |-> IdleCall]
  /\ hook = [w \in Hooks |-> IdleHook]
  /\ events = [e \in Events |-> "none"]
  /\ made = 0
  /\ jumbled = FALSE

---------------------------------------------------------------------------
(* POST /api/orgs: count, create, own, one statement at a time.            *)

Owned == Cardinality({o \in Orgs : orgs[o].owned})

MayCreate_OffByOne == Owned <= 1

MayCreate == Owned < 1

\* More than one owned: 402, with a checkout to follow.
CreateCounts(c) ==
  /\ create[c].pc = "idle" /\ MayCreate
  /\ create' = [create EXCEPT ![c].pc = "counted"]
  /\ UNCHANGED <<orgs, hook, events, made, jumbled>>

CreateMakes(c) ==
  /\ create[c].pc = "counted" /\ made < MaxOrgs
  /\ made' = made + 1
  /\ orgs' = [orgs EXCEPT ![made + 1] = [plan |-> "free", sub |-> FALSE,
                                         owned |-> FALSE, from |-> "post"]]
  /\ create' = [create EXCEPT ![c] = [pc |-> "made", org |-> made + 1]]
  /\ UNCHANGED <<hook, events, jumbled>>

CreateOwns(c) ==
  /\ create[c].pc = "made"
  /\ orgs' = [orgs EXCEPT ![create[c].org].owned = TRUE]
  /\ create' = [create EXCEPT ![c] = IdleCall]
  /\ UNCHANGED <<hook, events, made, jumbled>>

CreateDies(c) ==
  /\ Crashes /\ create[c].pc # "idle"
  /\ create' = [create EXCEPT ![c] = IdleCall]
  /\ UNCHANGED <<orgs, hook, events, made, jumbled>>

---------------------------------------------------------------------------
(* Stripe.                                                                 *)

\* A checkout is paid, its subscription changes, and it ends.
StripeEmits ==
  /\ \/ events["completed"] = "none" /\ events' = [events EXCEPT !["completed"] = "pending"]
     \/ /\ events["completed"] # "none" /\ events["deleted"] = "none"
        /\ events["updated"] = "none"
        /\ events' = [events EXCEPT !["updated"] = "pending"]
     \/ /\ events["completed"] # "none" /\ events["deleted"] = "none"
        /\ events' = [events EXCEPT !["deleted"] = "pending"]
  /\ UNCHANGED <<orgs, create, hook, made, jumbled>>

Before(e) == CASE e = "completed" -> {}
               [] e = "updated" -> {"completed"}
               [] e = "deleted" -> {"completed", "updated"}

\* A webhook arrives: at first, after a failure, or again.
Deliver(w, e) ==
  /\ hook[w].pc = "idle"
  /\ events[e] = "pending" \/ (events[e] = "answered" /\ e \in Repeats)
  /\ jumbled' = (\/ jumbled \/ (e = "completed" /\ events[e] = "answered")
                 \/ \E v \in Hooks : hook[v].pc # "idle"
                 \/ \E f \in Before(e) : events[f] = "pending")
  /\ hook' = [hook EXCEPT ![w] = [pc |-> "received", event |-> e, org |-> 0]]
  /\ UNCHANGED <<orgs, create, events, made>>

Answer(w) ==
  /\ hook' = [hook EXCEPT ![w] = IdleHook]
  /\ events' = [events EXCEPT ![hook[w].event] = "answered"]

---------------------------------------------------------------------------
(* applyStripeEvent, one statement at a time.                              *)

\* checkout.session.completed: a workspace of its own ...
HookMakes(w) ==
  /\ hook[w].pc = "received" /\ hook[w].event = "completed" /\ made < MaxOrgs
  /\ made' = made + 1
  /\ orgs' = [orgs EXCEPT ![made + 1] = [plan |-> "paid", sub |-> TRUE,
                                         owned |-> FALSE, from |-> "hook"]]
  /\ hook' = [hook EXCEPT ![w].pc = "made", ![w].org = made + 1]
  /\ UNCHANGED <<create, events, jumbled>>

\* ... its owner, and the answer.
HookOwns(w) ==
  /\ hook[w].pc = "made"
  /\ orgs' = [orgs EXCEPT ![hook[w].org].owned = TRUE]
  /\ Answer(w)
  /\ UNCHANGED <<create, made, jumbled>>

\* getByStripeSubscription: one of the rows that carry the subscription.
Subscribed == {o \in Orgs : orgs[o].sub}

HookFinds(w) ==
  /\ hook[w].pc = "received" /\ hook[w].event \in {"updated", "deleted"}
  /\ \E o \in Subscribed :
       hook' = [hook EXCEPT ![w].pc = "found", ![w].org = o]
  /\ UNCHANGED <<orgs, create, events, made, jumbled>>

\* No workspace carries it: the event is answered and dropped.
HookDrops(w) ==
  /\ hook[w].pc = "received" /\ hook[w].event \in {"updated", "deleted"}
  /\ Subscribed = {}
  /\ Answer(w)
  /\ UNCHANGED <<orgs, create, made, jumbled>>

Billed_Cancelled(org, event) ==
  IF event = "deleted" THEN [org EXCEPT !.plan = "cancelled", !.sub = FALSE]
                       ELSE [org EXCEPT !.plan = "paid", !.sub = TRUE]

Billed_KeepsSubscription(org, event) ==
  IF event = "deleted" THEN [org EXCEPT !.plan = "free"]
                       ELSE [org EXCEPT !.plan = "paid", !.sub = TRUE]

\* applyBilling writes plan, seats and subscription by the workspace's id.
Billed(org, event) ==
  IF event = "deleted" THEN [org EXCEPT !.plan = "free", !.sub = FALSE]
                       ELSE [org EXCEPT !.plan = "paid", !.sub = TRUE]

HookBills(w) ==
  /\ hook[w].pc = "found"
  /\ orgs' = [orgs EXCEPT ![hook[w].org] = Billed(@, hook[w].event)]
  /\ Answer(w)
  /\ UNCHANGED <<create, made, jumbled>>

\* The replica stops: Stripe gets no answer and will deliver again.
HookDies(w) ==
  /\ Crashes /\ hook[w].pc # "idle"
  /\ hook' = [hook EXCEPT ![w] = IdleHook]
  /\ events' = [events EXCEPT ![hook[w].event] = "pending"]
  /\ jumbled' = TRUE
  /\ UNCHANGED <<orgs, create, made>>

Next ==
  \/ \E c \in Creates : \/ CreateCounts(c) \/ CreateMakes(c)
                        \/ CreateOwns(c) \/ CreateDies(c)
  \/ StripeEmits
  \/ \E w \in Hooks : \/ \E e \in Events : Deliver(w, e)
                      \/ HookMakes(w) \/ HookOwns(w) \/ HookFinds(w)
                      \/ HookDrops(w) \/ HookBills(w) \/ HookDies(w)

Spec == Init /\ [][Next]_vars

---------------------------------------------------------------------------
\* Every variable has its type (the organizations table and BILLING_PLANS).
TypeOK ==
  /\ orgs \in [Orgs -> [plan : {"none", "free", "paid"}, sub : BOOLEAN,
                        owned : BOOLEAN, from : {"none", "post", "hook"}]]
  /\ create \in [Creates -> [pc : {"idle", "counted", "made"}, org : 0..MaxOrgs]]
  /\ hook \in [Hooks -> [pc : {"idle", "received", "made", "found"},
                         event : Events \union {"none"}, org : 0..MaxOrgs]]
  /\ events \in [Events -> {"none", "pending", "answered"}]
  /\ made \in 0..MaxOrgs /\ jumbled \in BOOLEAN

\* A person owns at most one workspace that no checkout paid for (countOwnedBy
\* before create): always so in OneFreeWorkspace; in FreeWorkspacesAreBounded at
\* most as many as requests that are ever under way at once, however many
\* requests, webhooks and crashes there were.
FreelyOwned == {o \in Orgs : orgs[o].from = "post" /\ orgs[o].owned}

OneFreeWorkspace == Cardinality(FreelyOwned) <= 1

FreeWorkspacesAreBounded ==
  TypeOK /\ Cardinality(FreelyOwned) <= Cardinality(Creates)

\* A subscription that has ended pays for nothing: when its end has been answered
\* and no webhook is at work, no workspace is on a paid plan, also when Stripe
\* delivers an update or an end once more (applyBilling's null subscription).
EndedIsFree ==
  /\ events["deleted"] = "answered" /\ ~jumbled
  /\ \A w \in Hooks : hook[w].pc = "idle"
  /\ \A e \in Events : events[e] # "pending"
  => \A o \in Orgs : orgs[o].plan # "paid"

\* What is free stays within bounds, and what is paid is paid for.
BillingPromise == FreeWorkspacesAreBounded /\ EndedIsFree

\* One checkout makes one workspace ("replica B applies the same webhook to the
\* same row").
OneWorkspacePerCheckout ==
  Cardinality({o \in Orgs : orgs[o].from = "hook"}) <= 1
===========================================================================
