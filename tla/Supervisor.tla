----------------------------- MODULE Supervisor -----------------------------
(***************************************************************************)
(* One Bot's computer as the supervisor keeps it: ensure, stop and reset   *)
(* against Docker, any number of them at once (supervisor/src/docker.ts,   *)
(* index.ts).  Bots share nothing, since every name is derived from the    *)
(* Bot's id, so one Bot is enough.                                         *)
(*                                                                         *)
(* A step is one request to Docker, which answers it atomically.           *)
(* Containers and volumes are told apart by the number they were made      *)
(* under; 0 is none.                                                       *)
(***************************************************************************)
EXTENDS Naturals, FiniteSets

CONSTANTS MaxCalls,   \* bound: requests to the supervisor, numbered as they come
          MaxMade,    \* bound: containers made, ours and others'
          Attempts    \* ATTEMPTS, how often ensure goes round

VARIABLES box,        \* the container of the name: its number, whose it is, how it is
          made,       \* how many containers and volumes were made
          profile,    \* the profile volume
          kind,       \* what each call is: "none", "ensure", "stop", "reset"
          pc, left,   \* where it is, and the attempts it has left
          answer,     \* the container an ensure was answered about
          doomed,     \* history: the profile volume when a reset removed the container
          disturbed   \* history: the kinds of call each one overlapped, "held" if a foreign
                      \* container had the name when it began, "foreign" if one took it since

vars == <<box, made, profile, kind, pc, left, answer, doomed, disturbed>>
progress == <<kind, left, answer>>

Calls == 1..MaxCalls

Gone == [id |-> 0, whose |-> "nobody", status |-> "none"]
Ours == [id |-> made + 1, whose |-> "ours", status |-> "created"]
Foreign == {[Ours EXCEPT !.whose = "foreign", !.status = s] : s \in {"running", "exited"}}

Ended == {"ok", "absent", "held", "docker", "silent"}
Running(c) == pc[c] \notin {"idle"} \cup Ended

Init ==
  /\ box = Gone /\ made = 0 /\ profile = 0
  /\ kind = [c \in Calls |-> "none"] /\ pc = [c \in Calls |-> "idle"]
  /\ left = [c \in Calls |-> Attempts]
  /\ answer = [c \in Calls |-> 0] /\ doomed = [c \in Calls |-> 0]
  /\ disturbed = [c \in Calls |-> {}]

\* inspectOwned answers with the container: the label is checked in one place.
Owned == box.whose = "ours"

Goto(c, label) == pc' = [pc EXCEPT ![c] = label]

\* A call is disturbed by whatever begins or is under way while it runs.
Begin(c, k) ==
  /\ pc[c] = "idle" /\ \A d \in Calls : d < c => pc[d] # "idle"
  /\ kind' = [kind EXCEPT ![c] = k]
  /\ Goto(c, "inspect")
  /\ disturbed' = [d \in Calls |->
       IF d = c THEN {kind[e] : e \in {e \in Calls : Running(e)}}
                     \cup (IF box.whose = "foreign" THEN {"held"} ELSE {})
       ELSE IF Running(d) THEN disturbed[d] \cup {k} ELSE disturbed[d]]
  /\ UNCHANGED <<box, made, profile, left, answer, doomed>>

-----------------------------------------------------------------------------
(* ensure.                                                                 *)

EnsureInspect(c) ==
  /\ kind[c] = "ensure" /\ pc[c] = "inspect"
  /\ Goto(c, IF ~Owned THEN "volumes"
             ELSE IF box.status = "running" THEN "settle" ELSE "start")
  /\ UNCHANGED <<box, made, profile, progress, doomed, disturbed>>

\* The profile volume is made unless it is there (409); a container that is made
\* without it makes it too. The workspace volume is never removed.
ProfileThere == IF profile = 0 THEN made + 1 ELSE profile

CreateVolumes(c) ==
  /\ pc[c] = "volumes" /\ made < MaxMade
  /\ profile' = ProfileThere
  /\ made' = IF profile = 0 THEN made + 1 ELSE made
  /\ Goto(c, "create")
  /\ UNCHANGED <<box, progress, doomed, disturbed>>

CreateContainer(c) ==
  /\ pc[c] = "create" /\ made < MaxMade
  /\ IF box.id = 0
     THEN /\ box' = Ours /\ profile' = ProfileThere /\ made' = made + 1
          /\ Goto(c, "start")
     ELSE /\ UNCHANGED <<box, profile, made>>
          /\ Goto(c, "conflict")
  /\ UNCHANGED <<progress, doomed, disturbed>>

Conflict_Adopts(c) ==
  /\ pc[c] = "conflict"
  /\ Goto(c, "start")
  /\ UNCHANGED <<box, made, profile, progress, doomed, disturbed>>

\* 409: the name is held by a container of ours, which is the one to start, or
\* the call fails with NameHeldError.
Conflict(c) ==
  /\ pc[c] = "conflict"
  /\ Goto(c, IF Owned THEN "start" ELSE "held")
  /\ UNCHANGED <<box, made, profile, progress, doomed, disturbed>>

Start_NoRetry(c) ==
  /\ pc[c] = "start"
  /\ box' = IF box.status \in {"created", "exited"}
            THEN [box EXCEPT !.status = "running"] ELSE box
  /\ Goto(c, IF box.id # 0 THEN "settle" ELSE "docker")
  /\ UNCHANGED <<made, profile, progress, doomed, disturbed>>

\* start: 304 is running already; 404 goes round again while attempts are left.
Start(c) ==
  /\ pc[c] = "start"
  /\ box' = IF box.status \in {"created", "exited"}
            THEN [box EXCEPT !.status = "running"] ELSE box
  /\ left' = [left EXCEPT ![c] = IF box.id = 0 THEN @ - 1 ELSE @]
  /\ Goto(c, IF box.id # 0 THEN "settle" ELSE IF left'[c] > 0 THEN "inspect" ELSE "docker")
  /\ UNCHANGED <<made, profile, kind, answer, doomed, disturbed>>

\* The inspect whose answer is reported: status, port and address.
Settle(c) ==
  /\ pc[c] = "settle"
  /\ answer' = [answer EXCEPT ![c] = IF Owned THEN box.id ELSE 0]
  /\ Goto(c, "wait")
  /\ UNCHANGED <<box, made, profile, kind, left, doomed, disturbed>>

\* waitUntilAnswering: the container that now has the name may be healthy, once it
\* runs, or the deadline passes first.
Answers(c) ==
  /\ pc[c] = "wait" /\ box.status = "running"
  /\ Goto(c, "ok")
  /\ UNCHANGED <<box, made, profile, progress, doomed, disturbed>>

Deadline(c) ==
  /\ pc[c] = "wait"
  /\ Goto(c, "silent")
  /\ UNCHANGED <<box, made, profile, progress, doomed, disturbed>>

-----------------------------------------------------------------------------
(* stop and reset.                                                         *)

InspectFirst(c) ==
  /\ kind[c] \in {"stop", "reset"} /\ pc[c] = "inspect"
  /\ Goto(c, IF ~Owned THEN "absent" ELSE IF kind[c] = "stop" THEN "stop" ELSE "remove")
  /\ UNCHANGED <<box, made, profile, progress, doomed, disturbed>>

\* 304 and 404 are as good.
StopContainer(c) ==
  /\ pc[c] = "stop"
  /\ box' = IF box.status = "running"
            THEN [box EXCEPT !.status = "exited"] ELSE box
  /\ Goto(c, "ok")
  /\ UNCHANGED <<made, profile, progress, doomed, disturbed>>

RemoveContainer(c) ==
  /\ pc[c] = "remove"
  /\ box' = Gone
  /\ doomed' = [doomed EXCEPT ![c] = profile]
  /\ Goto(c, "profile")
  /\ UNCHANGED <<made, profile, progress, disturbed>>

RemoveProfile_Kept(c) ==
  /\ pc[c] = "profile"
  /\ Goto(c, "ok")
  /\ UNCHANGED <<box, made, profile, progress, doomed, disturbed>>

\* 404, and 409 for a volume some container uses, are as good.
RemoveProfile(c) ==
  /\ pc[c] = "profile"
  /\ profile' = IF box.whose = "ours" THEN profile ELSE 0
  /\ Goto(c, "ok")
  /\ UNCHANGED <<box, made, progress, doomed, disturbed>>

-----------------------------------------------------------------------------
(* The rest of the host.                                                   *)

\* Somebody else's container takes the name, or gives it up.
ForeignComes ==
  /\ box.id = 0 /\ made < MaxMade
  /\ box' \in Foreign /\ made' = made + 1
  /\ disturbed' = [d \in Calls |->
       IF Running(d) THEN disturbed[d] \cup {"foreign"} ELSE disturbed[d]]
  /\ UNCHANGED <<profile, pc, progress, doomed>>

ForeignGoes ==
  /\ box.whose = "foreign"
  /\ box' = Gone
  /\ UNCHANGED <<made, profile, pc, progress, doomed, disturbed>>

CallStep(c) ==
  \/ EnsureInspect(c) \/ CreateVolumes(c) \/ CreateContainer(c) \/ Conflict(c)
  \/ Start(c) \/ Settle(c) \/ Answers(c) \/ Deadline(c)
  \/ InspectFirst(c) \/ StopContainer(c) \/ RemoveContainer(c) \/ RemoveProfile(c)

Next ==
  \/ \E c \in Calls : \/ CallStep(c)
                      \/ \E k \in {"ensure", "stop", "reset"} : Begin(c, k)
  \/ ForeignComes \/ ForeignGoes

Spec == Init /\ [][Next]_vars

-----------------------------------------------------------------------------
TypeOK ==
  /\ box \in [id : 0..MaxMade, whose : {"nobody", "ours", "foreign"},
              status : {"none", "created", "running", "exited"}]
  /\ made \in 0..MaxMade /\ profile \in 0..MaxMade
  /\ kind \in [Calls -> {"none", "ensure", "stop", "reset"}]
  /\ pc \in [Calls -> {"idle", "inspect", "volumes", "create", "conflict", "start",
                       "settle", "wait", "stop", "remove", "profile"} \cup Ended]
  /\ left \in [Calls -> 0..Attempts]
  /\ answer \in [Calls -> 0..MaxMade] /\ doomed \in [Calls -> 0..MaxMade]
  /\ disturbed \in [Calls -> SUBSET {"ensure", "stop", "reset", "held", "foreign"}]

\* A container of the name that this deployment does not own is never started,
\* stopped, removed or handed out ("it will not be adopted"), unless it took the
\* name, freed by a reset, in the middle of the call.
OnlyOurs ==
  [][\A c \in Calls :
       pc'[c] # pc[c] /\ box.whose = "foreign" /\ "foreign" \notin disturbed[c] =>
         box' = box /\ pc'[c] # "ok"]_vars

Ensured(c) == kind[c] = "ensure" /\ pc[c] = "ok"
Resets == {c \in Calls : kind[c] = "reset"}

\* Calls that ask for one Bot's computer at once get the same one until it is
\* reset ("two messages to one Bot at the same moment must not race into two
\* containers"). And none fails for another call's sake, unless it meets a second
\* reset, or loses the name to another ensure and that one's container to a reset.
EnsuresAgree ==
  /\ TypeOK
  /\ Resets = {} => \A c, d \in Calls : Ensured(c) /\ Ensured(d) => answer[c] = answer[d]
  /\ \A c \in Calls : kind[c] = "ensure" /\ disturbed[c] \cap {"held", "foreign"} = {} =>
       /\ pc[c] = "docker" => Cardinality(Resets) >= Attempts
       /\ pc[c] = "held" => {"reset", "ensure"} \subseteq disturbed[c]

\* A reset that says it did throws the browser profile away, unless an ensure was
\* under way with it: the next computer starts with another one.
ResetThrowsAway ==
  \A c \in Calls :
    kind[c] = "reset" /\ pc[c] = "ok" /\ "ensure" \notin disturbed[c] =>
      profile = 0 \/ profile # doomed[c]

\* Without that exception ("throw this Bot's computer away so the next request
\* builds a clean one").
EveryResetThrowsAway ==
  \A c \in Calls :
    kind[c] = "reset" /\ pc[c] = "ok" => profile = 0 \/ profile # doomed[c]

\* "A container named ... does not belong to this deployment" is true when it is
\* said (NameHeldError).
HeldIsForeign ==
  [][\A c \in Calls : pc[c] # "held" /\ pc'[c] = "held" => box.whose = "foreign"]_vars
===========================================================================
