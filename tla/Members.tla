------------------------------ MODULE Members ------------------------------
(***************************************************************************)
(* Who is in an organization: invites and the seats they need, their       *)
(* acceptance, roles, removal and restoration, sign-in, and the first      *)
(* request of somebody who belongs nowhere (orgs/store.ts, orgs/routes.ts, *)
(* people/store.ts, auth/guards.ts, auth/index.ts, app.ts).                *)
(*                                                                         *)
(* One organization, the deployment's only one.  A request reads in some   *)
(* statements and writes in a later one.  user_roles, which decide only    *)
(* about the deployment, are left out, and so is the mail.                 *)
(***************************************************************************)
EXTENDS Naturals, FiniteSets

CONSTANTS People, Founder,
          Configured,  \* the people INITIAL_ADMIN_EMAILS names
          AutoJoin,    \* whoever belongs nowhere joins the sole organization
          Limits,      \* the seat limits of the plans
          MaxRequests, \* bound: requests, numbered as they come
          MaxInvites,  \* bound: invites
          MaxTurns     \* bound: plan changes, expired invites and ended sessions

VARIABLES member,    \* organization_memberships: the role of each person, or "none"
          revoked,   \* revoked_access
          session,   \* who is signed in
          invite,    \* organization_invites
          limit,     \* organizations.seat_limit
          request,   \* what each request does, where it is and what it read
          disturbed, \* history: requests another one wrote under
          crossed,   \* history: a role, removal or joining was written by one of those
          turns

vars == <<member, revoked, session, invite, limit, request, disturbed, crossed, turns>>

Requests == 1..MaxRequests
Invites == 1..MaxInvites
Roles == {"owner", "admin", "member"}
Admins == {"owner", "admin"}
Kinds == {"invite", "accept", "role", "revoke", "restore", "join"}

NoInvite == [for |-> Founder, role |-> "none", status |-> "none"]
Unborn == [kind |-> "none", who |-> Founder, whom |-> Founder, role |-> "none", inv |-> 0,
           pc |-> "idle", seen |-> 0]
Over == [Unborn EXCEPT !.pc = "over"]

\* An organization that has been in use: its founder and perhaps other members.
Init ==
  /\ member \in {[o EXCEPT ![Founder] = "owner"] : o \in [People -> {"admin", "none"}]}
  /\ revoked = {} /\ session = People
  /\ invite = [i \in Invites |-> NoInvite]
  /\ limit \in Limits
  /\ request = [q \in Requests |-> Unborn]
  /\ disturbed = {} /\ crossed = FALSE /\ turns = 0

In(p) == member[p] # "none"
Count == Cardinality({p \in People : In(p)})
Pending == Cardinality({i \in Invites : invite[i].status = "pending"})
Underway(q) == request[q].pc \notin {"idle", "over"}

\* The first statement of a request; requests are numbered as they come.
Begins(q, r) ==
  /\ request[q].pc = "idle" /\ \A s \in Requests : s < q => request[s].pc # "idle"
  /\ request' = [request EXCEPT ![q] = r]

Goes(q, label) ==
  request' = [request EXCEPT ![q] = IF label = "over" THEN Over ELSE [@ EXCEPT !.pc = label]]

\* What the last statement of a request means for the others.
Wrote(q) ==
  /\ Goes(q, "over")
  /\ disturbed' = (disturbed \ {q}) \cup {s \in Requests : s # q /\ Underway(s)}
  /\ crossed' = (crossed \/ (request[q].kind \in {"role", "revoke", "join"} /\ q \in disturbed))

Asks(q, k, who, whom, role, inv, label) ==
  Begins(q, IF label = "over" THEN Over
            ELSE [kind |-> k, who |-> who, whom |-> whom, role |-> role, inv |-> inv,
                  pc |-> label, seen |-> Count])

-----------------------------------------------------------------------------
(* Seats.                                                                  *)

\* An administrator invites, an owner if it is to be one: the limit and the members
\* are read first, the pending invites next.
InviteCounts(q, p, e, r) ==
  /\ p \in session /\ member[p] \in Admins /\ (r = "owner" => member[p] = "owner")
  /\ \E i \in Invites : invite[i].status = "none"
  /\ Asks(q, "invite", p, e, r, limit, "pending")
  /\ UNCHANGED <<member, revoked, session, invite, limit, disturbed, crossed, turns>>

Full_OffByOne(q, used) == used > request[q].inv

Full(q, used) == used >= request[q].inv

InviteDecides(q) ==
  /\ request[q].kind = "invite" /\ request[q].pc = "pending"
  /\ Goes(q, IF Full(q, request[q].seen + Pending) THEN "over" ELSE "write")
  /\ UNCHANGED <<member, revoked, session, invite, limit, disturbed, crossed, turns>>

FreeInvite == CHOOSE i \in Invites : invite[i].status = "none"

InviteWrites(q) ==
  /\ request[q].kind = "invite" /\ request[q].pc = "write"
  /\ \E i \in Invites : invite[i].status = "none"
  /\ invite' = [invite EXCEPT ![FreeInvite] =
       [for |-> request[q].whom, role |-> request[q].role, status |-> "pending"]]
  /\ Wrote(q)
  /\ UNCHANGED <<member, revoked, session, limit, turns>>

\* acceptInvite by the person it names: whoever is a member already needs no seat,
\* and whoever was removed is not asked about.
AcceptReads(q, i) ==
  /\ invite[i].status = "pending" /\ invite[i].for \in session
  /\ Asks(q, "accept", invite[i].for, invite[i].for, invite[i].role, i,
          IF ~In(invite[i].for) /\ Count >= limit THEN "over" ELSE "write")
  /\ UNCHANGED <<member, revoked, session, invite, limit, disturbed, crossed, turns>>

\* One transaction; a membership that is there by now is left alone.
AcceptWrites(q) ==
  /\ request[q].kind = "accept" /\ request[q].pc = "write"
  /\ invite' = [invite EXCEPT ![request[q].inv].status = "accepted"]
  /\ member' = [member EXCEPT ![request[q].who] = IF @ = "none" THEN request[q].role ELSE @]
  /\ Wrote(q)
  /\ UNCHANGED <<revoked, session, limit, turns>>

\* applyBilling, and an invite that is two weeks old.
Turn == turns < MaxTurns /\ turns' = turns + 1
Quietly == UNCHANGED <<request, crossed>>
           /\ disturbed' = disturbed \cup {s \in Requests : Underway(s)}

PlanChanges(l) ==
  /\ l # limit /\ limit' = l /\ Turn /\ Quietly
  /\ UNCHANGED <<member, revoked, session, invite>>

InviteExpires(i) ==
  /\ invite[i].status = "pending" /\ Turn /\ Quietly
  /\ invite' = [invite EXCEPT ![i].status = "expired"]
  /\ UNCHANGED <<member, revoked, session, limit>>

-----------------------------------------------------------------------------
(* Roles, removal, restoration.                                            *)

\* The route: the one who asks is an administrator, the person is found among the
\* members, is not held by the configuration, and is not the one who asks.
Permits_Self(p, e, lowers) == lowers => e \notin Configured

Permits(p, e, lowers) == lowers => e \notin Configured /\ e # p

ChangeReads(q, p, e, k, r) ==
  /\ p \in session /\ member[p] \in Admins /\ In(e)
  /\ k = "role" => (member[e] \in Admins) # (r = "admin")
  /\ k = "revoke" => e \notin revoked
  /\ k = "restore" => e \in revoked
  /\ Permits(p, e, k = "revoke" \/ (k = "role" /\ r = "member"))
  /\ Asks(q, k, p, e, r, 0, "write")
  /\ UNCHANGED <<member, revoked, session, invite, limit, disturbed, crossed, turns>>

\* setRole: an owner stays one; somebody who is gone by now is not updated.
RoleWrites(q) ==
  /\ request[q].kind = "role" /\ request[q].pc = "write"
  /\ member' = [member EXCEPT ![request[q].whom] =
       IF @ = "none" \/ (@ = "owner" /\ request[q].role = "admin") THEN @ ELSE request[q].role]
  /\ Wrote(q)
  /\ UNCHANGED <<revoked, session, invite, limit, turns>>

\* revoke: the deny list and the membership in one transaction; no session ends.
RevokeWrites(q) ==
  /\ request[q].kind = "revoke" /\ request[q].pc = "write"
  /\ revoked' = revoked \cup {request[q].whom}
  /\ member' = [member EXCEPT ![request[q].whom] = "none"]
  /\ Wrote(q)
  /\ UNCHANGED <<session, invite, limit, turns>>

\* restore, which counts no seats.
RestoreWrites(q) ==
  /\ request[q].kind = "restore" /\ request[q].pc = "write"
  /\ revoked' = revoked \ {request[q].whom}
  /\ member' = [member EXCEPT ![request[q].whom] = IF @ = "none" THEN "member" ELSE @]
  /\ Wrote(q)
  /\ UNCHANGED <<session, invite, limit, turns>>

-----------------------------------------------------------------------------
(* Sessions.                                                               *)

\* A session ends when the person says so, or in time.
SessionEnds(p) ==
  /\ p \in session /\ Turn /\ session' = session \ {p}
  /\ UNCHANGED <<member, revoked, invite, limit, request, disturbed, crossed>>

\* The session hook refuses an address on the deny list.
SignIn(p) ==
  /\ p \notin session /\ p \notin revoked
  /\ session' = session \cup {p}
  /\ UNCHANGED <<member, revoked, invite, limit, request, disturbed, crossed, turns>>

\* A request of somebody who belongs nowhere: joinIfSoleOrganization.
JoinReads(q, p) ==
  /\ AutoJoin /\ p \in session /\ ~In(p)
  /\ Asks(q, "join", p, p, "member", 0, "write")
  /\ UNCHANGED <<member, revoked, session, invite, limit, disturbed, crossed, turns>>

\* ensureMembership overwrites the role that is there by now.
JoinWrites(q) ==
  /\ request[q].kind = "join" /\ request[q].pc = "write"
  /\ member' = [member EXCEPT ![request[q].who] = "member"]
  /\ Wrote(q)
  /\ UNCHANGED <<revoked, session, invite, limit, turns>>

Writes(q) ==
  \/ InviteWrites(q) \/ AcceptWrites(q) \/ RoleWrites(q)
  \/ RevokeWrites(q) \/ RestoreWrites(q) \/ JoinWrites(q)

Next ==
  \/ \E q \in Requests :
       \/ \E p, e \in People :
            \/ \E r \in Roles : InviteCounts(q, p, e, r)
            \/ \E r \in {"admin", "member"} : ChangeReads(q, p, e, "role", r)
            \/ \E k \in {"revoke", "restore"} : ChangeReads(q, p, e, k, "none")
       \/ \E p \in People : JoinReads(q, p)
       \/ \E i \in Invites : AcceptReads(q, i)
       \/ InviteDecides(q) \/ Writes(q)
  \/ \E l \in Limits : PlanChanges(l)
  \/ \E i \in Invites : InviteExpires(i)
  \/ \E p \in People : SessionEnds(p) \/ SignIn(p)

Spec == Init /\ [][Next]_vars

-----------------------------------------------------------------------------
TypeOK ==
  /\ member \in [People -> Roles \cup {"none"}]
  /\ revoked \subseteq People /\ session \subseteq People
  /\ invite \in [Invites -> [for : People, role : Roles \cup {"none"},
                             status : {"none", "pending", "accepted", "expired"}]]
  /\ limit \in Limits
  /\ request \in [Requests -> [kind : Kinds \cup {"none"}, who : People, whom : People,
                               role : Roles \cup {"none"}, inv : Nat,
                               pc : {"idle", "pending", "write", "over"}, seen : Nat]]
  /\ disturbed \subseteq Requests /\ crossed \in BOOLEAN /\ turns \in 0..MaxTurns

\* There is an administrator, whatever roles are changed and whoever is removed,
\* joins or leaves ("locked themselves out of the screen that would undo it, and on
\* a deployment with one administrator that is the whole deployment"); unless two
\* such requests crossed.
AnAdministratorRemains ==
  /\ TypeOK
  /\ crossed \/ \E p \in People : member[p] \in Admins

\* An invite takes a seat that is there, and so does its acceptance, unless another
\* request wrote between what it read and what it wrote.
SeatsAreCounted ==
  [][\A q \in Requests :
       request[q].pc = "write" /\ request'[q].pc = "over" /\ q \notin disturbed =>
         /\ request[q].kind = "invite" => Count' + Pending' <= limit
         /\ request[q].kind = "accept" /\ member' # member => Count' <= limit]_vars

\* "Remove somebody, and end the session they are using": whoever is removed stays
\* out until restored. The session is left, and the next request joins again.
RemovedStaysOut ==
  [][\A p \in People : p \in revoked /\ ~In(p) /\ p \in revoked' => member'[p] = "none"]_vars

\* The access route finds whoever it is to restore: it looks among the members.
RemovedCanBeRestored == \A p \in revoked : In(p)

\* Nobody is left without an administrator when two requests cross either.
AlwaysAnAdministrator == \E p \in People : member[p] \in Admins
============================================================================
