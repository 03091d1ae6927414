------------------------ MODULE OrganizationsProofs ------------------------
(***************************************************************************)
(* What organizations promise, for any number of people, requests and      *)
(* webhooks, schedules and workers.                                        *)
(***************************************************************************)
EXTENDS Organizations, FiniteSetTheorems, SequenceTheorems, TLAPS

(* Who is in an organization.                                              *)

\* What a request has read is still so, unless another one wrote since.
Settled(q) ==
  /\ request[q].pc = "write" =>
       /\ request[q].kind = "role" => request[q].role \in {"admin", "member"}
       /\ request[q].kind = "revoke"
            \/ (request[q].kind = "role" /\ request[q].role = "member") =>
            request[q].who # request[q].whom /\ member[request[q].who] \in Members!Admins
       /\ request[q].kind = "join" => member[request[q].who] = "none"
       /\ request[q].kind = "invite" => Members!Count + Members!Pending < limit
       /\ request[q].kind = "accept" =>
            member[request[q].who] # "none" \/ Members!Count < limit
  /\ request[q].pc = "pending" /\ request[q].kind = "invite" =>
       request[q].inv = limit /\ request[q].seen = Members!Count

MembersInv ==
  /\ AnAdministratorRemains
  /\ \A q \in Members!Requests \ disturbed : Settled(q)

\* Cardinality is the same operator for each part.
LEMMA MembersCardinality == \A S : Members!Cardinality(S) = Cardinality(S)
  BY Zenon DEF Members!Cardinality, Cardinality

MemberAsk ==
  [kind : Members!Kinds \cup {"none"}, who : People, whom : People,
   role : Members!Roles \cup {"none"}, inv : Nat, pc : {"idle", "pending", "write", "over"},
   seen : Nat]

\* The seats that are taken are finitely many.
LEMMA SeatsAreNumbers ==
  /\ Members!Count \in Nat /\ Members!Pending \in Nat
  /\ Members!Count' \in Nat /\ Members!Pending' \in Nat
<1>1. \A S \in SUBSET People : Cardinality(S) \in Nat
  BY MembersAssumption, FS_Subset, FS_CardinalityType
<1>2. \A S \in SUBSET (1..MaxInvites) : Cardinality(S) \in Nat
  <2>1. IsFiniteSet(1..MaxInvites)
    BY MembersAssumption, FS_Interval
  <2> QED
    BY <2>1, FS_Subset, FS_CardinalityType
<1> QED
  BY <1>1, <1>2, MembersCardinality DEF Members!Count, Members!Pending, Members!Invites

\* Whatever a request of an administrator or a member is, it has the fields of one.
LEMMA AsksAreTyped ==
  ASSUME Members!TypeOK, NEW q \in Members!Requests
  PROVE  /\ \A k \in Members!Kinds, p, e \in People, r \in Members!Roles \cup {"none"},
              i \in Nat, label \in {"pending", "write", "over"} :
              Members!Asks(q, k, p, e, r, i, label) =>
                request' \in [Members!Requests -> MemberAsk]
         /\ \A label \in {"pending", "write", "over"} :
              Members!Goes(q, label) => request' \in [Members!Requests -> MemberAsk]
<1> USE MembersAssumption DEF Members!TypeOK
<1>1. request \in [Members!Requests -> MemberAsk]
  BY DEF MemberAsk
<1>2. Members!Over \in MemberAsk
  BY DEF Members!Over, Members!Unborn, MemberAsk
<1>3. ASSUME NEW k \in Members!Kinds, NEW p \in People, NEW e \in People,
             NEW r \in Members!Roles \cup {"none"}, NEW i \in Nat,
             NEW label \in {"pending", "write", "over"}, Members!Asks(q, k, p, e, r, i, label)
      PROVE  request' \in [Members!Requests -> MemberAsk]
  <2> DEFINE new == [kind |-> k, who |-> p, whom |-> e, role |-> r, inv |-> i, pc |-> label,
                     seen |-> Members!Count]
  <2>1. new \in MemberAsk
    BY SeatsAreNumbers DEF MemberAsk
  <2>2. request' = [request EXCEPT ![q] = IF label = "over" THEN Members!Over ELSE new]
    BY <1>3 DEF Members!Asks, Members!Begins
  <2> HIDE DEF new
  <2> QED
    BY <1>1, <1>2, <2>1, <2>2
<1>4. ASSUME NEW label \in {"pending", "write", "over"}, Members!Goes(q, label)
      PROVE  request' \in [Members!Requests -> MemberAsk]
  <2> DEFINE new == [request[q] EXCEPT !.pc = label]
  <2>1. new \in MemberAsk
    BY <1>1 DEF MemberAsk
  <2>2. request' = [request EXCEPT ![q] = IF label = "over" THEN Members!Over ELSE new]
    BY <1>4 DEF Members!Goes
  <2> HIDE DEF new
  <2> QED
    BY <1>1, <1>2, <2>1, <2>2
<1> QED
  BY <1>3, <1>4

\* Rows, sessions and requests keep their types.
LEMMA MembersTypesAreKept ==
  ASSUME Members!TypeOK, [Members!Next]_members
  PROVE  Members!TypeOK'
<1> USE MembersAssumption, AsksAreTyped DEF Members!Kinds, Members!Roles
<1>a. Members!TypeOK =>
        /\ member \in [People -> Members!Roles \cup {"none"}]
        /\ revoked \subseteq People /\ session \subseteq People
        /\ invite \in [Members!Invites -> [for : People, role : Members!Roles \cup {"none"},
                             status : {"none", "pending", "accepted", "expired"}]]
        /\ limit \in Nat /\ limit \in Limits
        /\ request \in [Members!Requests -> MemberAsk]
        /\ disturbed \subseteq Members!Requests /\ crossed \in BOOLEAN
        /\ turns \in 0..MaxTurns
  BY DEF Members!TypeOK, MemberAsk
<1>b. ASSUME /\ member' \in [People -> Members!Roles \cup {"none"}]
             /\ revoked' \subseteq People /\ session' \subseteq People
             /\ invite' \in [Members!Invites ->
                                 [for : People, role : Members!Roles \cup {"none"},
                                  status : {"none", "pending", "accepted", "expired"}]]
             /\ limit' \in Limits
             /\ request' \in [Members!Requests -> MemberAsk]
             /\ disturbed' \subseteq Members!Requests /\ crossed' \in BOOLEAN
             /\ turns' \in 0..MaxTurns
      PROVE  Members!TypeOK'
  BY <1>b DEF Members!TypeOK, MemberAsk
<1>c. \A q \in Members!Requests : Members!Wrote(q) =>
        /\ request' \in [Members!Requests -> MemberAsk]
        /\ disturbed' \subseteq Members!Requests /\ crossed' \in BOOLEAN
  <2> SUFFICES ASSUME NEW q \in Members!Requests, Members!Wrote(q)
               PROVE  /\ request' \in [Members!Requests -> MemberAsk]
                      /\ disturbed' \subseteq Members!Requests /\ crossed' \in BOOLEAN
    OBVIOUS
  <2>1. crossed' \in BOOLEAN
    BY Zenon DEF Members!Wrote
  <2> QED
    BY <1>a, <2>1 DEF Members!Wrote
<1>1. ASSUME NEW q \in Members!Requests, NEW p \in People, NEW e \in People,
             NEW r \in Members!Roles, Members!InviteCounts(q, p, e, r)
      PROVE  Members!TypeOK'
  BY <1>1, <1>a, <1>b DEF Members!InviteCounts
<1>2. ASSUME NEW q \in Members!Requests, NEW p \in People, NEW e \in People,
             NEW k \in {"role", "revoke", "restore"}, NEW r \in {"admin", "member", "none"},
             Members!ChangeReads(q, p, e, k, r)
      PROVE  Members!TypeOK'
  BY <1>2, <1>a, <1>b DEF Members!ChangeReads
<1>3. ASSUME NEW q \in Members!Requests, NEW p \in People, Members!JoinReads(q, p)
      PROVE  Members!TypeOK'
  BY <1>3, <1>a, <1>b DEF Members!JoinReads
<1>4. ASSUME NEW q \in Members!Requests, NEW i \in Members!Invites, Members!AcceptReads(q, i)
      PROVE  Members!TypeOK'
  <2>1. invite[i].for \in People /\ invite[i].role \in Members!Roles \cup {"none"} /\ i \in Nat
    BY <1>a DEF Members!Invites
  <2> DEFINE label == IF ~Members!In(invite[i].for) /\ Members!Count >= limit
                      THEN "over" ELSE "write"
  <2>2. label \in {"pending", "write", "over"} /\ "accept" \in Members!Kinds
    OBVIOUS
  <2>3. Members!Asks(q, "accept", invite[i].for, invite[i].for, invite[i].role, i, label)
    BY <1>4 DEF Members!AcceptReads
  <2> HIDE DEF label
  <2>4. request' \in [Members!Requests -> MemberAsk]
    BY <2>1, <2>2, <2>3, AsksAreTyped
  <2> QED
    BY <1>4, <1>a, <1>b, <2>4 DEF Members!AcceptReads
<1>5. ASSUME NEW q \in Members!Requests, Members!InviteDecides(q)
      PROVE  Members!TypeOK'
  BY <1>5, <1>a, <1>b DEF Members!InviteDecides
<1>6. ASSUME NEW q \in Members!Requests, Members!InviteWrites(q)
      PROVE  Members!TypeOK'
  <2>1. invite' \in [Members!Invites -> [for : People, role : Members!Roles \cup {"none"},
                          status : {"none", "pending", "accepted", "expired"}]]
    <3>1. request[q] \in MemberAsk
      BY <1>a
    <3> QED
      BY <1>6, <1>a, <3>1 DEF Members!InviteWrites, MemberAsk
  <2> QED
    BY <1>6, <1>a, <1>b, <1>c, <2>1 DEF Members!InviteWrites
<1>7. ASSUME NEW q \in Members!Requests, Members!AcceptWrites(q)
      PROVE  Members!TypeOK'
  <2>1. request[q].role \in Members!Roles \cup {"none"}
    BY <1>a DEF MemberAsk
  <2> QED
    BY <1>7, <1>a, <1>b, <1>c, <2>1, ZenonT(60) DEF Members!AcceptWrites
<1>8. ASSUME NEW q \in Members!Requests,
             \/ Members!RoleWrites(q) \/ Members!RevokeWrites(q)
             \/ Members!RestoreWrites(q) \/ Members!JoinWrites(q)
      PROVE  Members!TypeOK'
  <2>1. /\ request[q].role \in Members!Roles \cup {"none"}
        /\ request[q].who \in People /\ request[q].whom \in People
    BY <1>a DEF MemberAsk
  <2> QED
    BY <1>8, <1>a, <1>b, <1>c, <2>1
       DEF Members!RoleWrites, Members!RevokeWrites, Members!RestoreWrites, Members!JoinWrites
<1>9. ASSUME \/ \E l \in Limits : Members!PlanChanges(l)
             \/ \E i \in Members!Invites : Members!InviteExpires(i)
             \/ \E p \in People : Members!SessionEnds(p) \/ Members!SignIn(p)
      PROVE  Members!TypeOK'
  <2> USE <1>a, <1>b DEF Members!Turn, Members!Quietly
  <2>1. ASSUME NEW l \in Limits, Members!PlanChanges(l) PROVE Members!TypeOK'
    BY <2>1 DEF Members!PlanChanges
  <2>2. ASSUME NEW i \in Members!Invites, Members!InviteExpires(i) PROVE Members!TypeOK'
    <3>1. invite' \in [Members!Invites -> [for : People, role : Members!Roles \cup {"none"},
                            status : {"none", "pending", "accepted", "expired"}]]
      BY <2>2 DEF Members!InviteExpires
    <3>2. disturbed' \subseteq Members!Requests /\ turns' \in 0..MaxTurns
      BY <2>2 DEF Members!InviteExpires
    <3> QED
      BY <2>2, <3>1, <3>2 DEF Members!InviteExpires
  <2>3. ASSUME NEW p \in People, Members!SessionEnds(p) \/ Members!SignIn(p)
        PROVE Members!TypeOK'
    BY <2>3 DEF Members!SessionEnds, Members!SignIn
  <2> QED
    BY <1>9, <2>1, <2>2, <2>3
<1>10. CASE UNCHANGED members
  BY <1>10, <1>a, <1>b DEF members
<1> QED
  BY <1>1, <1>2, <1>3, <1>4, <1>5, <1>6, <1>7, <1>8, <1>9, <1>10
     DEF Members!Next, Members!Writes

\* A request that ends what it began disturbs every other one under way.
LEMMA TheOthersAreDisturbed ==
  ASSUME MembersInv, NEW q \in Members!Requests, Members!Wrote(q)
  PROVE  \A s \in Members!Requests \ disturbed' : Settled(s)'
<1>1. request' = [request EXCEPT ![q] = Members!Over]
  BY DEF Members!Wrote, Members!Goes
<1>2. \A s \in Members!Requests \ disturbed' :
        request'[s].pc \notin {"write", "pending"}
  BY <1>1 DEF Members!Wrote, Members!Underway, Members!Over, MembersInv,
     AnAdministratorRemains,
     Members!AnAdministratorRemains, Members!TypeOK
<1> QED
  BY <1>2 DEF Settled

\* While nothing is written, what was read is still so.
LEMMA TheOthersStaySettled ==
  ASSUME MembersInv, UNCHANGED <<member, invite, limit, disturbed>>,
         \E q \in Members!Requests :
           /\ \A s \in Members!Requests \ {q} : request'[s] = request[s]
           /\ q \notin disturbed => Settled(q)'
  PROVE  \A s \in Members!Requests \ disturbed' : Settled(s)'
<1>1. Members!Count' = Members!Count /\ Members!Pending' = Members!Pending
  BY DEF Members!Count, Members!Pending, Members!In
<1> QED
  BY <1>1 DEF MembersInv, Settled

\* What is read is so, and what is written under it is not overlooked.
LEMMA SettledIsKept ==
  ASSUME MembersInv, [Members!Next]_members
  PROVE  \A q \in Members!Requests \ disturbed' : Settled(q)'
<1>a. Members!TypeOK /\ Members!TypeOK'
  BY MembersTypesAreKept DEF MembersInv, AnAdministratorRemains, Members!AnAdministratorRemains
<1>b. /\ member \in [People -> Members!Roles \cup {"none"}]
      /\ request \in [Members!Requests -> MemberAsk]
      /\ request' \in [Members!Requests -> MemberAsk]
      /\ limit \in Nat
  BY <1>a, MembersAssumption DEF Members!TypeOK, MemberAsk
<1>c. ASSUME UNCHANGED <<member, invite, limit>>
      PROVE  Members!Count' = Members!Count /\ Members!Pending' = Members!Pending
  BY <1>c DEF Members!Count, Members!Pending, Members!In
<1>1. ASSUME NEW q \in Members!Requests, NEW p \in People, NEW e \in People,
             NEW r \in Members!Roles, Members!InviteCounts(q, p, e, r)
      PROVE  \A s \in Members!Requests \ disturbed' : Settled(s)'
  <2>1. request' = [request EXCEPT ![q] =
          [kind |-> "invite", who |-> p, whom |-> e, role |-> r, inv |-> limit,
           pc |-> "pending", seen |-> Members!Count]]
    BY <1>1 DEF Members!InviteCounts, Members!Asks, Members!Begins
  <2>2. Settled(q)'
    BY <1>1, <1>b, <1>c, <2>1 DEF Settled, Members!InviteCounts
  <2> QED
    BY <1>1, <1>b, <2>1, <2>2, TheOthersStaySettled DEF Members!InviteCounts
<1>2. ASSUME NEW q \in Members!Requests, NEW p \in People, NEW e \in People,
             NEW k \in {"role", "revoke", "restore"}, NEW r \in {"admin", "member", "none"},
             k = "role" => r \in {"admin", "member"}, Members!ChangeReads(q, p, e, k, r)
      PROVE  \A s \in Members!Requests \ disturbed' : Settled(s)'
  <2>1. request' = [request EXCEPT ![q] =
          [kind |-> k, who |-> p, whom |-> e, role |-> r, inv |-> 0, pc |-> "write",
           seen |-> Members!Count]]
    BY <1>2 DEF Members!ChangeReads, Members!Asks, Members!Begins
  <2>2. Settled(q)'
    BY <1>2, <1>b, <2>1 DEF Settled, Members!ChangeReads, Members!Permits
  <2> QED
    BY <1>2, <1>b, <2>1, <2>2, TheOthersStaySettled DEF Members!ChangeReads
<1>3. ASSUME NEW q \in Members!Requests, NEW p \in People, Members!JoinReads(q, p)
      PROVE  \A s \in Members!Requests \ disturbed' : Settled(s)'
  <2>1. request' = [request EXCEPT ![q] =
          [kind |-> "join", who |-> p, whom |-> p, role |-> "member", inv |-> 0,
           pc |-> "write",
           seen |-> Members!Count]]
    BY <1>3 DEF Members!JoinReads, Members!Asks, Members!Begins
  <2>2. Settled(q)'
    BY <1>3, <1>b, <2>1 DEF Settled, Members!JoinReads, Members!In
  <2> QED
    BY <1>3, <1>b, <2>1, <2>2, TheOthersStaySettled DEF Members!JoinReads
<1>4. ASSUME NEW q \in Members!Requests, NEW i \in Members!Invites, Members!AcceptReads(q, i)
      PROVE  \A s \in Members!Requests \ disturbed' : Settled(s)'
  <2> DEFINE full == ~Members!In(invite[i].for) /\ Members!Count >= limit
             new == [kind |-> "accept", who |-> invite[i].for, whom |-> invite[i].for,
                     role |-> invite[i].role, inv |-> i, pc |-> "write",
                       seen |-> Members!Count]
  <2>1. request' = [request EXCEPT ![q] = IF full THEN Members!Over ELSE new]
    BY <1>4 DEF Members!AcceptReads, Members!Asks, Members!Begins
  <2>3. Settled(q)'
    <3>1. CASE full
      BY <1>b, <2>1, <3>1 DEF Settled, Members!Over
    <3>2. CASE ~full
      <4>1. request'[q] = new
        BY <1>b, <2>1, <3>2
      <4>2. member' = member /\ limit' = limit /\ Members!Count' = Members!Count
        BY <1>4, <1>c DEF Members!AcceptReads
      <4>3. member[invite[i].for] # "none" \/ Members!Count < limit
        BY <1>b, <3>2, SeatsAreNumbers DEF Members!In
      <4> QED
        BY <4>1, <4>2, <4>3 DEF Settled
    <3> QED
      BY <3>1, <3>2
  <2> HIDE DEF full, new
  <2> QED
    BY <1>4, <1>b, <2>1, <2>3, TheOthersStaySettled DEF Members!AcceptReads
<1>5. ASSUME NEW q \in Members!Requests, Members!InviteDecides(q)
      PROVE  \A s \in Members!Requests \ disturbed' : Settled(s)'
  <2>1. CASE Members!Full(q, request[q].seen + Members!Pending)
    <3>1. request' = [request EXCEPT ![q] = Members!Over]
      BY <1>5, <2>1 DEF Members!InviteDecides, Members!Goes
    <3>2. Settled(q)'
      BY <1>b, <3>1 DEF Settled, Members!Over
    <3> QED
      BY <1>5, <1>b, <3>1, <3>2, TheOthersStaySettled DEF Members!InviteDecides
  <2>2. CASE ~Members!Full(q, request[q].seen + Members!Pending)
    <3>1. request' = [request EXCEPT ![q].pc = "write"]
      BY <1>5, <2>2 DEF Members!InviteDecides, Members!Goes
    <3>2. /\ request'[q].kind = "invite" /\ request'[q].pc = "write"
      BY <1>5, <1>b, <3>1 DEF Members!InviteDecides, MemberAsk
    <3>3. q \notin disturbed => Members!Count + Members!Pending < limit
      <4>1. /\ request[q].seen + Members!Pending < request[q].inv
        BY <1>b, <2>2, SeatsAreNumbers DEF Members!Full, MemberAsk
      <4> QED
        BY <1>5, <4>1 DEF MembersInv, Settled, Members!InviteDecides
    <3>4. q \notin disturbed => Settled(q)'
      BY <1>5, <1>c, <3>2, <3>3 DEF Settled, Members!InviteDecides
    <3> QED
      BY <1>5, <1>b, <3>1, <3>4, TheOthersStaySettled DEF Members!InviteDecides
  <2> QED
    BY <2>1, <2>2
<1>6. ASSUME NEW q \in Members!Requests, Members!Writes(q)
      PROVE  \A s \in Members!Requests \ disturbed' : Settled(s)'
  <2>1. Members!Wrote(q)
    BY <1>6 DEF Members!Writes, Members!InviteWrites, Members!AcceptWrites, Members!RoleWrites,
       Members!RevokeWrites, Members!RestoreWrites, Members!JoinWrites
  <2> QED
    BY <2>1, TheOthersAreDisturbed
<1>7. ASSUME Members!Quietly
      PROVE  \A s \in Members!Requests \ disturbed' : Settled(s)'
  <2>1. \A s \in Members!Requests \ disturbed' : request'[s].pc \notin {"write", "pending"}
    BY <1>7 DEF Members!Quietly, Members!Underway
  <2> QED
    BY <2>1 DEF Settled
<1>8. ASSUME NEW p \in People, Members!SessionEnds(p) \/ Members!SignIn(p)
      PROVE  \A s \in Members!Requests \ disturbed' : Settled(s)'
  BY <1>8, <1>c DEF Members!SessionEnds, Members!SignIn, MembersInv, Settled
<1>9. CASE UNCHANGED members
  BY <1>9, <1>c DEF members, MembersInv, Settled
<1> QED
  BY <1>1, <1>2, <1>3, <1>4, <1>5, <1>6, <1>7, <1>8, <1>9
     DEF Members!Next, Members!PlanChanges, Members!InviteExpires

\* Nobody takes the last administrator away, who has not overlooked another request.
LEMMA AnAdminIsLeft ==
  ASSUME MembersInv, [Members!Next]_members
  PROVE  crossed' \/ \E p \in People : member'[p] \in Members!Admins
<1>a. /\ member \in [People -> Members!Roles \cup {"none"}]
      /\ request \in [Members!Requests -> MemberAsk]
      /\ crossed \/ \E p \in People : member[p] \in Members!Admins
  BY DEF MembersInv, AnAdministratorRemains, Members!AnAdministratorRemains, Members!TypeOK,
         MemberAsk
<1>b. \A q \in Members!Requests : request[q].who \in People /\ request[q].whom \in People
  BY <1>a DEF MemberAsk
<1> USE DEF Members!Admins, Members!Roles
<1>1. CASE member' = member /\ (crossed => crossed')
  BY <1>1, <1>a
<1>2. ASSUME NEW q \in Members!Requests, Members!AcceptWrites(q)
      PROVE  crossed' \/ \E p \in People : member'[p] \in Members!Admins
  BY <1>2, <1>a, <1>b DEF Members!AcceptWrites, Members!Wrote
<1>3. ASSUME NEW q \in Members!Requests, Members!RestoreWrites(q)
      PROVE  crossed' \/ \E p \in People : member'[p] \in Members!Admins
  BY <1>3, <1>a, <1>b DEF Members!RestoreWrites, Members!Wrote
<1>4. ASSUME NEW q \in Members!Requests,
             Members!RoleWrites(q) \/ Members!RevokeWrites(q) \/ Members!JoinWrites(q),
             ~crossed'
      PROVE  \E p \in People : member'[p] \in Members!Admins
  <2>1. q \notin disturbed /\ ~crossed
    BY <1>4, Zenon DEF Members!RoleWrites, Members!RevokeWrites, Members!JoinWrites,
       Members!Wrote
  <2>2. Settled(q)
    BY <2>1 DEF MembersInv
  <2>3. PICK p \in People : member[p] \in Members!Admins
    BY <1>a, <2>1
  <2>4. CASE Members!RoleWrites(q)
    <3>1. CASE request[q].role = "member"
      BY <1>a, <1>b, <2>2, <2>4, <3>1 DEF Members!RoleWrites, Settled
    <3>2. CASE request[q].role = "admin"
      BY <1>a, <1>b, <2>3, <2>4, <3>2 DEF Members!RoleWrites
    <3> QED
      BY <2>2, <2>4, <3>1, <3>2 DEF Members!RoleWrites, Settled
  <2>5. CASE Members!RevokeWrites(q)
    BY <1>a, <1>b, <2>2, <2>5 DEF Members!RevokeWrites, Settled
  <2>6. CASE Members!JoinWrites(q)
    BY <1>a, <1>b, <2>2, <2>3, <2>6 DEF Members!JoinWrites, Settled
  <2> QED
    BY <1>4, <2>4, <2>5, <2>6
<1> QED
  <2>1. CASE \E q \in Members!Requests : Members!Writes(q)
    <3>1. PICK q \in Members!Requests : Members!Writes(q)
      BY <2>1
    <3>2. CASE Members!InviteWrites(q)
      BY <1>1, <3>2 DEF Members!InviteWrites, Members!Wrote
    <3> QED
      BY <1>2, <1>3, <1>4, <3>1, <3>2 DEF Members!Writes
  <2>2. CASE \E q \in Members!Requests : Members!InviteDecides(q)
    BY <1>1, <2>2 DEF Members!InviteDecides
  <2>3. ASSUME NEW q \in Members!Requests, NEW p \in People,
               \/ Members!JoinReads(q, p)
               \/ \E e \in People : \E r \in Members!Roles : Members!InviteCounts(q, p, e, r)
        PROVE  crossed' \/ \E p_2 \in People : member'[p_2] \in Members!Admins
    BY <1>1, <2>3 DEF Members!JoinReads, Members!InviteCounts
  <2>4. ASSUME NEW q \in Members!Requests, NEW p \in People, NEW e \in People,
               \/ \E r \in {"admin", "member"} : Members!ChangeReads(q, p, e, "role", r)
               \/ \E k \in {"revoke", "restore"} : Members!ChangeReads(q, p, e, k, "none")
        PROVE  crossed' \/ \E p_2 \in People : member'[p_2] \in Members!Admins
    BY <1>1, <2>4 DEF Members!ChangeReads
  <2>5. CASE \E q \in Members!Requests, i \in Members!Invites : Members!AcceptReads(q, i)
    BY <1>1, <2>5 DEF Members!AcceptReads
  <2>6. CASE \/ \E l \in Limits : Members!PlanChanges(l)
             \/ \E i \in Members!Invites : Members!InviteExpires(i)
    BY <1>1, <2>6 DEF Members!Quietly, Members!PlanChanges, Members!InviteExpires
  <2>7. CASE \/ \E p \in People : Members!SessionEnds(p) \/ Members!SignIn(p)
             \/ UNCHANGED members
    BY <1>1, <2>7 DEF Members!SessionEnds, Members!SignIn, members
  <2> HIDE DEF Members!Roles
  <2> QED
    BY <2>1, <2>2, <2>3, <2>4, <2>5, <2>6, <2>7 DEF Members!Next

\* The invariant holds from the founding on.
LEMMA MembersInvHolds == Members!Spec => []MembersInv
<1>1. Members!Init => MembersInv
  <2> SUFFICES ASSUME Members!Init
               PROVE  MembersInv
    OBVIOUS
  <2> USE MembersAssumption DEF Members!Init
  <2>1. PICK o \in [People -> {"admin", "none"}] : member = [o EXCEPT ![Founder] = "owner"]
    BY Zenon
  <2>2. /\ member \in [People -> Members!Roles \cup {"none"}]
        /\ member[Founder] \in Members!Admins
    BY <2>1 DEF Members!Roles, Members!Admins
  <2>3. Members!TypeOK
    <3>1. request \in [Members!Requests -> MemberAsk]
      BY DEF Members!Unborn, MemberAsk
    <3>2. invite \in [Members!Invites -> [for : People, role : Members!Roles \cup {"none"},
                           status : {"none", "pending", "accepted", "expired"}]]
      BY DEF Members!NoInvite
    <3>3. /\ revoked \subseteq People /\ session \subseteq People /\ limit \in Limits
          /\ disturbed \subseteq Members!Requests /\ crossed \in BOOLEAN
               /\ turns \in 0..MaxTurns
      <4>1. /\ revoked = {} /\ session = People /\ limit \in Limits
            /\ disturbed = {} /\ crossed = FALSE /\ turns = 0
        BY Zenon
      <4>2. 0 \in 0..MaxTurns
        BY MembersAssumption
      <4> QED
        BY <4>1, <4>2, Zenon
    <3> HIDE DEF Members!Init
    <3> QED
      BY <2>2, <3>1, <3>2, <3>3 DEF Members!TypeOK, MemberAsk
  <2> QED
    BY <2>2, <2>3 DEF MembersInv, AnAdministratorRemains, Members!AnAdministratorRemains,
       Settled,
       Members!Unborn
<1>2. MembersInv /\ [Members!Next]_members => MembersInv'
  <2> SUFFICES ASSUME MembersInv, [Members!Next]_members
               PROVE  MembersInv'
    OBVIOUS
  <2>1. Members!TypeOK'
    BY MembersTypesAreKept DEF MembersInv, AnAdministratorRemains,
       Members!AnAdministratorRemains
  <2> QED
    BY <2>1, AnAdminIsLeft, SettledIsKept
       DEF MembersInv, AnAdministratorRemains, Members!AnAdministratorRemains
<1> QED
  BY <1>1, <1>2, PTL DEF Members!Spec, Members!vars, members

\* Changes of roles, removals, restorations, joinings and plan changes leave an organization
\* an administrator, for any number of people and requests, unless two requests crossed
\* (people/store.ts, setRole and revoke; app.ts, PATCH /api/people).
THEOREM AnAdministratorStays == Members!Spec => []AnAdministratorRemains
BY MembersInvHolds, PTL DEF MembersInv

\* One more invite is pending, and one more person is in.
LEMMA OneMoreInvite ==
  ASSUME Members!TypeOK, NEW q \in Members!Requests, Members!InviteWrites(q)
  PROVE  Members!Count' = Members!Count /\ Members!Pending' <= Members!Pending + 1
<1> DEFINE old == {i \in Members!Invites : invite[i].status = "pending"}
           new == {i \in Members!Invites : invite'[i].status = "pending"}
<1>1. Members!FreeInvite \in Members!Invites
  BY DEF Members!InviteWrites, Members!FreeInvite
<1>2. new \subseteq old \cup {Members!FreeInvite}
  BY <1>1 DEF Members!InviteWrites, Members!TypeOK
<1>3. IsFiniteSet(old)
  <2>1. IsFiniteSet(Members!Invites)
    BY MembersAssumption, FS_Interval DEF Members!Invites
  <2> QED
    BY <2>1, FS_Subset
<1> HIDE DEF old, new
<1>4. IsFiniteSet(old \cup {Members!FreeInvite})
  BY <1>3, FS_AddElement
<1>5. Cardinality(new) <= Cardinality(old \cup {Members!FreeInvite})
  BY <1>2, <1>4, FS_Subset
<1>6. /\ Cardinality(old \cup {Members!FreeInvite}) <= Cardinality(old) + 1
      /\ Cardinality(old) \in Nat /\ Cardinality(new) \in Nat
  BY <1>2, <1>3, <1>4, FS_AddElement, FS_CardinalityType, FS_Subset
<1>7. Members!Pending = Cardinality(old) /\ Members!Pending' = Cardinality(new)
  BY MembersCardinality DEF Members!Pending, old, new
<1>8. Cardinality(new) <= Cardinality(old) + 1
  <2>1. Cardinality(old \cup {Members!FreeInvite}) \in Nat
    BY <1>4, FS_CardinalityType
  <2> QED
    BY <1>5, <1>6, <2>1
<1>9. Members!Count' = Members!Count
  BY DEF Members!Count, Members!In, Members!InviteWrites
<1> QED
  BY <1>7, <1>8, <1>9

\* An acceptance makes one member more at most.
LEMMA OneMoreMember ==
  ASSUME Members!TypeOK, NEW q \in Members!Requests, Members!AcceptWrites(q)
  PROVE  Members!Count' <= Members!Count + 1
<1> DEFINE who == request[q].who
           old == {p \in People : member[p] # "none"}
           new == {p \in People : member'[p] # "none"}
<1>1. new \subseteq old \cup {who}
  BY DEF Members!AcceptWrites, Members!TypeOK
<1>2. IsFiniteSet(old)
  BY MembersAssumption, FS_Subset
<1>3. Members!Count = Cardinality(old) /\ Members!Count' = Cardinality(new)
  BY MembersCardinality DEF Members!Count, Members!In
<1> HIDE DEF who, old, new
<1>4. IsFiniteSet(old \cup {who})
  BY <1>2, FS_AddElement
<1>5. /\ Cardinality(old \cup {who}) <= Cardinality(old) + 1
      /\ Cardinality(old) \in Nat /\ Cardinality(old \cup {who}) \in Nat
  BY <1>2, <1>4, FS_AddElement, FS_CardinalityType
<1>6. Cardinality(new) <= Cardinality(old \cup {who}) /\ Cardinality(new) \in Nat
  BY <1>1, <1>4, FS_Subset, FS_CardinalityType
<1> QED
  BY <1>3, <1>5, <1>6

\* An invite takes a seat that is there, and so does its acceptance, however many invites,
\* acceptances and changes of the plan there are, unless another request wrote in between
\* (orgs/store.ts, createInvite and acceptInvite).
THEOREM SeatsStayCounted == Members!Spec => SeatsAreCounted
<1> DEFINE Counted ==
      \A q \in Members!Requests :
        request[q].pc = "write" /\ request'[q].pc = "over" /\ q \notin disturbed =>
          /\ request[q].kind = "invite" => Members!Count' + Members!Pending' <= limit
          /\ request[q].kind = "accept" /\ member' # member => Members!Count' <= limit
<1>1. MembersInv /\ [Members!Next]_members => [Counted]_members
  <2> SUFFICES ASSUME MembersInv, Members!Next, NEW q \in Members!Requests,
                      request[q].pc = "write", request'[q].pc = "over", q \notin disturbed
               PROVE  /\ request[q].kind = "invite" =>
                           Members!Count' + Members!Pending' <= limit
                      /\ request[q].kind = "accept" /\ member' # member =>
                           Members!Count' <= limit
    OBVIOUS
  <2>1. Members!TypeOK /\ limit \in Nat /\ request \in [Members!Requests -> MemberAsk]
    BY MembersAssumption DEF MembersInv, AnAdministratorRemains,
       Members!AnAdministratorRemains,
       Members!TypeOK, MemberAsk
  <2>2. Settled(q)
    BY DEF MembersInv
  <2>3. CASE Members!InviteWrites(q)
    <3>1. request[q].kind = "invite" /\ Members!Count + Members!Pending < limit
      BY <2>2, <2>3 DEF Settled, Members!InviteWrites
    <3>2. Members!Count' = Members!Count /\ Members!Pending' <= Members!Pending + 1
      BY <2>1, <2>3, OneMoreInvite
    <3>3. Members!Count' + Members!Pending' <= limit
      <4>1. limit \in Nat /\ Members!Count \in Nat /\ Members!Pending \in Nat
            /\ Members!Pending' \in Nat
        BY <2>1, SeatsAreNumbers
      <4>2. \A m, n, o, l \in Nat : m + n < l /\ o <= n + 1 => m + o <= l
        OBVIOUS
      <4>3. Members!Count + Members!Pending' <= limit
        BY ONLY <3>1, <3>2, <4>1, <4>2
      <4> QED
        BY ONLY <3>2, <4>3
    <3> QED
      BY <3>1, <3>3
  <2>4. CASE Members!AcceptWrites(q)
    <3>1. member' # member => member[request[q].who] = "none"
      BY <2>1, <2>4 DEF Members!AcceptWrites, Members!TypeOK
    <3>2. request[q].kind = "accept"
      BY <2>4 DEF Members!AcceptWrites
    <3>3. member' # member => Members!Count < limit
      BY <2>2, <3>1, <3>2 DEF Settled
    <3>4. Members!Count' <= Members!Count + 1
      BY <2>1, <2>4, OneMoreMember
    <3> QED
      BY <2>1, <3>2, <3>3, <3>4, SeatsAreNumbers
  <2>5. CASE request[q].kind \notin {"invite", "accept"}
    BY <2>5
  <2>6. request[q].kind \in {"invite", "accept"} =>
          Members!InviteWrites(q) \/ Members!AcceptWrites(q)
    <3>1. ASSUME NEW s \in Members!Requests, Members!Writes(s)
          PROVE  /\ s # q => request'[q] = request[q]
                 /\ request[s].kind \in {"invite", "accept"} =>
                      Members!InviteWrites(s) \/ Members!AcceptWrites(s)
      BY <2>1, <3>1 DEF Members!Writes, Members!InviteWrites, Members!AcceptWrites,
         Members!RoleWrites, Members!RevokeWrites, Members!RestoreWrites, Members!JoinWrites,
         Members!Wrote, Members!Goes
    <3>2. ASSUME NEW s \in Members!Requests, Members!InviteDecides(s)
          PROVE  request'[q] = request[q]
      BY <2>1, <3>2 DEF Members!InviteDecides, Members!Goes
    <3>3. ASSUME NEW s \in Members!Requests, NEW k, NEW p, NEW e, NEW r, NEW i, NEW label,
                 Members!Asks(s, k, p, e, r, i, label)
          PROVE  request'[q] = request[q]
      BY <2>1, <3>3 DEF Members!Asks, Members!Begins
    <3>4. request'[q] # request[q]
      OBVIOUS
    <3>5. CASE \E s \in Members!Requests : Members!Writes(s)
      BY <3>1, <3>4, <3>5
    <3>6. CASE \E s \in Members!Requests : Members!InviteDecides(s)
      BY <3>2, <3>4, <3>6
    <3>7. ASSUME NEW s \in Members!Requests, NEW p \in People, NEW e \in People,
                 \/ \E r \in Members!Roles : Members!InviteCounts(s, p, e, r)
                 \/ \E r \in {"admin", "member"} : Members!ChangeReads(s, p, e, "role", r)
                 \/ \E k \in {"revoke", "restore"} : Members!ChangeReads(s, p, e, k, "none")
          PROVE  request'[q] = request[q]
      BY <3>3, <3>7 DEF Members!InviteCounts, Members!ChangeReads
    <3>8. ASSUME NEW s \in Members!Requests,
                 \/ \E p \in People : Members!JoinReads(s, p)
                 \/ \E i \in Members!Invites : Members!AcceptReads(s, i)
          PROVE  request'[q] = request[q]
      BY <3>3, <3>8 DEF Members!JoinReads, Members!AcceptReads
    <3>9. ASSUME \/ \E l \in Limits : Members!PlanChanges(l)
                 \/ \E i \in Members!Invites : Members!InviteExpires(i)
                 \/ \E p \in People : Members!SessionEnds(p) \/ Members!SignIn(p)
          PROVE  request' = request
      BY <3>9 DEF Members!PlanChanges, Members!InviteExpires, Members!SessionEnds,
         Members!SignIn, Members!Quietly
    <3> QED
      BY <3>4, <3>5, <3>6, <3>7, <3>8, <3>9 DEF Members!Next
  <2> QED
    BY <2>3, <2>4, <2>5, <2>6
<1>2. SeatsAreCounted <=> [][Counted]_members
  BY DEF SeatsAreCounted, Members!SeatsAreCounted, Members!vars, members
<1> QED
  BY <1>1, <1>2, MembersInvHolds, PTL DEF Members!Spec, Members!vars, members

-----------------------------------------------------------------------------
(* The standing triggers of a goal.                                        *)

Steps == {"select", "gate", "admit", "insert"}

\* What may still queue a job: firings under way, and windows nobody has claimed.
Coming == {f \in Triggers!Firings : at[f] \in Steps}
ComingFor(t) == {w \in Workers : at[w] \in Steps /\ fires[w] = t}
Unclaimed == {t \in Crons : due[t]}

\* What there was to queue jobs for: windows that came, and calls.
Came == {u \in Crons \X (1..MaxWindows) : u[2] <= windows[u[1]]}
Called == {c \in Triggers!Calls : at[c] # "idle"}

JobsOf(t) == {i \in 1..Triggers!MaxJobs : job[i].by = t}
Standing == {i \in 1..Triggers!MaxJobs : Triggers!Unfinished(i) /\ job[i].by \in Crons}
Admitted == {w \in Workers : at[w] \in {"admit", "insert"}}

\* A worker fires schedules and a request what comes in; a job is one that was queued.
Fired ==
  /\ \A w \in Workers : /\ at[w] \in Steps \cup {"fired", "refused"} => fires[w] \in Crons
                        /\ at[w] # "answered"
  /\ \A c \in Triggers!Calls :
       /\ at[c] \in Steps \cup {"fired", "refused"} => fires[c] \in Inbound
       /\ at[c] \notin {"claim", "select", "gate"}
  /\ \A i \in 1..Triggers!MaxJobs : i > queued => job[i] = Triggers!Nothing

\* Nothing is queued but for a window or a call, and for each only once.
Counted ==
  /\ queued + Cardinality(Coming) + Cardinality(Unclaimed)
       <= Cardinality(Came) + Cardinality(Called)
  /\ \A t \in Crons :
       Cardinality(JobsOf(t)) + Cardinality(ComingFor(t)) + (IF due[t] THEN 1 ELSE 0)
         <= windows[t]

\* Whoever was let past the gate has found nothing standing.
Bounded == Cardinality(Standing) + Cardinality(Admitted) <= Cardinality(Workers)

TriggersInv == Triggers!TypeOK /\ Fired /\ Counted /\ Bounded

\* Cardinality is the same operator for each part.
LEMMA TriggersCardinality == \A S : Triggers!Cardinality(S) = Cardinality(S)
  BY Zenon DEF Triggers!Cardinality, Cardinality

\* A set within a finite one, and within one without or with one more.
LEMMA Within ==
  ASSUME NEW T, IsFiniteSet(T), NEW S, S \subseteq T
  PROVE  Cardinality(S) \in Nat /\ Cardinality(T) \in Nat /\ Cardinality(S) <= Cardinality(T)
BY FS_Subset, FS_CardinalityType

\* A set that gains one element at most is greater by one at most.
LEMMA OneMore ==
  ASSUME NEW T, IsFiniteSet(T), NEW x, NEW S, S \subseteq T \cup {x}
  PROVE  Cardinality(S) \in Nat /\ Cardinality(T) \in Nat
           /\ Cardinality(S) <= Cardinality(T) + 1
<1>1. IsFiniteSet(T \cup {x}) /\ Cardinality(T \cup {x}) <= Cardinality(T) + 1
  <2>1. Cardinality(T) \in Nat
    BY FS_CardinalityType
  <2>2. /\ IsFiniteSet(T \cup {x})
        /\ Cardinality(T \cup {x}) = IF x \in T THEN Cardinality(T) ELSE Cardinality(T) + 1
    BY FS_AddElement
  <2> QED
    BY <2>1, <2>2
<1>2. Cardinality(S) <= Cardinality(T \cup {x}) /\ Cardinality(S) \in Nat
      /\ Cardinality(T \cup {x}) \in Nat /\ Cardinality(T) \in Nat
  BY <1>1, FS_Subset, FS_CardinalityType
<1> QED
  BY <1>1, <1>2

\* A set that loses an element is smaller by one at least.
LEMMA OneLess ==
  ASSUME NEW T, IsFiniteSet(T), NEW x \in T, NEW S, S \subseteq T \ {x}
  PROVE  Cardinality(S) \in Nat /\ Cardinality(T) \in Nat
           /\ Cardinality(S) + 1 <= Cardinality(T)
<1>1. IsFiniteSet(T \ {x}) /\ Cardinality(T \ {x}) = Cardinality(T) - 1
  BY FS_RemoveElement
<1>2. Cardinality(S) <= Cardinality(T \ {x}) /\ Cardinality(S) \in Nat
      /\ Cardinality(T \ {x}) \in Nat /\ Cardinality(T) \in Nat
  BY <1>1, FS_Subset, FS_CardinalityType
<1> QED
  BY <1>1, <1>2

\* A finite set that is ordered has a greatest element: how many are below tells any two
\* apart, so one of them has all the others below it.
LEMMA TheGreatest ==
  ASSUME NEW S, IsFiniteSet(S), S # {}, NEW R,
         \A x \in S : <<x, x>> \notin R,
         \A x, y \in S : x = y \/ <<x, y>> \in R \/ <<y, x>> \in R,
         \A x, y, z \in S : <<x, y>> \in R /\ <<y, z>> \in R => <<x, z>> \in R
  PROVE  \E m \in S : \A x \in S \ {m} : <<x, m>> \in R
<1> DEFINE Lower(x) == {y \in S : <<y, x>> \in R}
           n == Cardinality(S)
           f == [x \in S |-> Cardinality(Lower(x))]
<1>1. n \in Nat /\ n # 0
  BY FS_CardinalityType, FS_EmptySet
<1>2. \A x \in S : IsFiniteSet(Lower(x)) /\ Lower(x) \subseteq S \ {x}
  BY FS_Subset
<1>3. \A x \in S : Cardinality(Lower(x)) \in Nat /\ Cardinality(Lower(x)) + 1 <= n
  BY <1>2, OneLess
<1>4. f \in [S -> 0..(n - 1)]
  BY <1>1, <1>3
<1>5. ASSUME NEW x \in S, NEW y \in S, <<x, y>> \in R
      PROVE  f[x] < f[y]
  <2>1. x \in Lower(y) /\ Lower(x) \subseteq Lower(y) \ {x}
    BY <1>5
  <2>2. IsFiniteSet(Lower(y))
    BY <1>2
  <2> HIDE DEF Lower
  <2>3. Cardinality(Lower(x)) + 1 <= Cardinality(Lower(y))
    BY <2>1, <2>2, OneLess
  <2> QED
    BY <1>3, <2>3
<1>6. \A x, y \in S : x # y => f[x] # f[y]
  <2> SUFFICES ASSUME NEW x \in S, NEW y \in S, x # y
               PROVE  f[x] # f[y]
    OBVIOUS
  <2>1. f[x] \in Nat /\ f[y] \in Nat /\ (f[x] < f[y] \/ f[y] < f[x])
    BY <1>3, <1>5
  <2> QED
    BY <2>1
<1> HIDE DEF f
<1>7. f \in Injection(S, 0..(n - 1))
  BY <1>4, <1>6 DEF Injection, IsInjective
<1> HIDE DEF n
<1>8. IsFiniteSet(0..(n - 1)) /\ Cardinality(0..(n - 1)) = n
  <2>1. 0 \in Int /\ n - 1 \in Int /\ ~(0 > n - 1) /\ (n - 1) - 0 + 1 = n
    BY <1>1
  <2> QED
    BY <2>1, FS_Interval
<1>9. f \in Surjection(S, 0..(n - 1))
  BY <1>7, <1>8, FS_Injection DEF n
<1>10. PICK m \in S : f[m] = n - 1
  <2>1. n - 1 \in 0..(n - 1)
    BY <1>1
  <2> QED
    BY <1>9, <2>1 DEF Surjection
<1>11. Lower(m) = S \ {m}
  <2>1. IsFiniteSet(S \ {m}) /\ Cardinality(S \ {m}) = n - 1
    BY FS_RemoveElement DEF n
  <2>2. Cardinality(Lower(m)) = n - 1
    BY <1>10 DEF f
  <2> QED
    BY <1>2, <2>1, <2>2, FS_Subset
<1> QED
  BY <1>11

\* All that is counted is finite, and there is room for as many jobs as may come.
LEMMA TriggersAreFinite ==
  /\ IsFiniteSet(Coming) /\ IsFiniteSet(Coming') /\ IsFiniteSet(Unclaimed)
  /\ IsFiniteSet(Unclaimed') /\ IsFiniteSet(Came) /\ IsFiniteSet(Came')
  /\ IsFiniteSet(Called) /\ IsFiniteSet(Called') /\ IsFiniteSet(Standing)
  /\ IsFiniteSet(Standing') /\ IsFiniteSet(Admitted) /\ IsFiniteSet(Admitted')
  /\ \A t : /\ IsFiniteSet(ComingFor(t)) /\ IsFiniteSet(ComingFor(t)')
            /\ IsFiniteSet(JobsOf(t)) /\ IsFiniteSet(JobsOf(t)')
  /\ Triggers!MaxJobs \in Nat
  /\ Cardinality(Came) + Cardinality(Called) <= Triggers!MaxJobs
<1> USE TriggersAssumption
<1>1. IsFiniteSet(Triggers!Calls) /\ Cardinality(Triggers!Calls) = MaxCalls
  <2>1. IsFiniteSet(1..MaxCalls) /\ Cardinality(1..MaxCalls) = MaxCalls
    BY FS_Interval
  <2> QED
    BY <2>1 DEF Triggers!Calls
<1>2. IsFiniteSet(1..MaxWindows) /\ Cardinality(1..MaxWindows) = MaxWindows
  BY FS_Interval
<1>3. /\ IsFiniteSet(Crons \X (1..MaxWindows))
      /\ Cardinality(Crons \X (1..MaxWindows)) = Cardinality(Crons) * MaxWindows
  BY <1>2, FS_Product
<1>4. Triggers!MaxJobs = Cardinality(Crons) * MaxWindows + MaxCalls
  BY TriggersCardinality DEF Triggers!MaxJobs
<1>5. Cardinality(Crons) * MaxWindows \in Nat
  BY <1>3, FS_CardinalityType
<1>6. Triggers!MaxJobs \in Nat
  BY <1>4, <1>5
<1>7. IsFiniteSet(1..Triggers!MaxJobs)
  BY <1>6, FS_Interval
<1>8. IsFiniteSet(Triggers!Firings)
  BY <1>1, FS_Union DEF Triggers!Firings
<1>9. Came \subseteq Crons \X (1..MaxWindows) /\ Called \subseteq Triggers!Calls
  BY DEF Came, Called
<1>10. /\ Cardinality(Came) <= Cardinality(Crons) * MaxWindows /\ Cardinality(Came) \in Nat
       /\ Cardinality(Called) <= MaxCalls /\ Cardinality(Called) \in Nat
  BY <1>1, <1>3, <1>9, FS_Subset, FS_CardinalityType
<1>11. Cardinality(Came) + Cardinality(Called) <= Triggers!MaxJobs
  BY <1>4, <1>5, <1>10
<1>12. /\ IsFiniteSet(Coming) /\ IsFiniteSet(Coming')
       /\ \A t : IsFiniteSet(ComingFor(t)) /\ IsFiniteSet(ComingFor(t)')
       /\ IsFiniteSet(Admitted) /\ IsFiniteSet(Admitted')
  BY <1>8, FS_Subset DEF Coming, ComingFor, Admitted
<1>13. /\ IsFiniteSet(Unclaimed) /\ IsFiniteSet(Unclaimed')
       /\ IsFiniteSet(Came) /\ IsFiniteSet(Came')
  BY <1>3, FS_Subset DEF Unclaimed, Came
<1>14. /\ IsFiniteSet(Called) /\ IsFiniteSet(Called')
  BY <1>1, FS_Subset DEF Called
<1>15. /\ IsFiniteSet(Standing) /\ IsFiniteSet(Standing')
       /\ \A t : IsFiniteSet(JobsOf(t)) /\ IsFiniteSet(JobsOf(t)')
  BY <1>7, FS_Subset DEF Standing, JobsOf
<1> QED
  BY <1>6, <1>11, <1>12, <1>13, <1>14, <1>15

ATrigger == [there : BOOLEAN, enabled : BOOLEAN, failed : BOOLEAN]

\* Rows and firings keep their types.
LEMMA TriggersTypesAreKept ==
  ASSUME TriggersInv, [Triggers!Next]_triggers
  PROVE  Triggers!TypeOK' /\ Fired'
<1> USE TriggersAssumption DEF TriggersInv, Triggers!TypeOK, Fired, Steps, Triggers!Goto,
    Triggers!Over, Triggers!clock, Triggers!rest, Triggers!Firings, Triggers!Triggers
<1>a. trigger \in [Triggers!Triggers -> ATrigger]
  BY DEF ATrigger
<1>b. ASSUME trigger' \in [Triggers!Triggers -> ATrigger]
      PROVE  trigger' \in [Triggers!Triggers ->
                           [there : BOOLEAN, enabled : BOOLEAN, failed : BOOLEAN]]
  BY <1>b DEF ATrigger
<1>1. ASSUME NEW t \in Crons, Triggers!ComesDue(t)
      PROVE  Triggers!TypeOK' /\ Fired'
  BY <1>1 DEF Triggers!ComesDue
<1>2. ASSUME NEW t \in Crons, NEW w \in Workers, Triggers!ClaimDue(w, t)
      PROVE  Triggers!TypeOK' /\ Fired'
  BY <1>2 DEF Triggers!ClaimDue, Triggers!Advanced
<1>3. ASSUME NEW t \in Triggers!Triggers, Triggers!SetEnabled(t) \/ Triggers!Remove(t)
      PROVE  Triggers!TypeOK' /\ Fired'
  <2> DEFINE switched == [trigger[t] EXCEPT !.enabled = ~@]
             removed == [trigger[t] EXCEPT !.there = FALSE]
  <2>2. switched \in ATrigger /\ removed \in ATrigger
    <3>1. trigger[t] \in ATrigger
      BY <1>a
    <3> QED
      BY <3>1 DEF ATrigger
  <2>3. \/ trigger' = [trigger EXCEPT ![t] = switched]
        \/ trigger' = [trigger EXCEPT ![t] = removed]
    BY <1>3 DEF Triggers!SetEnabled, Triggers!Remove
  <2> HIDE DEF switched, removed
  <2>4. trigger' \in [Triggers!Triggers -> ATrigger]
    BY <1>a, <2>2, <2>3
  <2>5. /\ UNCHANGED <<due, windows, job, queued, at, fires, inTick, deaths>>
        /\ switches' \in 0..MaxEdits
    BY <1>3 DEF Triggers!SetEnabled, Triggers!Remove
  <2> QED
    BY <1>b, <2>4, <2>5
<1>4. ASSUME NEW i \in 1..Triggers!MaxJobs, Triggers!JobMoves(i)
      PROVE  Triggers!TypeOK' /\ Fired'
  <2>1. job[i].status # "none"
    BY <1>4 DEF Triggers!JobMoves, Triggers!Claimable
  <2>2. i <= queued
    BY <2>1, TriggersAreFinite DEF Triggers!Nothing
  <2>3. \/ job' = [job EXCEPT ![i].status = "running"]
        \/ job' = [job EXCEPT ![i].status = "done"]
    BY <1>4 DEF Triggers!JobMoves
  <2>4. job' \in [1..Triggers!MaxJobs -> [by : Triggers!Triggers \cup {"nobody"},
                                         status : {"none", "queued", "running", "done"}]]
    <3> DEFINE AJob == [by : Triggers!Triggers \cup {"nobody"},
                        status : {"none", "queued", "running", "done"}]
               going == [job[i] EXCEPT !.status = "running"]
               done == [job[i] EXCEPT !.status = "done"]
    <3>1. job \in [1..Triggers!MaxJobs -> AJob] /\ going \in AJob /\ done \in AJob
      <4>1. job \in [1..Triggers!MaxJobs -> AJob] /\ job[i] \in AJob
        OBVIOUS
      <4> HIDE DEF TriggersInv, Triggers!TypeOK, Fired
      <4> QED
        BY <4>1
    <3>2. job' = [job EXCEPT ![i] = going] \/ job' = [job EXCEPT ![i] = done]
      BY <2>3
    <3> HIDE DEF going, done, AJob
    <3>3. job' \in [1..Triggers!MaxJobs -> AJob]
      BY <3>1, <3>2
    <3> QED
      BY <3>3 DEF AJob
  <2>5. UNCHANGED <<trigger, due, windows, queued, at, fires, inTick, switches, deaths>>
    BY <1>4 DEF Triggers!JobMoves
  <2>6. \A k \in 1..Triggers!MaxJobs : k > queued' => job'[k] = Triggers!Nothing
    BY <2>2, <2>3, <2>5, TriggersAreFinite
  <2> QED
    BY <2>4, <2>5, <2>6
<1>5. ASSUME NEW w \in Workers, Triggers!TickBegins(w) \/ Triggers!TickEnds(w)
      PROVE  Triggers!TypeOK' /\ Fired'
  <2>1. at' = [at EXCEPT ![w] = "claim"] \/ at' = [at EXCEPT ![w] = "idle"]
    BY <1>5 DEF Triggers!TickBegins, Triggers!TickEnds
  <2>2. inTick' \subseteq Workers
          /\ UNCHANGED <<trigger, due, windows, job, queued, fires, switches, deaths>>
    BY <1>5 DEF Triggers!TickBegins, Triggers!TickEnds
  <2>5. w \notin Triggers!Calls
    BY DEF Triggers!Calls
  <2>3. CASE at' = [at EXCEPT ![w] = "claim"]
    BY <2>2, <2>3, <2>5
  <2>4. CASE at' = [at EXCEPT ![w] = "idle"]
    BY <2>2, <2>4
  <2> QED
    BY <2>1, <2>3, <2>4
<1>6. ASSUME NEW w \in Workers, Triggers!SelectRow(w)
      PROVE  Triggers!TypeOK' /\ Fired'
  <2>1. \/ at' = [at EXCEPT ![w] = "gate"] /\ fires' = fires /\ inTick' = inTick
        \/ /\ at' = [at EXCEPT ![w] = "idle"] /\ fires' = [fires EXCEPT ![w] = "none"]
           /\ inTick' = inTick \ {w}
    BY <1>6 DEF Triggers!SelectRow, Triggers!None
  <2>2. at[w] = "select" /\ UNCHANGED <<trigger, due, windows, job, queued, switches, deaths>>
    BY <1>6 DEF Triggers!SelectRow
  <2> QED
    BY <2>1, <2>2, SMTT(30) DEF Triggers!None
<1>7. ASSUME NEW w \in Workers, Triggers!Gate(w)
      PROVE  Triggers!TypeOK' /\ Fired'
  BY <1>7 DEF Triggers!Gate, Triggers!None
<1>8. ASSUME NEW c \in Triggers!Calls, NEW t \in Inbound, Triggers!CallReads(c, t)
      PROVE  Triggers!TypeOK' /\ Fired'
  <2>1. \/ at' = [at EXCEPT ![c] = "admit"] /\ fires' = [fires EXCEPT ![c] = t]
        \/ at' = [at EXCEPT ![c] = "answered"] /\ fires' = fires
    BY <1>8 DEF Triggers!CallReads
  <2>2. UNCHANGED <<trigger, due, windows, job, queued, inTick, switches, deaths>>
    BY <1>8 DEF Triggers!CallReads
  <2>3. c \notin Workers
    BY DEF Triggers!Calls
  <2>4. CASE at' = [at EXCEPT ![c] = "admit"] /\ fires' = [fires EXCEPT ![c] = t]
    <3>1. Triggers!TypeOK'
      BY <2>2, <2>4
    <3>2. Fired'
      BY <2>2, <2>3, <2>4
    <3> QED
      BY <3>1, <3>2
  <2>5. CASE at' = [at EXCEPT ![c] = "answered"] /\ fires' = fires
    <3>1. Triggers!TypeOK'
      BY <2>2, <2>5
    <3>2. Fired'
      BY <2>2, <2>3, <2>5
    <3> QED
      BY <3>1, <3>2
  <2> QED
    BY <2>1, <2>4, <2>5
<1>9. ASSUME NEW f \in Triggers!Firings, Triggers!Admit(f)
      PROVE  Triggers!TypeOK' /\ Fired'
  BY <1>9 DEF Triggers!Admit
<1>10. ASSUME NEW f \in Triggers!Firings, Triggers!InsertJob(f)
       PROVE  Triggers!TypeOK' /\ Fired'
  <2>1. queued + 1 \in 1..Triggers!MaxJobs
    <3>1. Coming # {} /\ Cardinality(Coming) \in Nat /\ Cardinality(Unclaimed) \in Nat
      BY <1>10, TriggersAreFinite, FS_CardinalityType DEF Coming, Triggers!InsertJob
    <3>2. Cardinality(Coming) # 0
      BY <3>1, TriggersAreFinite, FS_EmptySet
    <3>3. Cardinality(Came) \in Nat /\ Cardinality(Called) \in Nat
      BY TriggersAreFinite, FS_CardinalityType
    <3> QED
      BY <3>1, <3>2, <3>3, TriggersAreFinite DEF Counted
  <2>2. fires[f] \in Triggers!Triggers
    BY <1>10 DEF Triggers!InsertJob
  <2>3. /\ queued' = queued + 1
        /\ job' = [job EXCEPT ![queued + 1] = [by |-> fires[f], status |-> "queued"]]
    BY <1>10 DEF Triggers!InsertJob
  <2>4. at' = [at EXCEPT ![f] = "fired"]
          /\ UNCHANGED <<trigger, due, windows, fires, inTick, switches, deaths>>
    BY <1>10 DEF Triggers!InsertJob
  <2>5. job' \in [1..Triggers!MaxJobs -> [by : Triggers!Triggers \cup {"nobody"},
                                         status : {"none", "queued", "running", "done"}]]
    BY <2>1, <2>2, <2>3
  <2>6. \A k \in 1..Triggers!MaxJobs : k > queued' => job'[k] = Triggers!Nothing
    BY <2>1, <2>3, TriggersAreFinite
  <2>7. queued' \in 0..Triggers!MaxJobs
    BY <2>1, <2>3, TriggersAreFinite
  <2>8. /\ \A w \in Workers : /\ at'[w] \in Steps \cup {"fired", "refused"}
                                   => fires'[w] \in Crons
                            /\ at'[w] # "answered"
        /\ \A c \in Triggers!Calls :
             /\ at'[c] \in Steps \cup {"fired", "refused"} => fires'[c] \in Inbound
             /\ at'[c] \notin {"claim", "select", "gate"}
    BY <1>10, <2>4 DEF Triggers!InsertJob
  <2> QED
    BY <2>4, <2>5, <2>6, <2>7, <2>8
<1>11. ASSUME NEW f \in Triggers!Firings, Triggers!Record(f)
       PROVE  Triggers!TypeOK' /\ Fired'
  <2>1. trigger' \in [Triggers!Triggers -> ATrigger]
    <3> DEFINE new == [trigger[fires[f]] EXCEPT !.failed = at[f] = "refused"]
    <3>1. fires[f] \in Triggers!Triggers
      BY <1>11 DEF Triggers!Record
    <3>2. trigger[fires[f]] \in ATrigger /\ (at[f] = "refused") \in BOOLEAN
      BY <1>a, <3>1
    <3>3. new \in ATrigger
      BY <3>2 DEF ATrigger
    <3>4. trigger' = [trigger EXCEPT ![fires[f]] = new]
      BY <1>11 DEF Triggers!Record
    <3> HIDE DEF new
    <3> QED
      BY <1>a, <3>1, <3>3, <3>4
  <2>2. /\ at' = [at EXCEPT ![f] = IF f \in Workers THEN "claim" ELSE "answered"]
        /\ fires' = [fires EXCEPT ![f] = "none"]
        /\ UNCHANGED <<due, windows, job, queued, inTick, switches, deaths>>
    BY <1>11 DEF Triggers!Record, Triggers!None
  <2>3. /\ at' \in [Triggers!Firings -> {"idle", "claim", "select", "gate", "admit", "insert",
                                      "fired", "refused", "answered"}]
        /\ fires' \in [Triggers!Firings -> Triggers!Triggers \cup {Triggers!None}]
    BY <2>2 DEF Triggers!None
  <2>4. Triggers!TypeOK'
    BY <1>b, <2>1, <2>2, <2>3
  <2>6. \A c \in Triggers!Calls : c \notin Workers
    BY DEF Triggers!Calls
  <2>5. Fired'
    BY <2>2, <2>6
  <2> QED
    BY <2>4, <2>5
<1>12. ASSUME NEW f \in Triggers!Firings, Triggers!Dies(f)
       PROVE  Triggers!TypeOK' /\ Fired'
  BY <1>12 DEF Triggers!Dies, Triggers!None
<1>13. CASE UNCHANGED triggers
  BY <1>13 DEF triggers
<1> HIDE DEF TriggersInv, Triggers!TypeOK, Fired, Triggers!Triggers, Triggers!Firings
<1> QED
  BY <1>1, <1>2, <1>3, <1>4, <1>5, <1>6, <1>7, <1>8, <1>9, <1>10, <1>11, <1>12, <1>13
     DEF Triggers!Next

\* Nothing is counted anew while a firing only goes on.
LEMMA CountsStay ==
  ASSUME TriggersInv, UNCHANGED <<job, queued, due, windows>>,
         \A f \in Triggers!Firings :
           /\ at'[f] \in Steps => at[f] \in Steps /\ fires'[f] = fires[f]
           /\ f \in Triggers!Calls /\ at[f] # "idle" => at'[f] # "idle",
         \A w \in Workers : at'[w] \in {"admit", "insert"} => at[w] \in {"admit", "insert"}
  PROVE  Counted' /\ Bounded'
<1>1. Coming' \subseteq Coming /\ Unclaimed' = Unclaimed /\ Came' = Came
        /\ Called \subseteq Called'
  BY DEF Coming, Unclaimed, Came, Called, Triggers!Firings
<1>2. Admitted' \subseteq Admitted /\ Standing' = Standing
  BY DEF Admitted, Standing, Triggers!Unfinished
<1>3. \A t \in Crons : JobsOf(t)' = JobsOf(t) /\ ComingFor(t)' \subseteq ComingFor(t)
  BY DEF JobsOf, ComingFor, Triggers!Firings
<1>4. /\ Cardinality(Coming') <= Cardinality(Coming) /\ Cardinality(Coming) \in Nat
      /\ Cardinality(Coming') \in Nat /\ Cardinality(Unclaimed) \in Nat
      /\ Cardinality(Called) <= Cardinality(Called') /\ Cardinality(Called) \in Nat
      /\ Cardinality(Called') \in Nat /\ Cardinality(Came) \in Nat
      /\ Cardinality(Admitted') <= Cardinality(Admitted) /\ Cardinality(Admitted) \in Nat
      /\ Cardinality(Admitted') \in Nat /\ Cardinality(Standing) \in Nat
  BY <1>1, <1>2, TriggersAreFinite, Within
<1>5. \A t \in Crons :
        /\ Cardinality(ComingFor(t)') <= Cardinality(ComingFor(t))
        /\ Cardinality(ComingFor(t)') \in Nat /\ Cardinality(ComingFor(t)) \in Nat
        /\ Cardinality(JobsOf(t)) \in Nat
  BY <1>3, TriggersAreFinite, Within
<1>6. Cardinality(Workers) \in Nat
  BY TriggersAssumption, FS_CardinalityType
<1>7. queued \in Nat /\ \A t \in Crons : windows[t] \in Nat
  BY TriggersAreFinite, TriggersAssumption DEF TriggersInv, Triggers!TypeOK
<1>8. Bounded'
  BY <1>2, <1>4, <1>6 DEF TriggersInv, Bounded
<1>9. queued' + Cardinality(Coming') + Cardinality(Unclaimed') <=
        Cardinality(Came') + Cardinality(Called')
  BY <1>1, <1>4, <1>7 DEF TriggersInv, Counted
<1>10. \A t \in Crons :
        Cardinality(JobsOf(t)') + Cardinality(ComingFor(t)') + (IF due'[t] THEN 1 ELSE 0)
          <= windows'[t]
  BY <1>3, <1>5, <1>7 DEF TriggersInv, Counted
<1> QED
  BY <1>8, <1>9, <1>10 DEF Counted

\* A window that comes is one to be claimed.
LEMMA AWindowComes ==
  ASSUME TriggersInv, NEW t \in Crons, Triggers!ComesDue(t)
  PROVE  Counted' /\ Bounded'
<1> DEFINE u == <<t, windows[t] + 1>>
<1>1. /\ ~due[t] /\ windows[t] < MaxWindows /\ windows[t] \in Nat
      /\ due' = [due EXCEPT ![t] = TRUE] /\ windows' = [windows EXCEPT ![t] = @ + 1]
      /\ UNCHANGED <<job, queued, at, fires>>
      /\ due \in [Crons -> BOOLEAN] /\ windows \in [Crons -> 0..MaxWindows] /\ queued \in Nat
  BY TriggersAssumption, TriggersAreFinite
     DEF Triggers!ComesDue, TriggersInv, Triggers!TypeOK, Triggers!rest
<1>2. Unclaimed' \subseteq Unclaimed \cup {t} /\ Called' = Called /\ Coming' = Coming
  BY <1>1 DEF Unclaimed, Called, Coming
<1>3. u \in Came' /\ Came \subseteq Came' \ {u}
  <2>1. u \in Crons \X (1..MaxWindows) /\ u[1] = t /\ u[2] = windows[t] + 1
    BY <1>1, TriggersAssumption
  <2>2. windows'[t] = windows[t] + 1 /\ \A s \in Crons : windows[s] <= windows'[s]
    BY <1>1, TriggersAssumption
  <2>3. u \in Came' /\ u \notin Came
    BY <1>1, <2>1, <2>2 DEF Came
  <2>4. Came \subseteq Came'
    <3> SUFFICES ASSUME NEW v \in Came
                 PROVE  v \in Came'
      OBVIOUS
    <3>1. v[1] \in Crons /\ v[2] \in 1..MaxWindows /\ v[2] <= windows[v[1]]
      BY DEF Came
    <3>2. windows[v[1]] \in Nat /\ windows'[v[1]] \in Nat /\ v[2] \in Nat
      BY <1>1, <3>1, TriggersAssumption
    <3> QED
      BY <2>2, <3>1, <3>2 DEF Came
  <2> QED
    BY <2>3, <2>4
<1>4. Admitted' = Admitted /\ Standing' = Standing
  BY <1>1 DEF Admitted, Standing, Triggers!Unfinished
<1>5. \A s \in Crons : JobsOf(s)' = JobsOf(s) /\ ComingFor(s)' = ComingFor(s)
  BY <1>1 DEF JobsOf, ComingFor
<1> HIDE DEF u
<1>6. /\ Cardinality(Unclaimed') <= Cardinality(Unclaimed) + 1
      /\ Cardinality(Unclaimed') \in Nat /\ Cardinality(Unclaimed) \in Nat
  BY <1>2, TriggersAreFinite, OneMore
<1>7. /\ Cardinality(Came) + 1 <= Cardinality(Came')
      /\ Cardinality(Came') \in Nat /\ Cardinality(Came) \in Nat
  BY <1>3, TriggersAreFinite, OneLess
<1>8. Cardinality(Coming) \in Nat /\ Cardinality(Called) \in Nat
  BY TriggersAreFinite, FS_CardinalityType
<1>9. \A s \in Crons : Cardinality(JobsOf(s)) \in Nat /\ Cardinality(ComingFor(s)) \in Nat
  BY TriggersAreFinite, FS_CardinalityType
<1>10. Bounded'
  BY <1>4 DEF TriggersInv, Bounded
<1>11. queued' + Cardinality(Coming') + Cardinality(Unclaimed') <=
         Cardinality(Came') + Cardinality(Called')
  BY <1>1, <1>2, <1>6, <1>7, <1>8 DEF TriggersInv, Counted
<1>12. \A s \in Crons :
         Cardinality(JobsOf(s)') + Cardinality(ComingFor(s)') + (IF due'[s] THEN 1 ELSE 0)
           <= windows'[s]
  BY <1>1, <1>5, <1>9, TriggersAssumption DEF TriggersInv, Counted
<1> QED
  BY <1>10, <1>11, <1>12 DEF Counted

\* A window that is claimed is to be claimed no more.
LEMMA AWindowIsClaimed ==
  ASSUME TriggersInv, NEW t \in Crons, NEW w \in Workers, Triggers!ClaimDue(w, t)
  PROVE  Counted' /\ Bounded'
<1>1. /\ at[w] = "claim" /\ due[t] /\ due' = [due EXCEPT ![t] = FALSE]
      /\ fires' = [fires EXCEPT ![w] = t] /\ at' = [at EXCEPT ![w] = "select"]
      /\ UNCHANGED <<job, queued, windows>>
      /\ due \in [Crons -> BOOLEAN] /\ windows \in [Crons -> 0..MaxWindows] /\ queued \in Nat
      /\ DOMAIN at = Triggers!Firings /\ DOMAIN fires = Triggers!Firings
      /\ w \in Triggers!Firings
  <2>1. /\ due \in [Crons -> BOOLEAN] /\ windows \in [Crons -> 0..MaxWindows]
        /\ queued \in Nat /\ DOMAIN at = Triggers!Firings /\ DOMAIN fires = Triggers!Firings
    BY TriggersAreFinite DEF TriggersInv, Triggers!TypeOK
  <2> QED
    BY <2>1 DEF Triggers!ClaimDue, Triggers!MayClaim, Triggers!Advanced, Triggers!Goto,
       Triggers!rest, Triggers!Firings
<1>2. t \in Unclaimed /\ Unclaimed' \subseteq Unclaimed \ {t}
  BY <1>1 DEF Unclaimed
<1>3. Coming' \subseteq Coming \cup {w} /\ Came' = Came /\ Called \subseteq Called'
  BY <1>1 DEF Coming, Came, Called, Triggers!Firings, Triggers!Calls
<1>4. Admitted' \subseteq Admitted /\ Standing' = Standing
  BY <1>1 DEF Admitted, Standing, Triggers!Unfinished
<1>5. \A s \in Crons : JobsOf(s)' = JobsOf(s)
  BY <1>1 DEF JobsOf
<1>6. ComingFor(t)' \subseteq ComingFor(t) \cup {w}
  BY <1>1 DEF ComingFor, Triggers!Firings
<1>7. \A s \in Crons \ {t} : ComingFor(s)' \subseteq ComingFor(s)
  BY <1>1 DEF ComingFor, Triggers!Firings
<1>8. /\ Cardinality(Unclaimed') + 1 <= Cardinality(Unclaimed)
      /\ Cardinality(Unclaimed') \in Nat /\ Cardinality(Unclaimed) \in Nat
  BY <1>2, TriggersAreFinite, OneLess
<1>9. /\ Cardinality(Coming') <= Cardinality(Coming) + 1
      /\ Cardinality(Coming') \in Nat /\ Cardinality(Coming) \in Nat
  BY <1>3, TriggersAreFinite, OneMore
<1>10. /\ Cardinality(Called) <= Cardinality(Called') /\ Cardinality(Called) \in Nat
       /\ Cardinality(Called') \in Nat /\ Cardinality(Came) \in Nat
       /\ Cardinality(Admitted') <= Cardinality(Admitted) /\ Cardinality(Admitted) \in Nat
       /\ Cardinality(Admitted') \in Nat /\ Cardinality(Standing) \in Nat
  BY <1>3, <1>4, TriggersAreFinite, Within
<1>11. \A s \in Crons :
         /\ Cardinality(JobsOf(s)) \in Nat
         /\ Cardinality(ComingFor(s)) \in Nat /\ Cardinality(ComingFor(s)') \in Nat
         /\ s # t => Cardinality(ComingFor(s)') <= Cardinality(ComingFor(s))
  BY <1>7, TriggersAreFinite, Within, FS_CardinalityType
<1>12. Cardinality(ComingFor(t)') <= Cardinality(ComingFor(t)) + 1
  BY <1>6, TriggersAreFinite, OneMore
<1>13. Cardinality(Workers) \in Nat
  BY TriggersAssumption, FS_CardinalityType
<1>14. Bounded'
  BY <1>4, <1>10, <1>13 DEF TriggersInv, Bounded
<1>15. queued' + Cardinality(Coming') + Cardinality(Unclaimed') <=
         Cardinality(Came') + Cardinality(Called')
  BY <1>1, <1>3, <1>8, <1>9, <1>10 DEF TriggersInv, Counted
<1>16. \A s \in Crons :
         Cardinality(JobsOf(s)') + Cardinality(ComingFor(s)') + (IF due'[s] THEN 1 ELSE 0)
           <= windows'[s]
  <2> SUFFICES ASSUME NEW s \in Crons
               PROVE  Cardinality(JobsOf(s)') + Cardinality(ComingFor(s)')
                        + (IF due'[s] THEN 1 ELSE 0) <= windows'[s]
    OBVIOUS
  <2>1. windows'[s] = windows[s] /\ windows[s] \in Nat
    BY <1>1, TriggersAssumption
  <2>2. Cardinality(JobsOf(s)) + Cardinality(ComingFor(s)) + (IF due[s] THEN 1 ELSE 0)
          <= windows[s]
    BY DEF TriggersInv, Counted
  <2>3. CASE s = t
    BY <1>1, <1>5, <1>11, <1>12, <2>1, <2>2, <2>3
  <2>4. CASE s # t
    BY <1>1, <1>5, <1>11, <2>1, <2>2, <2>4
  <2> QED
    BY <2>3, <2>4
<1> QED
  BY <1>14, <1>15, <1>16 DEF Counted

\* A worker passes the gate of a thread on which no schedule's job stands.
LEMMA AFiringIsAdmitted ==
  ASSUME TriggersInv, NEW w \in Workers, Triggers!Gate(w)
  PROVE  Counted' /\ Bounded'
<1>1. /\ at[w] = "gate" /\ UNCHANGED <<job, queued, due, windows>> /\ w \in Triggers!Firings
      /\ DOMAIN at = Triggers!Firings /\ DOMAIN fires = Triggers!Firings
  BY DEF Triggers!Gate, Triggers!clock, Triggers!Firings, TriggersInv, Triggers!TypeOK
<1>2. CASE Triggers!Busy
  <2>1. at' = [at EXCEPT ![w] = "claim"] /\ fires' = [fires EXCEPT ![w] = Triggers!None]
    BY <1>2 DEF Triggers!Gate, Triggers!Over, Triggers!Goto
  <2> QED
    BY <1>1, <2>1, CountsStay DEF Steps, Triggers!Firings
<1>3. CASE ~Triggers!Busy
  <2>1. at' = [at EXCEPT ![w] = "admit"] /\ fires' = fires
    BY <1>3 DEF Triggers!Gate, Triggers!Goto
  <2>2. Coming' = Coming /\ Unclaimed' = Unclaimed /\ Came' = Came /\ Called \subseteq Called'
    BY <1>1, <2>1 DEF Coming, Unclaimed, Came, Called, Steps, Triggers!Firings
  <2>3. \A t \in Crons : JobsOf(t)' = JobsOf(t) /\ ComingFor(t)' = ComingFor(t)
    BY <1>1, <2>1 DEF JobsOf, ComingFor, Steps, Triggers!Firings
  <2>4. Standing' = {} /\ Admitted' \subseteq Workers
    BY <1>1, <1>3 DEF Standing, Admitted, Triggers!Busy, Triggers!Unfinished
  <2>5. Cardinality(Standing') = 0 /\ Cardinality(Admitted') <= Cardinality(Workers)
        /\ Cardinality(Admitted') \in Nat /\ Cardinality(Workers) \in Nat
    BY <2>4, TriggersAssumption, Within, FS_EmptySet
  <2>6. /\ Cardinality(Called) <= Cardinality(Called') /\ Cardinality(Called) \in Nat
        /\ Cardinality(Called') \in Nat /\ Cardinality(Came) \in Nat
        /\ Cardinality(Coming) \in Nat /\ Cardinality(Unclaimed) \in Nat
    BY <2>2, TriggersAreFinite, Within, FS_CardinalityType
  <2>7. queued \in Nat
    BY TriggersAreFinite DEF TriggersInv, Triggers!TypeOK
  <2>8. queued' + Cardinality(Coming') + Cardinality(Unclaimed') <=
          Cardinality(Came') + Cardinality(Called')
    BY <1>1, <2>2, <2>6, <2>7 DEF TriggersInv, Counted
  <2> QED
    BY <1>1, <2>3, <2>5, <2>8 DEF Counted, Bounded, TriggersInv
<1> QED
  BY <1>2, <1>3

\* A call that comes may queue one job.
LEMMA ACallComes ==
  ASSUME TriggersInv, NEW c \in Triggers!Calls, NEW t \in Inbound, Triggers!CallReads(c, t)
  PROVE  Counted' /\ Bounded'
<1>1. /\ at[c] = "idle" /\ at'[c] \in {"admit", "answered"}
      /\ \A f \in Triggers!Firings \ {c} : at'[f] = at[f] /\ fires'[f] = fires[f]
      /\ UNCHANGED <<job, queued, due, windows>> /\ c \in Triggers!Firings /\ c \notin Workers
  BY TriggersAssumption DEF Triggers!CallReads, Triggers!Goto, Triggers!clock,
     Triggers!Firings,
     Triggers!Calls, TriggersInv, Triggers!TypeOK
<1>2. /\ Coming' \subseteq Coming \cup {c} /\ Unclaimed' = Unclaimed /\ Came' = Came
      /\ c \in Called' /\ Called \subseteq Called' \ {c}
  BY <1>1 DEF Coming, Unclaimed, Came, Called, Triggers!Firings
<1>3. Admitted' = Admitted /\ Standing' = Standing
  BY <1>1 DEF Admitted, Standing, Triggers!Unfinished, Triggers!Firings
<1>4. \A s \in Crons : JobsOf(s)' = JobsOf(s) /\ ComingFor(s)' = ComingFor(s)
  BY <1>1 DEF JobsOf, ComingFor, Triggers!Firings
<1>5. /\ Cardinality(Coming') <= Cardinality(Coming) + 1
      /\ Cardinality(Coming') \in Nat /\ Cardinality(Coming) \in Nat
  BY <1>2, TriggersAreFinite, OneMore
<1>6. /\ Cardinality(Called) + 1 <= Cardinality(Called')
      /\ Cardinality(Called') \in Nat /\ Cardinality(Called) \in Nat
  BY <1>2, TriggersAreFinite, OneLess
<1>7. Cardinality(Came) \in Nat /\ Cardinality(Unclaimed) \in Nat
  BY TriggersAreFinite, FS_CardinalityType
<1>8. queued \in Nat
  BY TriggersAreFinite DEF TriggersInv, Triggers!TypeOK
<1>9. queued' + Cardinality(Coming') + Cardinality(Unclaimed') <=
        Cardinality(Came') + Cardinality(Called')
  BY <1>1, <1>2, <1>5, <1>6, <1>7, <1>8 DEF TriggersInv, Counted
<1> QED
  BY <1>1, <1>3, <1>4, <1>9 DEF TriggersInv, Counted, Bounded

\* A firing that queues its job is none any more.
LEMMA AJobIsQueued ==
  ASSUME TriggersInv, NEW f \in Triggers!Firings, Triggers!InsertJob(f)
  PROVE  Counted' /\ Bounded'
<1>1. /\ at[f] = "insert" /\ at' = [at EXCEPT ![f] = "fired"] /\ queued' = queued + 1
      /\ job' = [job EXCEPT ![queued + 1] = [by |-> fires[f], status |-> "queued"]]
      /\ UNCHANGED <<due, windows, fires>>
      /\ DOMAIN at = Triggers!Firings /\ DOMAIN job = 1..Triggers!MaxJobs /\ queued \in Nat
  BY TriggersAreFinite
     DEF Triggers!InsertJob, Triggers!Goto, Triggers!clock, TriggersInv, Triggers!TypeOK
<1>2. /\ f \in Coming /\ Coming' \subseteq Coming \ {f}
      /\ Unclaimed' = Unclaimed /\ Came' = Came /\ Called \subseteq Called'
  BY <1>1 DEF Coming, Unclaimed, Came, Called, Steps, Triggers!Firings
<1>3. /\ Cardinality(Coming') + 1 <= Cardinality(Coming)
      /\ Cardinality(Coming') \in Nat /\ Cardinality(Coming) \in Nat
  BY <1>2, TriggersAreFinite, OneLess
<1>4. /\ Cardinality(Called) <= Cardinality(Called') /\ Cardinality(Called) \in Nat
      /\ Cardinality(Called') \in Nat /\ Cardinality(Came) \in Nat
      /\ Cardinality(Unclaimed) \in Nat
  BY <1>2, TriggersAreFinite, Within, FS_CardinalityType
<1>5. queued' + Cardinality(Coming') + Cardinality(Unclaimed') <=
        Cardinality(Came') + Cardinality(Called')
  BY <1>1, <1>2, <1>3, <1>4 DEF TriggersInv, Counted
<1>6. \A i \in 1..Triggers!MaxJobs : i # queued + 1 => job'[i] = job[i]
  BY <1>1
<1>7. job'[queued + 1].by = fires[f] \/ queued + 1 \notin 1..Triggers!MaxJobs
  BY <1>1
<1>8. ASSUME NEW t \in Crons
      PROVE  Cardinality(JobsOf(t)') + Cardinality(ComingFor(t)') + (IF due'[t] THEN 1 ELSE 0)
               <= windows'[t]
  <2>1. windows'[t] = windows[t] /\ due'[t] = due[t] /\ windows[t] \in Nat
    BY <1>1, TriggersAssumption DEF TriggersInv, Triggers!TypeOK
  <2>2. Cardinality(JobsOf(t)) + Cardinality(ComingFor(t)) + (IF due[t] THEN 1 ELSE 0)
          <= windows[t]
    BY DEF TriggersInv, Counted
  <2>3. CASE f \in Workers /\ fires[f] = t
    <3>1. JobsOf(t)' \subseteq JobsOf(t) \cup {queued + 1}
      BY <1>6 DEF JobsOf
    <3>2. f \in ComingFor(t) /\ ComingFor(t)' \subseteq ComingFor(t) \ {f}
      BY <1>1, <2>3 DEF ComingFor, Steps, Triggers!Firings
    <3>3. Cardinality(JobsOf(t)') <= Cardinality(JobsOf(t)) + 1
          /\ Cardinality(JobsOf(t)') \in Nat /\ Cardinality(JobsOf(t)) \in Nat
      BY <3>1, TriggersAreFinite, OneMore
    <3>4. Cardinality(ComingFor(t)') + 1 <= Cardinality(ComingFor(t))
          /\ Cardinality(ComingFor(t)') \in Nat /\ Cardinality(ComingFor(t)) \in Nat
      BY <3>2, TriggersAreFinite, OneLess
    <3> QED
      BY <2>1, <2>2, <3>3, <3>4
  <2>4. CASE ~(f \in Workers /\ fires[f] = t)
    <3>1. fires[f] # t
      BY <1>1, <2>4, TriggersAssumption DEF TriggersInv, Fired, Steps, Triggers!Firings
    <3>2. JobsOf(t)' \subseteq JobsOf(t)
      BY <1>6, <1>7, <3>1 DEF JobsOf
    <3>3. ComingFor(t)' \subseteq ComingFor(t)
      BY <1>1 DEF ComingFor, Steps, Triggers!Firings
    <3>4. Cardinality(JobsOf(t)') <= Cardinality(JobsOf(t))
          /\ Cardinality(JobsOf(t)') \in Nat /\ Cardinality(JobsOf(t)) \in Nat
          /\ Cardinality(ComingFor(t)') <= Cardinality(ComingFor(t))
          /\ Cardinality(ComingFor(t)') \in Nat /\ Cardinality(ComingFor(t)) \in Nat
      BY <3>2, <3>3, TriggersAreFinite, Within
    <3> QED
      BY <2>1, <2>2, <3>4
  <2> QED
    BY <2>3, <2>4
<1>9. Bounded'
  <2>1. Cardinality(Workers) \in Nat
    BY TriggersAssumption, FS_CardinalityType
  <2>2. CASE f \in Workers
    <3>1. Standing' \subseteq Standing \cup {queued + 1}
      BY <1>6 DEF Standing, Triggers!Unfinished
    <3>2. f \in Admitted /\ Admitted' \subseteq Admitted \ {f}
      BY <1>1, <2>2 DEF Admitted, Triggers!Firings
    <3>3. Cardinality(Standing') <= Cardinality(Standing) + 1
          /\ Cardinality(Standing') \in Nat /\ Cardinality(Standing) \in Nat
      BY <3>1, TriggersAreFinite, OneMore
    <3>4. Cardinality(Admitted') + 1 <= Cardinality(Admitted)
          /\ Cardinality(Admitted') \in Nat /\ Cardinality(Admitted) \in Nat
      BY <3>2, TriggersAreFinite, OneLess
    <3> QED
      BY <2>1, <3>3, <3>4 DEF TriggersInv, Bounded
  <2>3. CASE f \notin Workers
    <3>1. fires[f] \notin Crons
      BY <1>1, <2>3, TriggersAssumption DEF TriggersInv, Fired, Steps, Triggers!Firings
    <3>2. Standing' \subseteq Standing
      BY <1>6, <1>7, <3>1 DEF Standing, Triggers!Unfinished
    <3>3. Admitted' \subseteq Admitted
      BY <1>1 DEF Admitted, Triggers!Firings
    <3>4. Cardinality(Standing') <= Cardinality(Standing)
          /\ Cardinality(Standing') \in Nat /\ Cardinality(Standing) \in Nat
          /\ Cardinality(Admitted') <= Cardinality(Admitted)
          /\ Cardinality(Admitted') \in Nat /\ Cardinality(Admitted) \in Nat
      BY <3>2, <3>3, TriggersAreFinite, Within
    <3> QED
      BY <2>1, <3>4 DEF TriggersInv, Bounded
  <2> QED
    BY <2>2, <2>3
<1> QED
  BY <1>5, <1>8, <1>9 DEF Counted

\* A job of the thread is taken and finished.
LEMMA AJobMoves ==
  ASSUME TriggersInv, NEW i \in 1..Triggers!MaxJobs, Triggers!JobMoves(i)
  PROVE  Counted' /\ Bounded'
<1>1. /\ UNCHANGED <<queued, due, windows, at, fires>>
      /\ \A k \in 1..Triggers!MaxJobs :
           job'[k].by = job[k].by /\ (Triggers!Unfinished(k)' => Triggers!Unfinished(k))
  <2>1. /\ job \in [1..Triggers!MaxJobs -> [by : Triggers!Triggers \cup {"nobody"},
                                           status : {"none", "queued", "running", "done"}]]
        /\ UNCHANGED <<queued, due, windows, at, fires>>
    BY DEF Triggers!JobMoves, Triggers!clock, TriggersInv, Triggers!TypeOK
  <2>2. Triggers!Unfinished(i)
    BY DEF Triggers!JobMoves, Triggers!Claimable, Triggers!Unfinished
  <2>3. \/ job' = [job EXCEPT ![i].status = "running"]
        \/ job' = [job EXCEPT ![i].status = "done"]
    BY DEF Triggers!JobMoves
  <2>4. \A k \in 1..Triggers!MaxJobs : job'[k].by = job[k].by /\ (k # i => job'[k] = job[k])
    <3>1. PICK s \in {"running", "done"} :
                 job' = [job EXCEPT ![i] = [job[i] EXCEPT !.status = s]]
      BY <2>3
    <3> DEFINE new == [job[i] EXCEPT !.status = s]
    <3>2. job[i] \in [by : Triggers!Triggers \cup {"nobody"},
                     status : {"none", "queued", "running", "done"}]
      BY <2>1
    <3>3. new.by = job[i].by
      BY <3>2
    <3>4. job' = [job EXCEPT ![i] = new] /\ DOMAIN job = 1..Triggers!MaxJobs
      BY <2>1, <3>1
    <3> HIDE DEF new
    <3> QED
      BY <3>3, <3>4
  <2> QED
    BY <2>1, <2>2, <2>4 DEF Triggers!Unfinished
<1>2. Coming' = Coming /\ Unclaimed' = Unclaimed /\ Came' = Came /\ Called' = Called
  BY <1>1 DEF Coming, Unclaimed, Came, Called
<1>3. \A t \in Crons : JobsOf(t)' = JobsOf(t) /\ ComingFor(t)' = ComingFor(t)
  BY <1>1 DEF JobsOf, ComingFor
<1>4. Admitted' = Admitted /\ Standing' \subseteq Standing
  BY <1>1 DEF Admitted, Standing
<1>5. /\ Cardinality(Standing') <= Cardinality(Standing) /\ Cardinality(Standing') \in Nat
      /\ Cardinality(Standing) \in Nat /\ Cardinality(Admitted) \in Nat
      /\ Cardinality(Workers) \in Nat
  BY <1>4, TriggersAreFinite, TriggersAssumption, Within, FS_CardinalityType
<1> QED
  BY <1>1, <1>2, <1>3, <1>4, <1>5 DEF TriggersInv, Counted, Bounded

\* Whatever is done, the counts stand.
LEMMA TriggersInvStands ==
  ASSUME TriggersInv, [Triggers!Next]_triggers
  PROVE  TriggersInv'
<1>1. Triggers!TypeOK' /\ Fired'
  BY TriggersTypesAreKept
<1>2. Counted' /\ Bounded'
  <2> USE DEF Steps, Triggers!clock, Triggers!rest, Triggers!Firings
  <2>1. /\ DOMAIN at = Triggers!Firings /\ DOMAIN fires = Triggers!Firings
        /\ \A c \in Triggers!Calls : c \notin Workers
    BY TriggersAssumption DEF TriggersInv, Triggers!TypeOK, Triggers!Calls
  <2>2. ASSUME NEW t \in Triggers!Triggers, Triggers!SetEnabled(t) \/ Triggers!Remove(t)
        PROVE  Counted' /\ Bounded'
    BY <2>2, CountsStay DEF Triggers!SetEnabled, Triggers!Remove
  <2>3. ASSUME NEW w \in Workers, Triggers!TickBegins(w) \/ Triggers!TickEnds(w)
        PROVE  Counted' /\ Bounded'
    BY <2>1, <2>3, CountsStay DEF Triggers!TickBegins, Triggers!TickEnds, Triggers!Goto
  <2>4. ASSUME NEW w \in Workers, Triggers!SelectRow(w)
        PROVE  Counted' /\ Bounded'
    BY <2>1, <2>4, CountsStay DEF Triggers!SelectRow, Triggers!Goto
  <2>5. ASSUME NEW f \in Triggers!Firings, Triggers!Admit(f)
        PROVE  Counted' /\ Bounded'
    BY <2>1, <2>5, CountsStay DEF Triggers!Admit, Triggers!Goto
  <2>6. ASSUME NEW f \in Triggers!Firings, Triggers!Record(f)
        PROVE  Counted' /\ Bounded'
    BY <2>1, <2>6, CountsStay DEF Triggers!Record, Triggers!Over, Triggers!Goto
  <2>7. ASSUME NEW f \in Triggers!Firings, Triggers!Dies(f)
        PROVE  Counted' /\ Bounded'
    BY <2>1, <2>7, CountsStay DEF Triggers!Dies, Triggers!Goto
  <2>8. CASE UNCHANGED triggers
    BY <2>8, CountsStay DEF triggers
  <2> HIDE DEF Steps, Triggers!clock, Triggers!rest, Triggers!Firings
  <2> QED
    BY <2>2, <2>3, <2>4, <2>5, <2>6, <2>7, <2>8, AWindowComes, AWindowIsClaimed,
       AFiringIsAdmitted, ACallComes, AJobIsQueued, AJobMoves DEF Triggers!Next
<1> QED
  BY <1>1, <1>2 DEF TriggersInv

\* Nothing is due, queued or fired at first.
LEMMA TriggersInvBegins ==
  ASSUME Triggers!Init
  PROVE  TriggersInv
<1> USE TriggersAssumption DEF Triggers!Init
<1>1. Triggers!MaxJobs \in Nat
  BY TriggersAreFinite
<1>2. Triggers!TypeOK
  BY <1>1 DEF Triggers!TypeOK, Triggers!Nothing
<1>3. Fired
  BY DEF Fired, Steps, Triggers!Firings
<1>4. /\ Coming = {} /\ Unclaimed = {} /\ Standing = {} /\ Admitted = {}
      /\ \A t \in Crons : JobsOf(t) = {} /\ ComingFor(t) = {}
  BY DEF Coming, Unclaimed, Standing, Admitted, JobsOf, ComingFor, Steps, Triggers!Unfinished,
     Triggers!Nothing, Triggers!Firings
<1>5. /\ Cardinality(Came) \in Nat /\ Cardinality(Called) \in Nat
      /\ Cardinality(Workers) \in Nat
  BY TriggersAreFinite, FS_CardinalityType
<1>8. Cardinality({}) = 0
  BY FS_EmptySet
<1>6. Counted
  <2>1. /\ queued = 0 /\ Cardinality(Coming) = 0 /\ Cardinality(Unclaimed) = 0
        /\ \A t \in Crons : Cardinality(JobsOf(t)) = 0 /\ Cardinality(ComingFor(t)) = 0
    BY <1>4, <1>8
  <2>2. \A t \in Crons : windows[t] = 0 /\ ~due[t]
    OBVIOUS
  <2>3. \A t \in Crons :
          Cardinality(JobsOf(t)) + Cardinality(ComingFor(t)) + (IF due[t] THEN 1 ELSE 0)
            <= windows[t]
    BY <2>1, <2>2
  <2>4. queued + Cardinality(Coming) + Cardinality(Unclaimed)
          <= Cardinality(Came) + Cardinality(Called)
    BY <2>1, <1>5
  <2> QED
    BY <2>3, <2>4 DEF Counted
<1>7. Bounded
  BY <1>4, <1>5, FS_EmptySet DEF Bounded
<1> QED
  BY <1>2, <1>3, <1>6, <1>7 DEF TriggersInv

\* However many workers tick, and whenever one dies, a window of a schedule queues one
\* job at most, and the thread has no more of them unfinished than there are workers
\* (jobs/triggers.ts, CLAIM_DUE_CRON_SQL and hasUnfinishedOnThread).
THEOREM SchedulesFireOnce == Triggers!Spec => []StandingFires
<1>1. TriggersInv => StandingFires
  <2> SUFFICES ASSUME TriggersInv
               PROVE  StandingFires
    OBVIOUS
  <2>1. Triggers!OneFirePerWindow
    <3> SUFFICES ASSUME NEW t \in Crons
                 PROVE  Cardinality(JobsOf(t)) <= windows[t]
      BY TriggersCardinality DEF Triggers!OneFirePerWindow, JobsOf
    <3>1. Cardinality(JobsOf(t)) \in Nat /\ Cardinality(ComingFor(t)) \in Nat
      BY TriggersAreFinite, FS_CardinalityType
    <3>2. windows[t] \in Nat
      BY TriggersAssumption DEF TriggersInv, Triggers!TypeOK
    <3> QED
      BY <3>1, <3>2 DEF TriggersInv, Counted
  <2>2. Triggers!StandingJobsAreBounded
    <3>1. Cardinality(Standing) <= Cardinality(Workers)
      <4>1. /\ Cardinality(Standing) \in Nat /\ Cardinality(Admitted) \in Nat
            /\ Cardinality(Workers) \in Nat
        BY TriggersAreFinite, TriggersAssumption, FS_CardinalityType
      <4> QED
        BY <4>1 DEF TriggersInv, Bounded
    <3> QED
      BY <3>1, TriggersCardinality DEF Triggers!StandingJobsAreBounded, Standing
  <2> QED
    BY <2>1, <2>2 DEF StandingFires, Triggers!StandingFires, TriggersInv
<1>2. TriggersInv /\ [Triggers!Next]_triggers => TriggersInv'
  BY TriggersInvStands
<1>3. Triggers!Init => TriggersInv
  BY TriggersInvBegins
<1> QED
  BY <1>1, <1>2, <1>3, PTL DEF Triggers!Spec, Triggers!vars, triggers

-----------------------------------------------------------------------------
(* Who pays for one.                                                       *)

\* The requests that have counted and not owned yet, and the webhooks at work.
Creating == {c \in Creates : create[c].pc # "idle"}
AtWork(w) == hook[w].pc # "idle"

\* A request that is under way found nothing free; what a webhook makes is not free.
FreeOnes ==
  /\ Cardinality(FreelyOwned) + Cardinality(Creating) <= Cardinality(Creates)
  /\ \A w \in Hooks :
       hook[w].pc = "made" => hook[w].org \in 1..made /\ orgs[hook[w].org].from = "hook"

\* A plan is paid while its row carries the subscription; a webhook applies one of
\* Stripe's events; a subscription changes and ends only after it began.
PaidOnes ==
  /\ \A o \in Orgs : orgs[o].plan = "paid" <=> orgs[o].sub
  /\ Subscribed \subseteq 1..made
  /\ \A w \in Hooks :
       /\ AtWork(w) => hook[w].event \in Events /\ events[hook[w].event] # "none"
       /\ hook[w].pc = "made" => hook[w].event = "completed"
       /\ hook[w].pc = "found" => /\ hook[w].event \in {"updated", "deleted"}
                                  /\ hook[w].org \in 1..made
  /\ events["updated"] # "none" \/ events["deleted"] # "none" => events["completed"] # "none"

\* Webhooks one at a time and in order: one row carries the subscription, once its
\* checkout is at work or answered, and none when its end is.
OneByOne ==
  /\ \A v, w \in Hooks : AtWork(v) /\ AtWork(w) => v = w
  /\ \A o, p \in Subscribed : o = p
  /\ \A o \in Subscribed :
       \/ events["completed"] = "answered"
       \/ \E w \in Hooks : hook[w].pc = "made"
  /\ \A w \in Hooks :
       /\ AtWork(w) /\ hook[w].event = "completed" => events["completed"] = "pending"
       /\ AtWork(w) /\ hook[w].event = "deleted" => events["completed"] = "answered"
       /\ hook[w].pc = "found" => hook[w].org \in Subscribed
  /\ events["deleted"] = "answered" => events["completed"] = "answered" /\ Subscribed = {}

BillingInv == TypeOK /\ FreeOnes /\ PaidOnes /\ (~jumbled => OneByOne)


AnOrg == [plan : {"none", "free", "paid"}, sub : BOOLEAN, owned : BOOLEAN,
          from : {"none", "post", "hook"}]
ACreate == [pc : {"idle", "counted", "made"}, org : 0..MaxOrgs]
AHook == [pc : {"idle", "received", "made", "found"}, event : Events \union {"none"},
          org : 0..MaxOrgs]

\* Rows, requests and webhooks keep their types.
LEMMA BillingTypesAreKept ==
  ASSUME TypeOK, [Next]_vars
  PROVE  TypeOK'
<1> USE CheckoutAssumption DEF Orgs, IdleCall, IdleHook
<1>a. /\ orgs \in [Orgs -> AnOrg] /\ create \in [Creates -> ACreate]
           /\ hook \in [Hooks -> AHook]
      /\ events \in [Events -> {"none", "pending", "answered"}]
      /\ made \in 0..MaxOrgs /\ jumbled \in BOOLEAN
  BY DEF TypeOK, AnOrg, ACreate, AHook
<1>b. ASSUME /\ orgs' \in [Orgs -> AnOrg] /\ create' \in [Creates -> ACreate]
             /\ hook' \in [Hooks -> AHook]
             /\ events' \in [Events -> {"none", "pending", "answered"}]
             /\ made' \in 0..MaxOrgs /\ jumbled' \in BOOLEAN
      PROVE  TypeOK'
  BY <1>b DEF TypeOK, AnOrg, ACreate, AHook
<1>c. IdleCall \in ACreate /\ IdleHook \in AHook
  BY DEF ACreate, AHook
<1>d. \A o \in AnOrg : /\ [o EXCEPT !.owned = TRUE] \in AnOrg
                       /\ [o EXCEPT !.plan = "free", !.sub = FALSE] \in AnOrg
                       /\ [o EXCEPT !.plan = "paid", !.sub = TRUE] \in AnOrg
  BY DEF AnOrg
<1>f. \A h \in AHook : \A o \in 0..MaxOrgs :
        /\ [h EXCEPT !.pc = "made", !.org = o] \in AHook
        /\ [h EXCEPT !.pc = "found", !.org = o] \in AHook
  <2> DEFINE N == 0..MaxOrgs  E == Events \union {"none"}
  <2>1. AHook = [pc : {"idle", "received", "made", "found"}, event : E, org : N]
    BY DEF AHook
  <2> HIDE DEF N, E
  <2>2. \A h \in AHook : \A o \in N :
          /\ [h EXCEPT !.pc = "made", !.org = o] \in AHook
          /\ [h EXCEPT !.pc = "found", !.org = o] \in AHook
    BY <2>1
  <2> QED
    BY <2>2 DEF N
<1>e. /\ [plan |-> "free", sub |-> FALSE, owned |-> FALSE, from |-> "post"] \in AnOrg
      /\ [plan |-> "paid", sub |-> TRUE, owned |-> FALSE, from |-> "hook"] \in AnOrg
  BY DEF AnOrg
<1>1. ASSUME NEW c \in Creates, CreateCounts(c)
      PROVE  TypeOK'
  <2> DEFINE new == [create[c] EXCEPT !.pc = "counted"]
  <2>1. create[c] \in ACreate
    BY <1>a
  <2>2. new \in ACreate
    BY <2>1 DEF ACreate
  <2>3. create' = [create EXCEPT ![c] = new]
    BY <1>1 DEF CreateCounts
  <2> HIDE DEF new
  <2>4. create' \in [Creates -> ACreate]
    BY <1>a, <2>2, <2>3
  <2> QED
    BY <1>1, <1>a, <1>b, <2>4 DEF CreateCounts
<1>2. ASSUME NEW c \in Creates, CreateMakes(c)
      PROVE  TypeOK'
  <2>1. made + 1 \in 1..MaxOrgs /\ made' = made + 1
    BY <1>2, <1>a DEF CreateMakes
  <2>2. [pc |-> "made", org |-> made + 1] \in ACreate
    BY <2>1 DEF ACreate
  <2>3. create' \in [Creates -> ACreate]
    BY <1>2, <1>a, <2>2 DEF CreateMakes
  <2>4. orgs' \in [Orgs -> AnOrg]
    BY <1>2, <1>a, <1>e DEF CreateMakes
  <2> QED
    BY <1>2, <1>a, <1>b, <2>1, <2>3, <2>4 DEF CreateMakes
<1>3. ASSUME NEW c \in Creates, CreateOwns(c)
      PROVE  TypeOK'
  <2>1. orgs' \in [Orgs -> AnOrg]
    BY <1>3, <1>a, <1>d DEF CreateOwns
  <2>2. create' \in [Creates -> ACreate]
    BY <1>3, <1>a, <1>c DEF CreateOwns
  <2> QED
    BY <1>3, <1>a, <1>b, <2>1, <2>2 DEF CreateOwns
<1>4. ASSUME NEW c \in Creates, CreateDies(c)
      PROVE  TypeOK'
  <2>1. create' \in [Creates -> ACreate]
    BY <1>4, <1>a, <1>c DEF CreateDies
  <2> QED
    BY <1>4, <1>a, <1>b, <2>1 DEF CreateDies
<1>5. ASSUME StripeEmits
      PROVE  TypeOK'
  <2>1. events' \in [Events -> {"none", "pending", "answered"}]
    BY <1>5, <1>a DEF StripeEmits, Events
  <2> QED
    BY <1>5, <1>a, <1>b, <2>1 DEF StripeEmits
<1>6. ASSUME NEW w \in Hooks, NEW e \in Events, Deliver(w, e)
      PROVE  TypeOK'
  <2>1. [pc |-> "received", event |-> e, org |-> 0] \in AHook
    BY DEF AHook
  <2>2. hook' \in [Hooks -> AHook]
    BY <1>6, <1>a, <2>1 DEF Deliver
  <2>3. jumbled' \in BOOLEAN
    BY <1>6, Zenon DEF Deliver
  <2> QED
    BY <1>6, <1>a, <1>b, <2>2, <2>3 DEF Deliver
<1>7. ASSUME NEW w \in Hooks, HookMakes(w)
      PROVE  TypeOK'
  <2> DEFINE new == [hook[w] EXCEPT !.pc = "made", !.org = made + 1]
  <2>1. made + 1 \in 1..MaxOrgs /\ made' = made + 1
    BY <1>7, <1>a DEF HookMakes
  <2>2. hook[w] \in AHook
    BY <1>a
  <2>3. new \in AHook
    <3>1. made + 1 \in 0..MaxOrgs
      BY <2>1
    <3> QED
      BY <3>1, <2>2, <1>f, Zenon
  <2>4. hook' = [hook EXCEPT ![w] = new]
    BY <1>7, <1>a DEF HookMakes
  <2> HIDE DEF new
  <2>5. hook' \in [Hooks -> AHook]
    BY <1>a, <2>3, <2>4
  <2>6. orgs' \in [Orgs -> AnOrg]
    BY <1>7, <1>a, <1>e DEF HookMakes
  <2> QED
    BY <1>7, <1>a, <1>b, <2>1, <2>5, <2>6 DEF HookMakes
<1>8. ASSUME NEW w \in Hooks, Answer(w)
      PROVE  /\ hook' \in [Hooks -> AHook]
             /\ events' \in [Events -> {"none", "pending", "answered"}]
  BY <1>8, <1>a, <1>c DEF Answer
<1>9. ASSUME NEW w \in Hooks, HookOwns(w)
      PROVE  TypeOK'
  <2>1. orgs' \in [Orgs -> AnOrg]
    BY <1>9, <1>a, <1>d DEF HookOwns
  <2> QED
    BY <1>9, <1>8, <1>a, <1>b, <2>1 DEF HookOwns
<1>10. ASSUME NEW w \in Hooks, HookFinds(w)
       PROVE  TypeOK'
  <2>1. PICK o \in Subscribed : hook' = [hook EXCEPT ![w].pc = "found", ![w].org = o]
    BY <1>10 DEF HookFinds
  <2> DEFINE new == [hook[w] EXCEPT !.pc = "found", !.org = o]
  <2>2. hook[w] \in AHook /\ o \in 1..MaxOrgs
    BY <1>a DEF Subscribed
  <2>3. new \in AHook
    <3>1. o \in 0..MaxOrgs
      BY <2>2
    <3> QED
      BY <3>1, <2>2, <1>f, Zenon
  <2>4. hook' = [hook EXCEPT ![w] = new]
    BY <2>1, <1>a
  <2> HIDE DEF new
  <2>5. hook' \in [Hooks -> AHook]
    BY <1>a, <2>3, <2>4
  <2> QED
    BY <1>10, <1>a, <1>b, <2>5 DEF HookFinds
<1>11. ASSUME NEW w \in Hooks, HookDrops(w)
       PROVE  TypeOK'
  BY <1>11, <1>8, <1>a, <1>b DEF HookDrops
<1>12. ASSUME NEW w \in Hooks, HookBills(w)
       PROVE  TypeOK'
  <2>1. orgs' \in [Orgs -> AnOrg]
    BY <1>12, <1>a, <1>d DEF HookBills, Billed
  <2> QED
    BY <1>12, <1>8, <1>a, <1>b, <2>1 DEF HookBills
<1>13. ASSUME NEW w \in Hooks, HookDies(w)
       PROVE  TypeOK'
  <2>1. /\ hook' \in [Hooks -> AHook]
        /\ events' \in [Events -> {"none", "pending", "answered"}]
    BY <1>13, <1>a, <1>c DEF HookDies
  <2> QED
    BY <1>13, <1>a, <1>b, <2>1 DEF HookDies
<1>14. CASE UNCHANGED vars
  BY <1>14 DEF vars, TypeOK
<1> QED
  BY <1>1, <1>2, <1>3, <1>4, <1>5, <1>6, <1>7, <1>9, <1>10, <1>11, <1>12, <1>13, <1>14
     DEF Next


\* What is written of a workspace or a webhook.
OwnedRow(k) == [orgs EXCEPT ![k].owned = TRUE]
HookAt(w, l, k) == [hook EXCEPT ![w].pc = l, ![w].org = k]

\* What is written of a workspace, and what stands.
LEMMA RowsAsOwned ==
  ASSUME TypeOK, NEW k, orgs' = OwnedRow(k)
  PROVE  \A o \in Orgs : /\ orgs'[o].plan = orgs[o].plan /\ orgs'[o].sub = orgs[o].sub
                         /\ orgs'[o].from = orgs[o].from
                         /\ o # k => orgs'[o].owned = orgs[o].owned
<1>1. orgs \in [Orgs -> AnOrg]
  BY DEF TypeOK, AnOrg
<1>2. SUFFICES ASSUME NEW o \in Orgs
               PROVE  /\ orgs'[o].plan = orgs[o].plan /\ orgs'[o].sub = orgs[o].sub
                      /\ orgs'[o].from = orgs[o].from
                      /\ o # k => orgs'[o].owned = orgs[o].owned
  OBVIOUS
<1>3. CASE o = k
  <2>1. orgs'[o] = [orgs[o] EXCEPT !.owned = TRUE]
    BY <1>1, <1>3 DEF OwnedRow
  <2>2. orgs[o] \in AnOrg
    BY <1>1
  <2> QED
    BY <1>3, <2>1, <2>2 DEF AnOrg
<1>4. CASE o # k
  <2>1. orgs'[o] = orgs[o]
    BY <1>1, <1>4 DEF OwnedRow
  <2> QED
    BY <2>1
<1> QED
  BY <1>3, <1>4

\* What an event makes of a row: its plan and its subscription, and nothing else of it.
LEMMA ARowAsBilled ==
  ASSUME NEW r \in AnOrg, NEW e
  PROVE  /\ Billed(r, e).owned = r.owned /\ Billed(r, e).from = r.from
         /\ e = "deleted" => Billed(r, e).plan = "free" /\ ~Billed(r, e).sub
         /\ e # "deleted" => Billed(r, e).plan = "paid" /\ Billed(r, e).sub
<1>1. CASE e = "deleted"
  <2>1. PICK s : s = [r EXCEPT !.plan = "free", !.sub = FALSE]
    OBVIOUS
  <2>2. s.plan = "free" /\ s.sub = FALSE
    BY <2>1 DEF AnOrg
  <2>3. s.owned = r.owned
    BY <2>1 DEF AnOrg
  <2>4. s.from = r.from
    BY <2>1 DEF AnOrg
  <2>5. Billed(r, e) = s
    BY <1>1, <2>1 DEF Billed
  <2> QED
    BY <1>1, <2>2, <2>3, <2>4, <2>5
<1>2. CASE e # "deleted"
  <2>1. PICK s : s = [r EXCEPT !.plan = "paid", !.sub = TRUE]
    OBVIOUS
  <2>2. s.plan = "paid" /\ s.sub = TRUE
    BY <2>1 DEF AnOrg
  <2>3. s.owned = r.owned
    BY <2>1 DEF AnOrg
  <2>4. s.from = r.from
    BY <2>1 DEF AnOrg
  <2>5. Billed(r, e) = s
    BY <1>2, <2>1 DEF Billed
  <2> QED
    BY <1>2, <2>2, <2>3, <2>4, <2>5
<1> QED
  BY <1>1, <1>2

\* An event makes that of one row, and the others are as they were.
LEMMA RowsAsBilled ==
  ASSUME TypeOK, NEW k, NEW e, orgs' = [orgs EXCEPT ![k] = Billed(@, e)]
  PROVE  \A o \in Orgs : /\ orgs'[o].owned = orgs[o].owned /\ orgs'[o].from = orgs[o].from
                         /\ o # k => orgs'[o] = orgs[o]
                         /\ o = k /\ e = "deleted" => orgs'[o].plan = "free" /\ ~orgs'[o].sub
                         /\ o = k /\ e # "deleted" => orgs'[o].plan = "paid" /\ orgs'[o].sub
<1>1. orgs \in [Orgs -> AnOrg]
  BY DEF TypeOK, AnOrg
<1>2. SUFFICES ASSUME NEW o \in Orgs
               PROVE  /\ orgs'[o].owned = orgs[o].owned /\ orgs'[o].from = orgs[o].from
                      /\ o # k => orgs'[o] = orgs[o]
                      /\ o = k /\ e = "deleted" => orgs'[o].plan = "free" /\ ~orgs'[o].sub
                      /\ o = k /\ e # "deleted" => orgs'[o].plan = "paid" /\ orgs'[o].sub
  OBVIOUS
<1>3. CASE o = k
  <2>1. orgs'[o] = Billed(orgs[o], e)
    BY <1>1, <1>3
  <2>2. orgs[o] \in AnOrg
    BY <1>1
  <2> QED
    BY <1>3, <2>1, <2>2, ARowAsBilled
<1>4. CASE o # k
  <2>1. orgs'[o] = orgs[o]
    BY <1>1, <1>4
  <2> QED
    BY <1>4, <2>1
<1> QED
  BY <1>3, <1>4

\* A workspace that is made is the next one, and nobody owns it yet.
LEMMA RowsAsMade ==
  ASSUME TypeOK, NEW r \in AnOrg, orgs' = [orgs EXCEPT ![made + 1] = r], made < MaxOrgs
  PROVE  /\ made + 1 \in Orgs /\ orgs'[made + 1] = r /\ made \in Nat
         /\ \A o \in Orgs : o # made + 1 => orgs'[o] = orgs[o]
BY CheckoutAssumption DEF TypeOK, Orgs

\* What is free is counted with what is on its way.
LEMMA FreeCountsStay ==
  ASSUME TypeOK, FreeOnes,
         \/ FreelyOwned' \subseteq FreelyOwned /\ Creating' \subseteq Creating
         \/ FreelyOwned' = {}
         \/ \E c \in Creating : /\ \E k : FreelyOwned' \subseteq FreelyOwned \cup {k}
                                /\ Creating' \subseteq Creating \ {c}
  PROVE  Cardinality(FreelyOwned') + Cardinality(Creating') <= Cardinality(Creates)
<1>1. /\ IsFiniteSet(FreelyOwned) /\ IsFiniteSet(FreelyOwned')
      /\ IsFiniteSet(Creating) /\ IsFiniteSet(Creating')
  <2>1. IsFiniteSet(Orgs)
    BY CheckoutAssumption, FS_Interval DEF Orgs
  <2> QED
    BY <2>1, CheckoutAssumption, FS_Subset DEF FreelyOwned, Creating
<1>2. /\ Cardinality(Creates) \in Nat /\ Cardinality(Creating') \in Nat
      /\ Cardinality(Creating') <= Cardinality(Creates)
  BY CheckoutAssumption, Within DEF Creating
<1>3. CASE FreelyOwned' \subseteq FreelyOwned /\ Creating' \subseteq Creating
  <2>1. /\ Cardinality(FreelyOwned') <= Cardinality(FreelyOwned)
        /\ Cardinality(FreelyOwned') \in Nat /\ Cardinality(FreelyOwned) \in Nat
        /\ Cardinality(Creating') <= Cardinality(Creating) /\ Cardinality(Creating) \in Nat
    BY <1>1, <1>3, Within
  <2> QED
    BY <1>2, <2>1 DEF FreeOnes
<1>4. CASE FreelyOwned' = {}
  <2>1. Cardinality(FreelyOwned') = 0
    BY <1>4, FS_EmptySet
  <2> QED
    BY <1>2, <2>1
<1>5. ASSUME NEW c \in Creating, NEW k, FreelyOwned' \subseteq FreelyOwned \cup {k},
             Creating' \subseteq Creating \ {c}
      PROVE  Cardinality(FreelyOwned') + Cardinality(Creating') <= Cardinality(Creates)
  <2>1. /\ Cardinality(FreelyOwned') <= Cardinality(FreelyOwned) + 1
        /\ Cardinality(FreelyOwned') \in Nat /\ Cardinality(FreelyOwned) \in Nat
    BY <1>1, <1>5, OneMore
  <2>2. Cardinality(Creating') + 1 <= Cardinality(Creating) /\ Cardinality(Creating) \in Nat
    BY <1>1, <1>5, OneLess
  <2> QED
    BY <1>2, <2>1, <2>2 DEF FreeOnes
<1> QED
  BY <1>3, <1>4, <1>5


\* A webhook goes on, or is over, and the others are where they were.
LEMMA HookGoesOn ==
  ASSUME TypeOK, NEW w \in Hooks, NEW l, NEW k,
         hook' = HookAt(w, l, k)
  PROVE  /\ hook'[w].pc = l /\ hook'[w].org = k /\ hook'[w].event = hook[w].event
         /\ \A v \in Hooks : v # w => hook'[v] = hook[v]
<1>1. PICK n : n = [hook[w] EXCEPT !.pc = l, !.org = k]
  OBVIOUS
<1>2. hook \in [Hooks -> AHook]
  BY DEF TypeOK, AHook
<1>3. hook' = [hook EXCEPT ![w] = n]
  BY <1>1, <1>2 DEF HookAt
<1>4. hook'[w] = n /\ \A v \in Hooks : v # w => hook'[v] = hook[v]
  BY <1>2, <1>3
<1>5. hook[w] \in AHook
  BY <1>2
<1>6. n.pc = l /\ n.org = k
  BY <1>1, <1>5 DEF AHook
<1>7. n.event = hook[w].event
  BY <1>1, <1>5 DEF AHook
<1> QED
  BY <1>4, <1>6, <1>7

\* A webhook that is over is idle, and the others are as they were.
LEMMA HookIsOver ==
  ASSUME TypeOK, NEW w \in Hooks, hook' = [hook EXCEPT ![w] = IdleHook]
  PROVE  hook'[w].pc = "idle" /\ \A v \in Hooks : v # w => hook'[v] = hook[v]
BY DEF TypeOK, IdleHook

\* No step makes more workspaces free than requests have counted.
LEMMA FreeOnesStay ==
  ASSUME TypeOK, FreeOnes, PaidOnes, [Next]_vars
  PROVE  FreeOnes'
<1>a. /\ orgs \in [Orgs -> AnOrg] /\ create \in [Creates -> ACreate]
           /\ hook \in [Hooks -> AHook]
      /\ made \in Nat /\ MaxOrgs \in Nat /\ Orgs = 1..MaxOrgs
  BY CheckoutAssumption DEF TypeOK, AnOrg, ACreate, AHook, Orgs
<1>b. \A w \in Hooks : hook[w].pc = "made" => hook[w].org \in 1..made
                                              /\ orgs[hook[w].org].from = "hook"
  BY DEF FreeOnes
<1>c. made \in 0..MaxOrgs
  BY DEF TypeOK
<1>1. ASSUME NEW c \in Creates, CreateCounts(c)
      PROVE  FreeOnes'
  <2>1. FreelyOwned = {}
    <3>1. {o \in Orgs : orgs[o].owned} = {}
      <4>1. IsFiniteSet({o \in Orgs : orgs[o].owned})
        BY <1>a, FS_Interval, FS_Subset
      <4>2. Cardinality({o \in Orgs : orgs[o].owned}) < 1
        BY <1>1 DEF CreateCounts, MayCreate, Owned
      <4> QED
        BY <4>1, <4>2, FS_EmptySet, FS_CardinalityType
    <3> QED
      BY <3>1 DEF FreelyOwned
  <2>2. UNCHANGED <<orgs, hook, made>>
    BY <1>1 DEF CreateCounts
  <2>3. FreelyOwned' = {}
    BY <2>1, <2>2 DEF FreelyOwned
  <2> QED
    BY <1>b, <2>2, <2>3, FreeCountsStay DEF FreeOnes
<1>2. ASSUME NEW c \in Creates, CreateMakes(c)
      PROVE  FreeOnes'
  <2> DEFINE r == [plan |-> "free", sub |-> FALSE, owned |-> FALSE, from |-> "post"]
  <2>1. /\ r \in AnOrg /\ orgs' = [orgs EXCEPT ![made + 1] = r] /\ made < MaxOrgs
        /\ create[c].pc = "counted"
             /\ create' = [create EXCEPT ![c] = [pc |-> "made", org |-> made + 1]]
        /\ made' = made + 1 /\ hook' = hook
    BY <1>2 DEF CreateMakes, AnOrg
  <2>2. ~r.owned
    OBVIOUS
  <2> HIDE DEF r
  <2>3. /\ made + 1 \in Orgs /\ orgs'[made + 1] = r
        /\ \A o \in Orgs : o # made + 1 => orgs'[o] = orgs[o]
    BY <2>1, RowsAsMade
  <2>4. FreelyOwned' \subseteq FreelyOwned
    BY <2>2, <2>3 DEF FreelyOwned
  <2>5. Creating' \subseteq Creating
    BY <1>a, <2>1 DEF Creating
  <2>6. \A w \in Hooks : hook'[w].pc = "made" => hook'[w].org \in 1..made'
                                                 /\ orgs'[hook'[w].org].from = "hook"
    BY <1>a, <1>b, <1>c, <2>1, <2>3
  <2> QED
    BY <2>4, <2>5, <2>6, FreeCountsStay DEF FreeOnes
<1>3. ASSUME NEW c \in Creates, CreateOwns(c)
      PROVE  FreeOnes'
  <2>1. /\ orgs' = [orgs EXCEPT ![create[c].org].owned = TRUE] /\ create[c].pc = "made"
        /\ create' = [create EXCEPT ![c] = IdleCall] /\ UNCHANGED <<hook, made>>
    BY <1>3 DEF CreateOwns
  <2>2. \A o \in Orgs : /\ orgs'[o].from = orgs[o].from
                        /\ o # create[c].org => orgs'[o].owned = orgs[o].owned
    <3>1. orgs' = OwnedRow(create[c].org)
      BY <2>1 DEF OwnedRow
    <3> QED
      BY <3>1, RowsAsOwned
  <2>3. FreelyOwned' \subseteq FreelyOwned \cup {create[c].org}
    BY <2>2 DEF FreelyOwned
  <2>4. c \in Creating /\ Creating' \subseteq Creating \ {c}
    BY <1>a, <2>1 DEF Creating, IdleCall
  <2>5. \A w \in Hooks : hook'[w].pc = "made" => hook'[w].org \in 1..made'
                                                 /\ orgs'[hook'[w].org].from = "hook"
    BY <1>a, <1>b, <1>c, <2>1, <2>2
  <2> QED
    BY <2>3, <2>4, <2>5, FreeCountsStay DEF FreeOnes
<1>4. ASSUME NEW c \in Creates, CreateDies(c)
      PROVE  FreeOnes'
  <2>1. create' = [create EXCEPT ![c] = IdleCall] /\ UNCHANGED <<orgs, hook, made>>
    BY <1>4 DEF CreateDies
  <2>2. Creating' \subseteq Creating /\ FreelyOwned' = FreelyOwned
    BY <1>a, <2>1 DEF Creating, IdleCall, FreelyOwned
  <2> QED
    BY <1>b, <2>1, <2>2, FreeCountsStay DEF FreeOnes
<1>5. ASSUME UNCHANGED <<orgs, create, made>>,
             \A v \in Hooks : hook'[v].pc = "made" => hook'[v] = hook[v]
      PROVE  FreeOnes'
  <2>1. Creating' = Creating /\ FreelyOwned' = FreelyOwned
    BY <1>5 DEF Creating, FreelyOwned
  <2> QED
    BY <1>b, <1>5, <2>1, FreeCountsStay DEF FreeOnes
<1>6. ASSUME NEW w \in Hooks, NEW e \in Events, Deliver(w, e)
      PROVE  FreeOnes'
  <2>1. \A v \in Hooks : hook'[v].pc = "made" => hook'[v] = hook[v]
    BY <1>6, <1>a DEF Deliver
  <2> QED
    BY <1>6, <1>5, <2>1 DEF Deliver
<1>7. ASSUME NEW w \in Hooks, HookMakes(w)
      PROVE  FreeOnes'
  <2> DEFINE r == [plan |-> "paid", sub |-> TRUE, owned |-> FALSE, from |-> "hook"]
  <2>1. /\ r \in AnOrg /\ orgs' = [orgs EXCEPT ![made + 1] = r] /\ made < MaxOrgs
        /\ hook' = [hook EXCEPT ![w].pc = "made", ![w].org = made + 1]
        /\ made' = made + 1 /\ create' = create
    BY <1>7 DEF HookMakes, AnOrg
  <2>2. ~r.owned /\ r.from = "hook"
    OBVIOUS
  <2> HIDE DEF r
  <2>3. /\ made + 1 \in Orgs /\ orgs'[made + 1] = r
        /\ \A o \in Orgs : o # made + 1 => orgs'[o] = orgs[o]
    BY <2>1, RowsAsMade
  <2>4. FreelyOwned' \subseteq FreelyOwned /\ Creating' = Creating
    BY <2>1, <2>2, <2>3 DEF FreelyOwned, Creating
  <2>5. hook'[w].org = made + 1 /\ \A v \in Hooks : v # w => hook'[v] = hook[v]
    <3>1. hook' = HookAt(w, "made", made + 1)
      BY <2>1 DEF HookAt
    <3> QED
      BY <3>1, HookGoesOn
  <2>6. \A v \in Hooks : hook'[v].pc = "made" => hook'[v].org \in 1..made'
                                                 /\ orgs'[hook'[v].org].from = "hook"
    BY <1>a, <1>b, <1>c, <2>1, <2>2, <2>3, <2>5
  <2> QED
    BY <2>4, <2>6, FreeCountsStay DEF FreeOnes
<1>8. ASSUME NEW w \in Hooks, HookOwns(w)
      PROVE  FreeOnes'
  <2>1. /\ orgs' = [orgs EXCEPT ![hook[w].org].owned = TRUE] /\ hook[w].pc = "made"
        /\ hook' = [hook EXCEPT ![w] = IdleHook] /\ UNCHANGED <<create, made>>
    BY <1>8 DEF HookOwns, Answer
  <2>2. \A o \in Orgs : /\ orgs'[o].from = orgs[o].from
                        /\ o # hook[w].org => orgs'[o].owned = orgs[o].owned
    <3>1. orgs' = OwnedRow(hook[w].org)
      BY <2>1 DEF OwnedRow
    <3> QED
      BY <3>1, RowsAsOwned
  <2>3. FreelyOwned' \subseteq FreelyOwned /\ Creating' = Creating
    BY <1>b, <2>1, <2>2 DEF FreelyOwned, Creating
  <2>4. hook'[w].pc = "idle" /\ \A v \in Hooks : v # w => hook'[v] = hook[v]
    BY <2>1, HookIsOver
  <2>5. \A v \in Hooks : hook'[v].pc = "made" => hook'[v].org \in 1..made'
                                                 /\ orgs'[hook'[v].org].from = "hook"
    BY <1>a, <1>b, <1>c, <2>1, <2>2, <2>4
  <2> QED
    BY <2>3, <2>5, FreeCountsStay DEF FreeOnes
<1>9. ASSUME NEW w \in Hooks, HookFinds(w)
      PROVE  FreeOnes'
  <2>1. PICK o \in Subscribed : hook' = [hook EXCEPT ![w].pc = "found", ![w].org = o]
    BY <1>9 DEF HookFinds
  <2>2. \A v \in Hooks : hook'[v].pc = "made" => hook'[v] = hook[v]
    <3>1. hook' = HookAt(w, "found", o)
      BY <2>1 DEF HookAt
    <3> QED
      BY <3>1, HookGoesOn
  <2> QED
    BY <1>9, <1>5, <2>2 DEF HookFinds
<1>10. ASSUME NEW w \in Hooks, HookDrops(w) \/ HookDies(w)
       PROVE  FreeOnes'
  <2>1. hook' = [hook EXCEPT ![w] = IdleHook]
    BY <1>10 DEF HookDrops, HookDies, Answer
  <2>2. \A v \in Hooks : hook'[v].pc = "made" => hook'[v] = hook[v]
    BY <2>1, HookIsOver
  <2> QED
    BY <1>10, <1>5, <2>2 DEF HookDrops, HookDies
<1>11. ASSUME NEW w \in Hooks, HookBills(w)
       PROVE  FreeOnes'
  <2>1. /\ orgs' = [orgs EXCEPT ![hook[w].org] = Billed(@, hook[w].event)]
        /\ hook' = [hook EXCEPT ![w] = IdleHook] /\ UNCHANGED <<create, made>>
    BY <1>11 DEF HookBills, Answer
  <2>2. \A o \in Orgs : orgs'[o].owned = orgs[o].owned /\ orgs'[o].from = orgs[o].from
    BY <2>1, RowsAsBilled
  <2>3. FreelyOwned' \subseteq FreelyOwned /\ Creating' = Creating
    BY <2>1, <2>2 DEF FreelyOwned, Creating
  <2>4. hook'[w].pc = "idle" /\ \A v \in Hooks : v # w => hook'[v] = hook[v]
    BY <2>1, HookIsOver
  <2>5. \A v \in Hooks : hook'[v].pc = "made" => hook'[v].org \in 1..made'
                                                 /\ orgs'[hook'[v].org].from = "hook"
    BY <1>a, <1>b, <1>c, <2>1, <2>2, <2>4
  <2> QED
    BY <2>3, <2>5, FreeCountsStay DEF FreeOnes
<1>12. CASE StripeEmits \/ UNCHANGED vars
  BY <1>12, <1>5 DEF StripeEmits, vars
<1> QED
  BY <1>1, <1>2, <1>3, <1>4, <1>6, <1>7, <1>8, <1>9, <1>10, <1>11, <1>12 DEF Next


\* A plan is paid by a subscription, whatever comes in whichever order.
LEMMA PaidOnesStay ==
  ASSUME TypeOK, PaidOnes, FreeOnes, [Next]_vars
  PROVE  PaidOnes'
<1>a. /\ hook \in [Hooks -> AHook] /\ made \in 0..MaxOrgs /\ made \in Nat /\ MaxOrgs \in Nat
      /\ Orgs = 1..MaxOrgs /\ events \in [Events -> {"none", "pending", "answered"}]
  BY CheckoutAssumption DEF TypeOK, AHook, Orgs
<1>b. /\ \A o \in Orgs : orgs[o].plan = "paid" <=> orgs[o].sub
      /\ \A o \in Orgs : orgs[o].sub => o \in 1..made
  BY DEF PaidOnes, Subscribed
<1>c. \A w \in Hooks : /\ AtWork(w) => hook[w].event \in Events
                            /\ events[hook[w].event] # "none"
                       /\ hook[w].pc = "made" => hook[w].event = "completed"
                       /\ hook[w].pc = "found" => /\ hook[w].event \in {"updated", "deleted"}
                                                  /\ hook[w].org \in 1..made
  BY DEF PaidOnes
<1>d. events["updated"] # "none" \/ events["deleted"] # "none" => events["completed"] # "none"
  BY DEF PaidOnes
<1>e. ASSUME /\ \A o \in Orgs : orgs'[o].plan = "paid" <=> orgs'[o].sub
             /\ \A o \in Orgs : orgs'[o].sub => o \in 1..made'
             /\ \A w \in Hooks :
                  /\ hook'[w].pc # "idle" => /\ hook'[w].event \in Events
                                             /\ events'[hook'[w].event] # "none"
                  /\ hook'[w].pc = "made" => hook'[w].event = "completed"
                  /\ hook'[w].pc = "found" => /\ hook'[w].event \in {"updated", "deleted"}
                                              /\ hook'[w].org \in 1..made'
             /\ events'["updated"] # "none" \/ events'["deleted"] # "none" =>
                  events'["completed"] # "none"
      PROVE  PaidOnes'
  BY <1>e DEF PaidOnes, Subscribed, AtWork
<1>f. /\ "completed" \in Events /\ "updated" \in Events /\ "deleted" \in Events
  BY DEF Events
<1>g. ASSUME NEW w \in Hooks, hook[w].pc # "idle", NEW s \in {"pending", "answered"},
             events' = [events EXCEPT ![hook[w].event] = s]
      PROVE  \A e \in Events : events'[e] = "none" <=> events[e] = "none"
  <2>1. hook[w].event \in Events /\ events[hook[w].event] # "none"
    BY <1>g, <1>c DEF AtWork
  <2> QED
    BY <1>a, <1>g, <2>1
<1>h. ASSUME /\ \A o \in Orgs : orgs'[o].plan = orgs[o].plan /\ orgs'[o].sub = orgs[o].sub
             /\ made' = made
             /\ \A e \in Events : events'[e] = "none" <=> events[e] = "none"
             /\ \A v \in Hooks : hook'[v].pc # "idle" => hook'[v] = hook[v]
      PROVE  PaidOnes'
  <2>1. \A v \in Hooks :
          /\ hook'[v].pc # "idle" => /\ hook'[v].event \in Events
                                     /\ events'[hook'[v].event] # "none"
          /\ hook'[v].pc = "made" => hook'[v].event = "completed"
          /\ hook'[v].pc = "found" => /\ hook'[v].event \in {"updated", "deleted"}
                                      /\ hook'[v].org \in 1..made'
    <3> SUFFICES ASSUME NEW v \in Hooks, hook'[v].pc # "idle"
                 PROVE  /\ hook'[v].event \in Events /\ events'[hook'[v].event] # "none"
                        /\ hook'[v].pc = "made" => hook'[v].event = "completed"
                        /\ hook'[v].pc = "found" =>
                             /\ hook'[v].event \in {"updated", "deleted"}
                                      /\ hook'[v].org \in 1..made'
      OBVIOUS
    <3>1. hook'[v] = hook[v] /\ AtWork(v)
      BY <1>h DEF AtWork
    <3> QED
      BY <3>1, <1>c, <1>h
  <2>2. events'["updated"] # "none" \/ events'["deleted"] # "none"
          => events'["completed"] # "none"
    BY <1>d, <1>f, <1>h
  <2>3. /\ \A o \in Orgs : orgs'[o].plan = "paid" <=> orgs'[o].sub
        /\ \A o \in Orgs : orgs'[o].sub => o \in 1..made'
    BY <1>b, <1>h
  <2> QED
    BY <1>e, <2>1, <2>2, <2>3
<1>1. ASSUME NEW c \in Creates, CreateCounts(c) \/ CreateDies(c)
      PROVE  PaidOnes'
  BY <1>1, <1>h DEF CreateCounts, CreateDies
<1>2. ASSUME NEW c \in Creates, CreateMakes(c)
      PROVE  PaidOnes'
  <2> DEFINE r == [plan |-> "free", sub |-> FALSE, owned |-> FALSE, from |-> "post"]
  <2>1. /\ r \in AnOrg /\ orgs' = [orgs EXCEPT ![made + 1] = r] /\ made < MaxOrgs
        /\ made' = made + 1 /\ hook' = hook /\ events' = events
    BY <1>2 DEF CreateMakes, AnOrg
  <2>2. ~r.sub /\ r.plan = "free"
    OBVIOUS
  <2> HIDE DEF r
  <2>3. /\ made + 1 \in Orgs /\ orgs'[made + 1] = r
        /\ \A o \in Orgs : o # made + 1 => orgs'[o] = orgs[o]
    BY <2>1, RowsAsMade
  <2>4. \A o \in Orgs : orgs'[o].plan = "paid" <=> orgs'[o].sub
    BY <1>b, <2>2, <2>3
  <2>5. \A o \in Orgs : orgs'[o].sub => o \in 1..made'
    BY <1>a, <1>b, <2>1, <2>2, <2>3
  <2>6. \A k \in 1..made : k \in 1..made'
    BY <1>a, <2>1
  <2> QED
    BY <1>c, <1>d, <1>e, <2>1, <2>4, <2>5, <2>6 DEF AtWork
<1>3. ASSUME NEW c \in Creates, CreateOwns(c)
      PROVE  PaidOnes'
  <2>1. orgs' = OwnedRow(create[c].org) /\ UNCHANGED <<hook, events, made>>
    BY <1>3 DEF CreateOwns, OwnedRow
  <2>2. \A o \in Orgs : orgs'[o].plan = orgs[o].plan /\ orgs'[o].sub = orgs[o].sub
    BY <2>1, RowsAsOwned
  <2> QED
    BY <1>h, <2>1, <2>2
<1>4. ASSUME StripeEmits
      PROVE  PaidOnes'
  <2>1. UNCHANGED <<orgs, hook, made>>
    BY <1>4 DEF StripeEmits
  <2>2. \A e \in Events : events[e] # "none" => events'[e] # "none"
    BY <1>4, <1>a DEF StripeEmits, Events
  <2>3. events'["updated"] # "none" \/ events'["deleted"] # "none"
          => events'["completed"] # "none"
    BY <1>4, <1>a, <1>d DEF StripeEmits, Events
  <2> QED
    BY <1>b, <1>c, <1>e, <2>1, <2>2, <2>3 DEF AtWork
<1>5. ASSUME NEW w \in Hooks, NEW e \in Events, Deliver(w, e)
      PROVE  PaidOnes'
  <2>1. /\ UNCHANGED <<orgs, events, made>> /\ events[e] # "none"
        /\ hook' = [hook EXCEPT ![w] = [pc |-> "received", event |-> e, org |-> 0]]
    BY <1>5 DEF Deliver
  <2>2. /\ hook'[w].pc = "received" /\ hook'[w].event = e
        /\ \A v \in Hooks : v # w => hook'[v] = hook[v]
    BY <2>1, <1>a
  <2> QED
    BY <1>b, <1>c, <1>d, <1>e, <2>1, <2>2 DEF AtWork
<1>6. ASSUME NEW w \in Hooks, HookMakes(w)
      PROVE  PaidOnes'
  <2> DEFINE r == [plan |-> "paid", sub |-> TRUE, owned |-> FALSE, from |-> "hook"]
  <2>1. /\ r \in AnOrg /\ orgs' = [orgs EXCEPT ![made + 1] = r] /\ made < MaxOrgs
        /\ hook' = HookAt(w, "made", made + 1) /\ hook[w].event = "completed"
        /\ hook[w].pc = "received" /\ made' = made + 1 /\ events' = events
    BY <1>6 DEF HookMakes, AnOrg, HookAt
  <2>2. r.sub /\ r.plan = "paid"
    OBVIOUS
  <2> HIDE DEF r
  <2>3. /\ made + 1 \in Orgs /\ orgs'[made + 1] = r
        /\ \A o \in Orgs : o # made + 1 => orgs'[o] = orgs[o]
    BY <2>1, RowsAsMade
  <2>4. \A o \in Orgs : orgs'[o].plan = "paid" <=> orgs'[o].sub
    BY <1>b, <2>2, <2>3
  <2>5. \A o \in Orgs : orgs'[o].sub => o \in 1..made'
    BY <1>a, <1>b, <2>1, <2>2, <2>3
  <2>6. /\ hook'[w].pc = "made" /\ hook'[w].event = hook[w].event
        /\ \A v \in Hooks : v # w => hook'[v] = hook[v]
    BY <2>1, HookGoesOn
  <2>7. events[hook[w].event] # "none"
    BY <2>1, <1>c DEF AtWork
  <2>8. \A k \in 1..made : k \in 1..made'
    BY <1>a, <2>1
  <2> QED
    BY <1>c, <1>d, <1>e, <1>f, <2>1, <2>4, <2>5, <2>6, <2>7, <2>8 DEF AtWork
<1>7. ASSUME NEW w \in Hooks, HookOwns(w)
      PROVE  PaidOnes'
  <2>1. /\ orgs' = OwnedRow(hook[w].org) /\ hook[w].pc = "made" /\ made' = made
        /\ hook' = [hook EXCEPT ![w] = IdleHook]
        /\ events' = [events EXCEPT ![hook[w].event] = "answered"]
    BY <1>7 DEF HookOwns, Answer, OwnedRow
  <2>2. \A o \in Orgs : orgs'[o].plan = orgs[o].plan /\ orgs'[o].sub = orgs[o].sub
    BY <2>1, RowsAsOwned
  <2>3. \A v \in Hooks : hook'[v].pc # "idle" => hook'[v] = hook[v]
    BY <2>1, HookIsOver
  <2>4. \A e \in Events : events'[e] = "none" <=> events[e] = "none"
    BY <1>g, <2>1
  <2> QED
    BY <1>h, <2>1, <2>2, <2>3, <2>4
<1>8. ASSUME NEW w \in Hooks, HookFinds(w)
      PROVE  PaidOnes'
  <2>1. /\ \E o \in Subscribed : hook' = HookAt(w, "found", o)
        /\ UNCHANGED <<orgs, events, made>> /\ hook[w].pc = "received"
        /\ hook[w].event \in {"updated", "deleted"}
    BY <1>8 DEF HookFinds, HookAt
  <2>2. /\ hook'[w].pc = "found" /\ hook'[w].event = hook[w].event
        /\ \A v \in Hooks : v # w => hook'[v] = hook[v]
    BY <2>1, HookGoesOn
  <2>3. hook'[w].org \in 1..made
    BY <2>1, <1>b, HookGoesOn DEF Subscribed
  <2> QED
    BY <1>b, <1>c, <1>d, <1>e, <2>1, <2>2, <2>3 DEF AtWork
<1>9. ASSUME NEW w \in Hooks, HookDrops(w)
      PROVE  PaidOnes'
  <2>1. /\ hook[w].pc = "received" /\ UNCHANGED <<orgs, made>>
        /\ hook' = [hook EXCEPT ![w] = IdleHook]
        /\ events' = [events EXCEPT ![hook[w].event] = "answered"]
    BY <1>9 DEF HookDrops, Answer
  <2>2. \A v \in Hooks : hook'[v].pc # "idle" => hook'[v] = hook[v]
    BY <2>1, HookIsOver
  <2>3. \A e \in Events : events'[e] = "none" <=> events[e] = "none"
    BY <1>g, <2>1
  <2> QED
    BY <1>h, <2>1, <2>2, <2>3
<1>10. ASSUME NEW w \in Hooks, HookDies(w)
       PROVE  PaidOnes'
  <2>1. /\ hook[w].pc # "idle" /\ UNCHANGED <<orgs, made>>
        /\ hook' = [hook EXCEPT ![w] = IdleHook]
        /\ events' = [events EXCEPT ![hook[w].event] = "pending"]
    BY <1>10 DEF HookDies
  <2>2. \A v \in Hooks : hook'[v].pc # "idle" => hook'[v] = hook[v]
    BY <2>1, HookIsOver
  <2>3. \A e \in Events : events'[e] = "none" <=> events[e] = "none"
    BY <1>g, <2>1
  <2> QED
    BY <1>h, <2>1, <2>2, <2>3
<1>11. ASSUME NEW w \in Hooks, HookBills(w)
       PROVE  PaidOnes'
  <2>1. /\ orgs' = [orgs EXCEPT ![hook[w].org] = Billed(@, hook[w].event)]
        /\ hook' = [hook EXCEPT ![w] = IdleHook] /\ made' = made /\ hook[w].pc = "found"
        /\ events' = [events EXCEPT ![hook[w].event] = "answered"]
    BY <1>11 DEF HookBills, Answer
  <2>2. \A o \in Orgs : o # hook[w].org => orgs'[o] = orgs[o]
    BY <2>1, RowsAsBilled
  <2>3. \A o \in Orgs : o = hook[w].org => (orgs'[o].plan = "paid" <=> orgs'[o].sub)
    BY <2>1, RowsAsBilled
  <2>4. \A v \in Hooks : hook'[v].pc # "idle" => hook'[v] = hook[v]
    BY <2>1, HookIsOver
  <2>5. \A e \in Events : events'[e] = "none" <=> events[e] = "none"
    BY <1>g, <2>1
  <2>6. \A o \in Orgs : orgs'[o].plan = "paid" <=> orgs'[o].sub
    BY <1>b, <2>2, <2>3
  <2>7. hook[w].org \in 1..made
    BY <2>1, <1>c
  <2>8. \A o \in Orgs : orgs'[o].sub => o \in 1..made'
    BY <1>b, <2>1, <2>2, <2>7
  <2>9. events'["updated"] # "none" \/ events'["deleted"] # "none"
          => events'["completed"] # "none"
    BY <1>d, <1>f, <2>5
  <2>10. \A v \in Hooks : hook'[v].pc # "idle" => hook'[v] = hook[v] /\ AtWork(v)
    BY <2>4 DEF AtWork
  <2> QED
    BY <1>c, <1>e, <2>1, <2>5, <2>6, <2>8, <2>9, <2>10
<1>12. CASE UNCHANGED vars
  BY <1>12, <1>h DEF vars
<1> QED
  BY <1>1, <1>2, <1>3, <1>4, <1>5, <1>6, <1>7, <1>8, <1>9, <1>10, <1>11, <1>12 DEF Next


\* Webhooks one at a time and in order keep one subscription, and end it.
LEMMA OneByOneStays ==
  ASSUME TypeOK, PaidOnes, ~jumbled => OneByOne, [Next]_vars, ~jumbled'
  PROVE  OneByOne'
<1>a. /\ hook \in [Hooks -> AHook] /\ made \in 0..MaxOrgs /\ made \in Nat /\ MaxOrgs \in Nat
      /\ Orgs = 1..MaxOrgs /\ events \in [Events -> {"none", "pending", "answered"}]
  BY CheckoutAssumption DEF TypeOK, AHook, Orgs
<1>b. ~jumbled
  BY DEF Next, vars, CreateCounts, CreateMakes, CreateOwns, CreateDies, StripeEmits, Deliver,
     HookMakes, HookOwns, HookFinds, HookDrops, HookBills, HookDies
<1>c. /\ \A v, w \in Hooks : AtWork(v) /\ AtWork(w) => v = w
      /\ \A o, p \in Subscribed : o = p
      /\ \A o \in Subscribed : \/ events["completed"] = "answered"
                               \/ \E w \in Hooks : hook[w].pc = "made"
      /\ \A w \in Hooks :
           /\ AtWork(w) /\ hook[w].event = "completed" => events["completed"] = "pending"
           /\ AtWork(w) /\ hook[w].event = "deleted" => events["completed"] = "answered"
           /\ hook[w].pc = "found" => hook[w].org \in Subscribed
      /\ events["deleted"] = "answered" => events["completed"] = "answered" /\ Subscribed = {}
  BY <1>b DEF OneByOne
<1>d. /\ Subscribed \subseteq 1..made
      /\ \A w \in Hooks :
           /\ AtWork(w) => hook[w].event \in Events /\ events[hook[w].event] # "none"
           /\ hook[w].pc = "made" => hook[w].event = "completed"
           /\ hook[w].pc = "found" => hook[w].event \in {"updated", "deleted"}
      /\ events["updated"] # "none" \/ events["deleted"] # "none"
           => events["completed"] # "none"
  BY DEF PaidOnes
<1>f. /\ "completed" \in Events /\ "updated" \in Events /\ "deleted" \in Events
  BY DEF Events
<1>1. ASSUME Subscribed' = Subscribed, UNCHANGED <<hook, events>>
      PROVE  OneByOne'
  BY <1>1, <1>c DEF OneByOne, AtWork
<1>2. ASSUME NEW c \in Creates, CreateCounts(c) \/ CreateDies(c)
      PROVE  OneByOne'
  BY <1>1, <1>2 DEF CreateCounts, CreateDies, Subscribed
<1>3. ASSUME NEW c \in Creates, CreateMakes(c)
      PROVE  OneByOne'
  <2> DEFINE r == [plan |-> "free", sub |-> FALSE, owned |-> FALSE, from |-> "post"]
  <2>1. /\ r \in AnOrg /\ orgs' = [orgs EXCEPT ![made + 1] = r] /\ made < MaxOrgs
        /\ hook' = hook /\ events' = events
    BY <1>3 DEF CreateMakes, AnOrg
  <2>2. ~r.sub
    OBVIOUS
  <2> HIDE DEF r
  <2>3. /\ made + 1 \in Orgs /\ orgs'[made + 1] = r
        /\ \A o \in Orgs : o # made + 1 => orgs'[o] = orgs[o]
    BY <2>1, RowsAsMade
  <2>4. made + 1 \notin Subscribed
    BY <1>a, <1>d
  <2>5. Subscribed' = Subscribed
    BY <2>2, <2>3, <2>4 DEF Subscribed
  <2> QED
    BY <1>1, <2>1, <2>5
<1>4. ASSUME NEW c \in Creates, CreateOwns(c)
      PROVE  OneByOne'
  <2>1. orgs' = OwnedRow(create[c].org) /\ UNCHANGED <<hook, events, made>>
    BY <1>4 DEF CreateOwns, OwnedRow
  <2>2. Subscribed' = Subscribed
    BY <2>1, RowsAsOwned DEF Subscribed
  <2> QED
    BY <1>1, <2>1, <2>2
<1>5. ASSUME StripeEmits
      PROVE  OneByOne'
  <2>1. UNCHANGED <<orgs, hook>> /\ Subscribed' = Subscribed
    BY <1>5 DEF StripeEmits, Subscribed
  <2>2. \A e \in Events : /\ events[e] # "none" => events'[e] = events[e]
                          /\ events'[e] = "answered" => events[e] = "answered"
    BY <1>5, <1>a DEF StripeEmits, Events
  <2>3. events["completed"] # "none" => events'["completed"] = events["completed"]
    BY <2>2, <1>f
  <2>4. events'["deleted"] = "answered" => events["deleted"] = "answered"
    BY <2>2, <1>f
  <2> QED
    BY <1>c, <2>1, <2>3, <2>4 DEF OneByOne, AtWork
<1>6. ASSUME NEW w \in Hooks, NEW e \in Events, Deliver(w, e)
      PROVE  OneByOne'
  <2>1. /\ UNCHANGED <<orgs, events, made>> /\ hook[w].pc = "idle"
        /\ hook' = [hook EXCEPT ![w] = [pc |-> "received", event |-> e, org |-> 0]]
        /\ Subscribed' = Subscribed
    BY <1>6 DEF Deliver, Subscribed
  <2>2. /\ hook'[w].pc = "received" /\ hook'[w].event = e
        /\ \A v \in Hooks : v # w => hook'[v] = hook[v]
    BY <2>1, <1>a
  <2>3. /\ \A v \in Hooks : hook[v].pc = "idle"
        /\ \A f \in Before(e) : events[f] # "pending"
        /\ ~(e = "completed" /\ events[e] = "answered")
        /\ events[e] \in {"pending", "answered"}
    BY <1>6 DEF Deliver
  <2>4. e = "completed" => events["completed"] = "pending"
    BY <2>3
  <2>5. e = "deleted" => events["completed"] = "answered"
    <3>1. SUFFICES ASSUME e = "deleted"
                   PROVE  events["completed"] = "answered"
      OBVIOUS
    <3>2. events["completed"] # "pending"
      BY <2>3, <3>1 DEF Before
    <3>3. events["completed"] # "none"
      BY <1>d, <2>3, <3>1
    <3> QED
      BY <1>a, <1>f, <3>2, <3>3
  <2>6. \A v \in Hooks : hook'[v].pc # "idle" => v = w
    BY <2>2, <2>3
  <2>7. \A o \in Subscribed : events["completed"] = "answered"
    BY <1>c, <2>3
  <2> QED
    BY <1>c, <2>1, <2>2, <2>4, <2>5, <2>6, <2>7 DEF OneByOne, AtWork
<1>7. ASSUME NEW w \in Hooks, HookMakes(w)
      PROVE  OneByOne'
  <2> DEFINE r == [plan |-> "paid", sub |-> TRUE, owned |-> FALSE, from |-> "hook"]
  <2>1. /\ r \in AnOrg /\ orgs' = [orgs EXCEPT ![made + 1] = r] /\ made < MaxOrgs
        /\ hook' = HookAt(w, "made", made + 1) /\ hook[w].event = "completed"
        /\ hook[w].pc = "received" /\ events' = events
    BY <1>7 DEF HookMakes, AnOrg, HookAt
  <2> HIDE DEF r
  <2>3. \A o \in Orgs : o # made + 1 => orgs'[o] = orgs[o]
    BY <2>1, RowsAsMade
  <2>4. /\ hook'[w].pc = "made" /\ hook'[w].event = "completed"
        /\ \A v \in Hooks : v # w => hook'[v] = hook[v]
    BY <2>1, HookGoesOn
  <2>5. \A v \in Hooks : AtWork(v) => v = w
    BY <1>c, <2>1 DEF AtWork
  <2>6. events["completed"] = "pending"
    BY <1>c, <2>1 DEF AtWork
  <2>7. Subscribed = {}
    BY <1>c, <2>1, <2>5, <2>6 DEF AtWork
  <2>8. Subscribed' \subseteq {made + 1}
    BY <2>3, <2>7 DEF Subscribed
  <2>9. \A v \in Hooks : hook'[v].pc # "idle" => v = w
    BY <2>4, <2>5 DEF AtWork
  <2>10. events["deleted"] # "answered"
    BY <1>c, <2>6
  <2> QED
    BY <2>1, <2>4, <2>6, <2>8, <2>9, <2>10 DEF OneByOne, AtWork
<1>8. ASSUME NEW w \in Hooks, AtWork(w), hook' = [hook EXCEPT ![w] = IdleHook],
             events' = [events EXCEPT ![hook[w].event] = "answered"]
      PROVE  /\ \A v \in Hooks : ~AtWork(v)'
             /\ hook[w].event = "completed" => events'["completed"] = "answered"
             /\ hook[w].event # "completed" => events'["completed"] = events["completed"]
             /\ hook[w].event # "deleted" => events'["deleted"] = events["deleted"]
  <2>1. hook'[w].pc = "idle" /\ \A v \in Hooks : v # w => hook'[v] = hook[v]
    BY <1>8, HookIsOver
  <2>2. \A v \in Hooks : ~AtWork(v)'
    BY <1>c, <1>8, <2>1 DEF AtWork
  <2>3. hook[w].event \in Events
    BY <1>8, <1>d
  <2> QED
    BY <1>8, <1>a, <1>f, <2>2, <2>3
<1>9. ASSUME NEW w \in Hooks, HookOwns(w)
      PROVE  OneByOne'
  <2>1. /\ orgs' = OwnedRow(hook[w].org) /\ hook[w].pc = "made"
        /\ hook' = [hook EXCEPT ![w] = IdleHook]
        /\ events' = [events EXCEPT ![hook[w].event] = "answered"]
    BY <1>9 DEF HookOwns, Answer, OwnedRow
  <2>2. Subscribed' = Subscribed
    BY <2>1, RowsAsOwned DEF Subscribed
  <2>3. hook[w].event = "completed" /\ AtWork(w)
    BY <1>d, <2>1 DEF AtWork
  <2>4. /\ \A v \in Hooks : hook'[v].pc = "idle"
        /\ events'["completed"] = "answered" /\ events'["deleted"] = events["deleted"]
    BY <1>8, <2>1, <2>3 DEF AtWork
  <2> QED
    BY <1>c, <2>2, <2>4 DEF OneByOne, AtWork
<1>10. ASSUME NEW w \in Hooks, HookFinds(w)
       PROVE  OneByOne'
  <2>1. PICK o \in Subscribed : hook' = HookAt(w, "found", o)
    BY <1>10 DEF HookFinds, HookAt
  <2>2. /\ UNCHANGED <<orgs, events>> /\ hook[w].pc = "received" /\ Subscribed' = Subscribed
        /\ hook[w].event \in {"updated", "deleted"}
    BY <1>10 DEF HookFinds, Subscribed
  <2>3. /\ hook'[w].pc = "found" /\ hook'[w].event = hook[w].event /\ hook'[w].org = o
        /\ \A v \in Hooks : v # w => hook'[v] = hook[v]
    BY <2>1, HookGoesOn
  <2>4. \A v \in Hooks : AtWork(v) => v = w
    BY <1>c, <2>2 DEF AtWork
  <2>5. \A v \in Hooks : hook'[v].pc # "idle" => v = w
    BY <2>3, <2>4 DEF AtWork
  <2>6. events["completed"] = "answered"
    BY <1>c, <2>1, <2>2, <2>4 DEF AtWork
  <2> QED
    BY <1>c, <2>1, <2>2, <2>3, <2>5, <2>6 DEF OneByOne, AtWork
<1>11. ASSUME NEW w \in Hooks, HookDrops(w)
       PROVE  OneByOne'
  <2>1. /\ hook[w].pc = "received" /\ orgs' = orgs /\ Subscribed = {} /\ Subscribed' = {}
        /\ hook[w].event \in {"updated", "deleted"}
        /\ hook' = [hook EXCEPT ![w] = IdleHook]
        /\ events' = [events EXCEPT ![hook[w].event] = "answered"]
    BY <1>11 DEF HookDrops, Answer, Subscribed
  <2>2. /\ \A v \in Hooks : hook'[v].pc = "idle"
        /\ events'["completed"] = events["completed"]
        /\ hook[w].event # "deleted" => events'["deleted"] = events["deleted"]
    BY <1>8, <2>1 DEF AtWork
  <2>3. hook[w].event = "deleted" => events["completed"] = "answered"
    BY <1>c, <2>1 DEF AtWork
  <2> QED
    BY <1>c, <2>1, <2>2, <2>3 DEF OneByOne, AtWork
<1>12. ASSUME NEW w \in Hooks, HookBills(w)
       PROVE  OneByOne'
  <2>1. /\ orgs' = [orgs EXCEPT ![hook[w].org] = Billed(@, hook[w].event)]
        /\ hook' = [hook EXCEPT ![w] = IdleHook] /\ hook[w].pc = "found"
        /\ events' = [events EXCEPT ![hook[w].event] = "answered"]
    BY <1>12 DEF HookBills, Answer
  <2>2. hook[w].org \in Subscribed /\ hook[w].event \in {"updated", "deleted"} /\ AtWork(w)
    BY <1>c, <1>d, <2>1 DEF AtWork
  <2>3. \A o \in Orgs : o # hook[w].org => orgs'[o] = orgs[o]
    BY <2>1, RowsAsBilled
  <2>4. hook[w].event = "deleted" => \A o \in Orgs : o = hook[w].org => ~orgs'[o].sub
    BY <2>1, RowsAsBilled
  <2>5. /\ Subscribed' \subseteq Subscribed
        /\ hook[w].event = "deleted" => Subscribed' = {}
    BY <1>c, <2>2, <2>3, <2>4 DEF Subscribed
  <2>6. /\ \A v \in Hooks : hook'[v].pc = "idle"
        /\ events'["completed"] = events["completed"]
        /\ hook[w].event # "deleted" => events'["deleted"] = events["deleted"]
    BY <1>8, <2>1, <2>2 DEF AtWork
  <2>7. events["completed"] = "answered"
    BY <1>c, <1>d, <2>1, <2>2 DEF AtWork
  <2> QED
    BY <1>c, <2>5, <2>6, <2>7 DEF OneByOne, AtWork
<1>13. ASSUME NEW w \in Hooks, HookDies(w)
       PROVE  OneByOne'
  BY <1>13 DEF HookDies
<1>14. CASE UNCHANGED vars
  BY <1>1, <1>14 DEF vars, Subscribed
<1> QED
  BY <1>2, <1>3, <1>4, <1>5, <1>6, <1>7, <1>9, <1>10, <1>11, <1>12, <1>13, <1>14 DEF Next


\* At first nobody owns anything and nothing is paid.
LEMMA BillingInvBegins ==
  ASSUME Init
  PROVE  BillingInv
<1> USE CheckoutAssumption DEF Init
<1>1. TypeOK
  <2>1. NoOrg \in AnOrg /\ IdleCall \in ACreate /\ IdleHook \in AHook
    BY DEF NoOrg, AnOrg, IdleCall, ACreate, IdleHook, AHook
  <2>2. /\ orgs \in [Orgs -> AnOrg] /\ create \in [Creates -> ACreate]
        /\ hook \in [Hooks -> AHook]
        /\ events \in [Events -> {"none", "pending", "answered"}]
    BY <2>1
  <2>3. made \in 0..MaxOrgs
    OBVIOUS
  <2>4. jumbled \in BOOLEAN
    BY Zenon
  <2> QED
    BY <2>2, <2>3, <2>4 DEF TypeOK, AnOrg, ACreate, AHook
<1>2. FreelyOwned = {} /\ Creating = {} /\ Subscribed = {}
  BY DEF FreelyOwned, Creating, Subscribed, NoOrg, IdleCall
<1>3. Cardinality({}) = 0 /\ Cardinality(Creates) \in Nat
  BY FS_EmptySet, FS_CardinalityType
<1>4. \A w \in Hooks : hook[w].pc = "idle"
  BY DEF IdleHook
<1>5. \A e \in Events : events[e] = "none"
  OBVIOUS
<1>6. FreeOnes
  BY <1>2, <1>3, <1>4 DEF FreeOnes
<1>7. \A o \in Orgs : orgs[o].plan = "none" /\ orgs[o].sub = FALSE
  BY DEF NoOrg
<1>8. PaidOnes
  BY <1>2, <1>4, <1>5, <1>7 DEF PaidOnes, AtWork, Events
<1>9. OneByOne
  BY <1>2, <1>4, <1>5 DEF OneByOne, AtWork, Events
<1> QED
  BY <1>1, <1>6, <1>8, <1>9 DEF BillingInv

\* However requests, webhooks and crashes fall together, a person owns no more free
\* workspaces than requests may be under way at once, and webhooks that come one at a
\* time and in order leave nothing on a paid plan whose subscription has ended (POST
\* /api/orgs of orgs/routes.ts and applyStripeEvent of billing/webhook.ts).
THEOREM BillingIsPromised == Spec => []BillingPromise
<1>1. Init => BillingInv
  BY BillingInvBegins
<1>2. BillingInv /\ [Next]_vars => BillingInv'
  BY BillingTypesAreKept, FreeOnesStay, PaidOnesStay, OneByOneStays DEF BillingInv
<1>3. BillingInv => BillingPromise
  <2> SUFFICES ASSUME BillingInv
               PROVE  BillingPromise
    OBVIOUS
  <2>1. Cardinality(FreelyOwned) <= Cardinality(Creates)
    <3>1. IsFiniteSet(Orgs)
      BY CheckoutAssumption, FS_Interval DEF Orgs
    <3>2. /\ Cardinality(FreelyOwned) \in Nat /\ Cardinality(Creating) \in Nat
          /\ Cardinality(Creates) \in Nat
      BY <3>1, CheckoutAssumption, Within DEF FreelyOwned, Creating
    <3> QED
      BY <3>2 DEF BillingInv, FreeOnes
  <2>2. EndedIsFree
    BY DEF EndedIsFree, BillingInv, OneByOne, PaidOnes, Subscribed
  <2> QED
    BY <2>1, <2>2 DEF BillingPromise, FreeWorkspacesAreBounded, BillingInv
<1> QED
  BY <1>1, <1>2, <1>3, PTL DEF Spec

-----------------------------------------------------------------------------
(* A person's list of channels.                                            *)

Fetch == [on : BOOLEAN, pages : Seq(Roster!Row), want : Nat]
Event == [ch : Channels, at : Spoken]

\* What a page is made of.
Stamped == created \in [Channels -> Ticks] /\ last \in [Channels -> {0} \cup Spoken]

RosterTypes ==
  /\ Roster!TypeOK /\ fetch \in Fetch /\ wire \in Seq(Event)
  /\ reports \in Nat /\ breaks \in Nat

\* An event about the channel is on its way.
Awaited(ch) == \E k \in DOMAIN wire : wire[k].ch = ch

\* The last event about a channel says what the database holds.
Told == \A k \in DOMAIN wire :
  \/ wire[k].at = last[wire[k].ch]
  \/ \E m \in DOMAIN wire : m > k /\ wire[m].ch = wire[k].ch

\* Every page that shows a channel shows it as it is, and every channel is on a page or
\* below the last of them, but for those an event is on its way about.
Fresh(pages) == \A i \in DOMAIN pages : pages[i].ch # 0 =>
  pages[i].at = last[pages[i].ch] \/ Awaited(pages[i].ch)
OnAPage(pages, ch) == \E i \in DOMAIN pages : pages[i].ch = ch
Covers(pages) == Roster!Apart => \A ch \in Channels :
  OnAPage(pages, ch) \/ Roster!Below(ch, Roster!FinalCursor(pages)) \/ Awaited(ch)
Shows(pages) == Fresh(pages) /\ Covers(pages)

Shown == IF fetch.on THEN fetch.pages ELSE list

RosterInv ==
  /\ RosterTypes /\ last = heard
  /\ ~open => wire = <<>>
  /\ open /\ ~muddled => Told /\ Shows(Shown)

\* When a channel was last spoken in is a whole millisecond; when it was created may not be.
LEMMA RecencyIs ==
  ASSUME Stamped, NEW ch \in Channels
  PROVE  /\ ch \in Nat \ {0} /\ Roster!Recency(ch) \in 1..99 /\ last[ch] \in Nat
         /\ last[ch] = 0 => Roster!Recency(ch) = created[ch]
         /\ last[ch] # 0 => Roster!Recency(ch) \in Spoken /\ Roster!Recency(ch) % 2 = 0
<1>1. created[ch] \in Ticks /\ last[ch] \in {0} \cup Spoken /\ ch \in Nat \ {0}
  BY RosterAssumption DEF Stamped
<1>2. Ticks \subseteq 1..99 /\ Spoken \subseteq 1..99 /\ \A t \in Spoken : t % 2 = 0
  BY RosterAssumption
<1>3. CASE last[ch] = 0
  <2>1. Roster!Recency(ch) = created[ch]
    BY <1>3 DEF Roster!Recency
  <2>2. created[ch] \in 1..99
    BY <1>1, <1>2
  <2> QED
    BY <1>1, <1>3, <2>1, <2>2
<1>4. CASE last[ch] # 0
  <2>1. Roster!Recency(ch) = last[ch] /\ last[ch] \in Spoken
    BY <1>1, <1>4 DEF Roster!Recency
  <2>2. last[ch] % 2 = 0 /\ last[ch] \in 1..99
    BY <1>2, <2>1
  <2> QED
    BY <1>1, <1>4, <2>1, <2>2
<1> QED
  BY <1>3, <1>4

\* Of channels that are apart, the cursor of one separates those before it from it,
\* although it forgets what is below a millisecond.
LEMMA CursorSeparates ==
  ASSUME Stamped, Roster!Apart, NEW top \in Channels, NEW o \in Channels \ {top},
         Roster!Below(o, [at |-> Roster!Recency(top), ch |-> top])
  PROVE  Roster!Below(o, Roster!Cursor(top))
<1> DEFINE a == Roster!Recency(top)
           b == Roster!Recency(o)
<1>1. a \in 1..99 /\ b \in 1..99 /\ o \in Nat /\ top \in Nat
  BY RecencyIs
<1>2. b < a \/ (b = a /\ o < top)
  BY DEF Roster!Below
<1>3. a % 2 = 0 \/ b < a - 1
  <2> SUFFICES ASSUME a % 2 # 0
               PROVE  b < a - 1
    OBVIOUS
  <2>1. last[top] = 0 /\ a = created[top]
    BY RecencyIs
  <2>2. b = created[o] \/ b \in Spoken
    BY RecencyIs
  <2>3. a \div 2 # b \div 2
    BY <2>1, <2>2 DEF Roster!Apart
  <2> HIDE DEF a, b
  <2> QED
    BY <1>1, <1>2, <2>3
<1>4. Roster!Cursor(top) = [at |-> a - (a % 2), ch |-> top]
  BY DEF Roster!Cursor
<1>5. b < a - (a % 2) \/ (b = a - (a % 2) /\ o < top)
  <2> HIDE DEF a, b
  <2> QED
    BY <1>1, <1>2, <1>3
<1> QED
  BY <1>4, <1>5 DEF Roster!Below

\* A page holds the most recent channel below its cursor, as it is, and the next page
\* starts below that.
LEMMA PageIsNext ==
  ASSUME Stamped, NEW cursor \in [at : Nat, ch : Nat]
  PROVE  \E r \in Roster!Row :
           /\ Roster!Page(cursor) = <<r>>
           /\ r.ch # 0 => r.at = last[r.ch]
           /\ Roster!Apart => \A ch \in Channels :
                Roster!Below(ch, cursor) => r.ch = ch \/ Roster!Below(ch, r.next)
<1> DEFINE before(o, ch) == Roster!Below(o, [at |-> Roster!Recency(ch), ch |-> ch])
           R == {p \in Channels \X Channels : before(p[1], p[2])}
           found == {ch \in Channels : Roster!Below(ch, cursor)}
           top == CHOOSE ch \in found : \A o \in found \ {ch} : before(o, ch)
           none == [ch |-> 0, at |-> 0, next |-> Roster!End]
           next == IF found = {top} THEN Roster!End ELSE Roster!Cursor(top)
           one == [ch |-> top, at |-> last[top], next |-> next]
<1>1. Roster!Page(cursor) = IF found = {} THEN <<none>> ELSE <<one>>
  BY Zenon DEF Roster!Page
<1>2. CASE found = {}
  <2>1. none \in Roster!Row
    BY DEF Roster!Row, Roster!End
  <2> QED
    BY <1>1, <1>2, <2>1
<1>3. CASE found # {}
  <2>1. \A x, y \in found : <<x, y>> \in R <=> before(x, y)
    OBVIOUS
  <2>2. \A x \in found : Roster!Recency(x) \in Nat /\ x \in Nat
    BY RecencyIs
  <2>3. \A x, y \in found : before(x, y) <=>
          \/ Roster!Recency(x) < Roster!Recency(y)
          \/ Roster!Recency(x) = Roster!Recency(y) /\ x < y
    BY DEF Roster!Below
  <2>4. IsFiniteSet(found)
    BY RosterAssumption, FS_Subset
  <2>5. \E m \in found : \A o \in found \ {m} : <<o, m>> \in R
    <3> HIDE DEF R, found, before
    <3>1. \A x \in found : <<x, x>> \notin R
      <4>1. \A x \in found : ~before(x, x)
        BY <2>2, <2>3
      <4> QED
        BY <2>1, <4>1
    <3>2. \A x, y \in found : x = y \/ <<x, y>> \in R \/ <<y, x>> \in R
      <4>1. \A x, y \in found : x = y \/ before(x, y) \/ before(y, x)
        BY <2>2, <2>3
      <4> QED
        BY <2>1, <4>1
    <3>3. ASSUME NEW x \in found, NEW y \in found, NEW z \in found,
                 <<x, y>> \in R, <<y, z>> \in R
          PROVE  <<x, z>> \in R
      <4>1. before(x, y) /\ before(y, z)
        BY <2>1, <3>3
      <4>2. before(x, z)
        BY <2>2, <2>3, <4>1
      <4> QED
        BY <2>1, <4>2
    <3> QED
      BY <1>3, <2>4, <3>1, <3>2, <3>3, TheGreatest
  <2>6. top \in found /\ \A o \in found \ {top} : before(o, top)
    <3>1. \E ch \in found : \A o \in found \ {ch} : before(o, ch)
      BY <2>1, <2>5
    <3> HIDE DEF found, before
    <3> QED
      BY <3>1
  <2>7. one \in Roster!Row
    <3> HIDE DEF top, found
    <3>1. found \subseteq Channels
      BY DEF found
    <3>2. next \in [at : Nat, ch : Nat]
      BY <2>6, <3>1, RecencyIs DEF Roster!End, Roster!Cursor
    <3>3. last[top] \in {0} \cup Spoken
      BY <2>6, <3>1 DEF Stamped
    <3> HIDE DEF next
    <3> QED
      BY <2>6, <3>1, <3>2, <3>3 DEF Roster!Row
  <2>8. Roster!Apart => \A ch \in found : top = ch \/ Roster!Below(ch, next)
    <3> SUFFICES ASSUME Roster!Apart, NEW ch \in found, ch # top
                 PROVE  Roster!Below(ch, next)
      OBVIOUS
    <3>0. found # {top} /\ before(ch, top)
      <4> HIDE DEF top, found, before
      <4> QED
        BY <2>6
    <3>1. next = Roster!Cursor(top) /\ before(ch, top)
      BY <3>0
    <3>2. top \in Channels /\ ch \in Channels
      <4> HIDE DEF top
      <4> QED
        BY <2>6
    <3> HIDE DEF top, found, next
    <3> QED
      BY <3>1, <3>2, CursorSeparates
  <2>9. Roster!Page(cursor) = <<one>>
    BY <1>1, <1>3
  <2> HIDE DEF top, next
  <2> QED
    BY <2>7, <2>8, <2>9
<1> QED
  BY <1>2, <1>3

\* Channels are created and spoken in at the instants there are.
LEMMA TypesAreStamps == RosterTypes => Stamped
  BY DEF RosterTypes, Roster!TypeOK, Stamped

\* An instant is a number, and none at which something is said is zero.
LEMMA InstantsAreNumbers ==
  ASSUME RosterTypes, NEW ch \in Channels, NEW t \in Spoken
  PROVE  t \in Nat \ {0} /\ last[ch] \in Nat
<1>1. Spoken \subseteq 1..99
  BY RosterAssumption
<1>2. t \in 1..99
  BY <1>1
<1> QED
  BY <1>2, RecencyIs, TypesAreStamps

\* Where the next page starts.
LEMMA FinalCursorIs ==
  ASSUME NEW pages \in Seq(Roster!Row)
  PROVE  Roster!FinalCursor(pages) \in [at : Nat, ch : Nat]
<1>1. CASE pages = <<>>
  BY <1>1 DEF Roster!FinalCursor, Roster!Start
<1>2. CASE pages # <<>>
  <2>1. pages[Len(pages)] \in Roster!Row
    BY <1>2
  <2> QED
    BY <1>2, <2>1 DEF Roster!FinalCursor, Roster!Row
<1> QED
  BY <1>1, <1>2

\* Before the first page nothing is shown, and every channel is to come.
LEMMA NothingIsShown ==
  ASSUME RosterTypes
  PROVE  Shows(<<>>)
<1>1. \A ch \in Channels : Roster!Below(ch, Roster!Start)
  BY RecencyIs, TypesAreStamps DEF Roster!Below, Roster!Start
<1>2. Roster!FinalCursor(<<>>) = Roster!Start
  BY DEF Roster!FinalCursor
<1> QED
  BY <1>1, <1>2 DEF Shows, Fresh, Covers

\* One more page is as good as those before it.
LEMMA OneMorePage ==
  ASSUME RosterTypes, NEW pages \in Seq(Roster!Row), Shows(pages)
  PROVE  LET more == pages \o Roster!Page(Roster!FinalCursor(pages))
         IN  more \in Seq(Roster!Row) /\ Shows(more)
<1> DEFINE cursor == Roster!FinalCursor(pages)
<1>1. cursor \in [at : Nat, ch : Nat]
  BY FinalCursorIs
<1>2. PICK r \in Roster!Row :
        /\ Roster!Page(cursor) = <<r>>
        /\ r.ch # 0 => r.at = last[r.ch]
        /\ Roster!Apart => \A ch \in Channels :
             Roster!Below(ch, cursor) => r.ch = ch \/ Roster!Below(ch, r.next)
  <2> HIDE DEF cursor
  <2> QED
    BY <1>1, PageIsNext, TypesAreStamps
<1> DEFINE more == pages \o <<r>>
<1>3. /\ more \in Seq(Roster!Row) /\ Len(more) = Len(pages) + 1 /\ more[Len(more)] = r
      /\ DOMAIN more = DOMAIN pages \cup {Len(more)} /\ more # <<>>
      /\ \A i \in DOMAIN pages : more[i] = pages[i]
  OBVIOUS
<1>4. Roster!FinalCursor(more) = r.next
  BY <1>3 DEF Roster!FinalCursor
<1> HIDE DEF more
<1>5. Fresh(more)
  <2> SUFFICES ASSUME NEW i \in DOMAIN more, more[i].ch # 0
               PROVE  more[i].at = last[more[i].ch] \/ Awaited(more[i].ch)
    BY DEF Fresh
  <2>1. CASE i \in DOMAIN pages
    BY <1>3, <2>1 DEF Shows, Fresh
  <2>2. CASE i = Len(more)
    BY <1>2, <1>3, <2>2
  <2> QED
    BY <1>3, <2>1, <2>2
<1>6. Covers(more)
  <2> SUFFICES ASSUME Roster!Apart, NEW ch \in Channels
               PROVE  OnAPage(more, ch) \/ Roster!Below(ch, r.next) \/ Awaited(ch)
    BY <1>4 DEF Covers
  <2>1. CASE OnAPage(pages, ch)
    BY <1>3, <2>1 DEF OnAPage
  <2>2. CASE Roster!Below(ch, cursor)
    BY <1>2, <1>3, <2>2 DEF OnAPage
  <2> QED
    BY <2>1, <2>2 DEF Shows, Covers
<1> QED
  BY <1>2, <1>3, <1>5, <1>6 DEF more, Shows

\* What is shown stays so while the database and the events on their way are the same.
LEMMA ShownIsStill ==
  ASSUME created' = created, last' = last, wire' = wire
  PROVE  Told = Told' /\ \A p : Shows(p) = Shows(p)'
BY DEF Told, Shows, Fresh, Covers, Awaited, OnAPage, Roster!Apart, Roster!Below,
       Roster!Recency, Roster!FinalCursor, Roster!Start

\* Every step keeps the types.
LEMMA RosterTypesAreKept ==
  ASSUME RosterTypes, Roster!Next
  PROVE  RosterTypes'
<1> USE DEF RosterTypes, Roster!TypeOK
<1>1. ASSUME NEW ch \in Channels, NEW t \in Spoken, Roster!Report(ch, t)
      PROVE  RosterTypes'
  <2> USE <1>1 DEF Roster!Report
  <2>1. last' \in [Channels -> {0} \cup Spoken] /\ heard' \in [Channels -> {0} \cup Spoken]
    OBVIOUS
  <2>2. wire' \in Seq(Event)
    <3>1. [ch |-> ch, at |-> t] \in Event
      BY DEF Event
    <3> QED
      BY <3>1
  <2>3. reports' \in Nat /\ muddled' \in BOOLEAN
    BY DEF Roster!Newer
  <2> QED
    BY <2>1, <2>2, <2>3
<1>2. CASE Roster!ListenerBreaks
  <2>1. /\ breaks' \in Nat /\ listening' = FALSE
        /\ UNCHANGED <<created, last, heard, list, fetch, wire, open, muddled, reports>>
    BY <1>2 DEF Roster!ListenerBreaks
  <2>2. listening' \in BOOLEAN
    BY <2>1
  <2> QED
    BY <2>1, <2>2
<1>3. CASE Roster!ListenerReturns
  BY <1>3 DEF Roster!ListenerReturns, Roster!bounds
<1>4. CASE Roster!SocketCloses
  <2>1. /\ breaks' \in Nat /\ open' = FALSE /\ wire' = <<>>
        /\ UNCHANGED <<created, last, heard, list, fetch, listening, muddled, reports>>
    BY <1>4 DEF Roster!SocketCloses
  <2>2. open' \in BOOLEAN
    BY <2>1
  <2>3. wire' \in Seq(Event)
    BY <2>1
  <2> QED
    BY <2>1, <2>2, <2>3
<1>5. ASSUME Roster!Refetch
      PROVE  fetch' \in Fetch /\ (muddled' \in BOOLEAN)
  <2>1. Len(list) \in Nat /\ <<>> \in Seq(Roster!Row)
    OBVIOUS
  <2> QED
    BY <1>5, <2>1 DEF Roster!Refetch, Fetch
<1>6. CASE Roster!SocketOpens
  BY <1>5, <1>6 DEF Roster!SocketOpens, Roster!bounds, Fetch
<1>7. CASE Roster!Handles
  <2> USE <1>7 DEF Roster!Handles, Roster!bounds
  <2>1. wire' \in Seq(Event) /\ Head(wire) \in Event
    OBVIOUS
  <2>2. CASE Head(wire).ch \notin Roster!Listed
    <3>1. fetch' \in Fetch /\ muddled' \in BOOLEAN /\ list' = list
      BY <1>5, <2>2
    <3> QED
      BY <2>1, <3>1 DEF Fetch
  <2>3. CASE Head(wire).ch \in Roster!Listed
    <3>1. list' \in Seq(Roster!Row)
      <4>1. /\ list' = [i \in 1..Len(list) |->
                          IF list[i].ch = Head(wire).ch
                          THEN [list[i] EXCEPT !.at = Head(wire).at] ELSE list[i]]
            /\ Len(list) \in Nat
        BY <2>3
      <4>2. \A i \in 1..Len(list) : list[i] \in Roster!Row
        OBVIOUS
      <4>3. \A r \in Roster!Row : [r EXCEPT !.at = Head(wire).at] \in Roster!Row
        BY <2>1 DEF Roster!Row, Event
      <4>4. list' \in [1..Len(list) -> Roster!Row]
        BY <4>1, <4>2, <4>3
      <4> QED
        BY <4>1, <4>4, SeqDef, SMTT(60)
    <3>2. fetch' = fetch /\ muddled' \in BOOLEAN
      BY <2>3 DEF Fetch
    <3> QED
      BY <2>1, <3>1, <3>2
  <2> QED
    BY <2>2, <2>3
<1>8. CASE Roster!LoadMore
  <2>1. fetch' \in Fetch
    <3>1. Len(list) + 1 \in Nat
      OBVIOUS
    <3> QED
      BY <1>8, <3>1 DEF Roster!LoadMore, Fetch
  <2> QED
    BY <1>8, <2>1 DEF Roster!LoadMore, Roster!bounds, Fetch
<1>9. CASE Roster!FetchPage
  <2> DEFINE pages == fetch.pages \o Roster!Page(Roster!FinalCursor(fetch.pages))
             over == Len(pages) = fetch.want \/ Roster!FinalCursor(pages) = Roster!End
  <2>1. pages \in Seq(Roster!Row)
    <3>1. fetch.pages \in Seq(Roster!Row)
      OBVIOUS
    <3>2. PICK r \in Roster!Row :
            Roster!Page(Roster!FinalCursor(fetch.pages)) = <<r>>
      BY <3>1, FinalCursorIs, PageIsNext, TypesAreStamps
    <3> QED
      BY <3>1, <3>2
  <2>2. /\ list' = IF over THEN pages ELSE list
        /\ fetch' = IF over THEN Roster!Idle ELSE [fetch EXCEPT !.pages = pages]
        /\ UNCHANGED <<created, last, heard, wire, open, listening, muddled, reports, breaks>>
    BY <1>9, Zenon DEF Roster!FetchPage, Roster!bounds
  <2>3. Roster!Idle \in Fetch
    BY DEF Roster!Idle, Fetch
  <2> HIDE DEF pages, over
  <2>4. fetch' \in Fetch /\ list' \in Seq(Roster!Row)
    BY <2>1, <2>2, <2>3 DEF Fetch
  <2> QED
    BY <2>2, <2>4 DEF Fetch
<1> QED
  BY <1>1, <1>2, <1>3, <1>4, <1>6, <1>7, <1>8, <1>9 DEF Roster!Next

\* All that is there is shown once the last page is, and as it is.
LEMMA AtRestAllIsShown ==
  ASSUME RosterTypes, wire = <<>>, Shows(list)
  PROVE  /\ \A i \in DOMAIN list : list[i].ch # 0 => list[i].at = last[list[i].ch]
         /\ Roster!Apart /\ Roster!FinalCursor(list) = Roster!End => Roster!Listed = Channels
<1>1. \A ch : ~Awaited(ch)
  BY DEF Awaited
<1>2. ASSUME NEW ch \in Channels
      PROVE  ~Roster!Below(ch, Roster!End)
  <2>1. Roster!Recency(ch) \in 1..99
    BY RecencyIs, TypesAreStamps
  <2>2. ~(Roster!Recency(ch) < 0) /\ Roster!Recency(ch) # 0
    <3> DEFINE r == Roster!Recency(ch)
    <3>1. r \in 1..99
      BY <2>1
    <3> HIDE DEF r
    <3>2. ~(r < 0) /\ r # 0
      BY <3>1
    <3> QED
      BY <3>2 DEF r
  <2>3. Roster!Below(ch, Roster!End) =
          (Roster!Recency(ch) < 0 \/ (Roster!Recency(ch) = 0 /\ ch < 0))
    BY DEF Roster!Below, Roster!End
  <2> QED
    BY <2>2, <2>3
<1>3. Roster!Listed \subseteq Channels
  <2>1. \A i \in DOMAIN list : list[i] \in Roster!Row
    BY DEF RosterTypes, Roster!TypeOK
  <2>2. \A i \in DOMAIN list : list[i].ch \in Channels \cup {0}
    BY <2>1 DEF Roster!Row
  <2> QED
    BY <2>2 DEF Roster!Listed
<1>4. \A ch \in Channels : OnAPage(list, ch) => ch \in Roster!Listed
  BY RosterAssumption DEF OnAPage, Roster!Listed
<1> QED
  BY <1>1, <1>2, <1>3, <1>4 DEF Shows, Fresh, Covers

\* An event is put on the wire: it says what the database holds, and whatever is shown
\* of its channel is now awaited.
LEMMA ANewsIsSent ==
  ASSUME RosterTypes, Told, NEW ch \in Channels, NEW t \in Spoken,
         created' = created, last' = [last EXCEPT ![ch] = t],
         wire' = Append(wire, [ch |-> ch, at |-> t])
  PROVE  Told' /\ \A p : Shows(p) => Shows(p)'
<1>1. /\ wire \in Seq(Event) /\ wire' \in Seq(Event) /\ Len(wire') = Len(wire) + 1
      /\ wire'[Len(wire')] = [ch |-> ch, at |-> t]
      /\ DOMAIN wire' = DOMAIN wire \cup {Len(wire')}
      /\ \A k \in DOMAIN wire : wire'[k] = wire[k] /\ k < Len(wire')
  <2>1. wire \in Seq(Event) /\ [ch |-> ch, at |-> t] \in Event
    BY DEF RosterTypes, Event
  <2> QED
    BY <2>1
<1>2. last'[ch] = t /\ \A o \in Channels \ {ch} : last'[o] = last[o]
  BY DEF RosterTypes, Roster!TypeOK
<1>3. \A k \in DOMAIN wire : wire[k].ch \in Channels
  <2>1. \A k \in DOMAIN wire : wire[k] \in Event
    BY DEF RosterTypes
  <2> QED
    BY <2>1 DEF Event
<1>4. Told'
  <2> SUFFICES ASSUME NEW k \in DOMAIN wire'
               PROVE  \/ wire'[k].at = last'[wire'[k].ch]
                      \/ \E m \in DOMAIN wire' : m > k /\ wire'[m].ch = wire'[k].ch
    BY DEF Told
  <2>1. CASE k = Len(wire')
    BY <1>1, <1>2, <2>1
  <2>2. CASE k \in DOMAIN wire /\ wire[k].ch = ch
    BY <1>1, <2>2
  <2>3. CASE k \in DOMAIN wire /\ wire[k].ch # ch
    BY <1>1, <1>2, <1>3, <2>3 DEF Told
  <2> QED
    BY <1>1, <2>1, <2>2, <2>3
<1>5. Awaited(ch)' /\ \A o : Awaited(o) => Awaited(o)'
  BY <1>1 DEF Awaited
<1>6. ASSUME NEW p, Fresh(p)
      PROVE  Fresh(p)'
  <2> SUFFICES ASSUME NEW i \in DOMAIN p, p[i].ch # 0
               PROVE  p[i].at = last'[p[i].ch] \/ Awaited(p[i].ch)'
    BY DEF Fresh
  <2>1. CASE p[i].ch = ch
    BY <1>5, <2>1
  <2>2. CASE p[i].ch # ch
    <3>1. last'[p[i].ch] = last[p[i].ch] \/ p[i].ch \notin Channels
      BY <1>2, <2>2
    <3> QED
      BY <1>5, <1>6, <2>2, <3>1 DEF Fresh
  <2> QED
    BY <2>1, <2>2
<1>7. ASSUME NEW p, Covers(p)
      PROVE  Covers(p)'
  <2> SUFFICES ASSUME Roster!Apart, NEW o \in Channels, o # ch
               PROVE  (OnAPage(p, o) \/ Roster!Below(o, Roster!FinalCursor(p)) \/ Awaited(o))'
    BY <1>5 DEF Covers, Roster!Apart
  <2>1. Roster!Recency(o)' = Roster!Recency(o)
    BY <1>2 DEF Roster!Recency
  <2> QED
    BY <1>5, <1>7, <2>1 DEF Covers, OnAPage, Roster!Below, Roster!FinalCursor, Roster!Start
<1> QED
  BY <1>4, <1>6, <1>7 DEF Shows

\* The first event is handled: what comes after it still tells, and all that it was
\* about is its own channel.
LEMMA AnEventIsTaken ==
  ASSUME RosterTypes, wire # <<>>, wire' = Tail(wire), last' = last
  PROVE  /\ Told => Told'
         /\ \A ch : Awaited(ch) => ch = Head(wire).ch \/ Awaited(ch)'
         /\ Told => \/ Head(wire).at = last[Head(wire).ch]
                    \/ \E m \in DOMAIN wire' : wire'[m].ch = Head(wire).ch
<1>1. /\ wire \in Seq(Event) /\ wire' \in Seq(Event) /\ Len(wire) \in Nat \ {0}
      /\ Len(wire') = Len(wire) - 1 /\ Head(wire) = wire[1] /\ 1 \in DOMAIN wire
      /\ DOMAIN wire = 1..Len(wire) /\ DOMAIN wire' = 1..Len(wire')
      /\ \A k \in DOMAIN wire' : wire'[k] = wire[k + 1] /\ k + 1 \in DOMAIN wire
  BY DEF RosterTypes
<1>2. \A k \in DOMAIN wire : k > 1 => k - 1 \in DOMAIN wire' /\ wire'[k - 1] = wire[k]
  BY <1>1
<1>3. ASSUME Told
      PROVE  Told'
  <2> SUFFICES ASSUME NEW k \in DOMAIN wire', wire'[k].at # last[wire'[k].ch]
               PROVE  \E m \in DOMAIN wire' : m > k /\ wire'[m].ch = wire'[k].ch
    BY DEF Told
  <2>1. PICK m \in DOMAIN wire : m > k + 1 /\ wire[m].ch = wire[k + 1].ch
    BY <1>1, <1>3 DEF Told
  <2>2. m - 1 \in DOMAIN wire' /\ wire'[m - 1] = wire[m] /\ m - 1 > k
    BY <1>1, <1>2, <2>1
  <2> QED
    BY <1>1, <2>1, <2>2
<1>4. ASSUME NEW ch, Awaited(ch), ch # Head(wire).ch
      PROVE  Awaited(ch)'
  <2>1. PICK k \in DOMAIN wire : wire[k].ch = ch
    BY <1>4 DEF Awaited
  <2>2. k > 1
    BY <1>1, <1>4, <2>1
  <2> QED
    BY <1>2, <2>1, <2>2 DEF Awaited
<1>5. Told => \/ Head(wire).at = last[Head(wire).ch]
              \/ \E m \in DOMAIN wire' : wire'[m].ch = Head(wire).ch
  BY <1>1, <1>2 DEF Told
<1> QED
  BY <1>3, <1>4, <1>5

\* A fetch from the first page shows nothing yet, whether or not what was shown is
\* current.
LEMMA AFetchBegins ==
  ASSUME RosterTypes, RosterTypes', Roster!Refetch, wire' = <<>> \/ (~muddled => Told')
  PROVE  ~muddled' => Told' /\ Shows(Shown)'
<1>1. Shown' = <<>>
  BY DEF Roster!Refetch, Shown
<1>2. Shows(<<>>)'
  BY NothingIsShown, PTL
<1>3. Shows(Shown)'
  BY <1>1, <1>2 DEF Shows, Fresh, Covers, OnAPage, Roster!FinalCursor
<1>4. ASSUME ~muddled'
      PROVE  Told'
  <2>1. CASE wire' = <<>>
    BY <2>1 DEF Told
  <2>2. CASE wire' # <<>>
    BY <1>4, <2>2, Zenon DEF Roster!Refetch
  <2> QED
    BY <2>1, <2>2
<1> QED
  BY <1>3, <1>4

\* A page is patched with what the event says, and shows the same channels.
LEMMA APageIsPatched ==
  ASSUME RosterTypes, Told, Shows(list), wire # <<>>, wire' = Tail(wire),
         UNCHANGED <<created, last>>, Head(wire).ch \in Roster!Listed,
         list' = [i \in DOMAIN list |-> IF list[i].ch = Head(wire).ch
                                        THEN [list[i] EXCEPT !.at = Head(wire).at]
                                        ELSE list[i]]
  PROVE  Told' /\ Shows(list)'
<1>1. PICK e : /\ e = Head(wire)
               /\ Told' /\ (e.at = last[e.ch] \/ \E m \in DOMAIN wire' : wire'[m].ch = e.ch)
               /\ \A ch : Awaited(ch) => ch = e.ch \/ Awaited(ch)'
  BY AnEventIsTaken
<1>2. /\ DOMAIN list' = DOMAIN list /\ Len(list') = Len(list)
      /\ \A i \in DOMAIN list :
           /\ list'[i].ch = list[i].ch /\ list'[i].next = list[i].next
           /\ list'[i].at = IF list[i].ch = e.ch THEN e.at ELSE list[i].at
  <2> DEFINE patched(r) == [r EXCEPT !.at = e.at]
  <2>1. \A i \in DOMAIN list : list[i] \in Roster!Row
    BY DEF RosterTypes, Roster!TypeOK
  <2>2. \A r \in Roster!Row :
          patched(r).ch = r.ch /\ patched(r).next = r.next /\ patched(r).at = e.at
    BY DEF Roster!Row
  <2>3. /\ list' = [i \in 1..Len(list) |->
                      IF list[i].ch = e.ch THEN patched(list[i]) ELSE list[i]]
        /\ Len(list) \in Nat /\ DOMAIN list = 1..Len(list)
    BY <1>1 DEF RosterTypes, Roster!TypeOK
  <2> HIDE DEF patched
  <2>4. DOMAIN list' = 1..Len(list) /\ Len(list') = Len(list)
    BY <2>3
  <2> QED
    BY <2>1, <2>2, <2>3, <2>4, ZenonT(60)
<1>3. Fresh(list)'
  <2> SUFFICES ASSUME NEW i \in DOMAIN list, list[i].ch # 0
               PROVE  \/ list'[i].at = last'[list[i].ch]
                      \/ \E m \in DOMAIN wire' : wire'[m].ch = list[i].ch
    BY <1>2 DEF Fresh, Awaited
  <2>1. CASE list[i].ch = e.ch
    BY <1>1, <1>2, <2>1
  <2>2. CASE list[i].ch # e.ch
    BY <1>1, <1>2, <2>2 DEF Shows, Fresh, Awaited
  <2> QED
    BY <2>1, <2>2
<1>4. Roster!FinalCursor(list)' = Roster!FinalCursor(list)
  <2>1. list \in Seq(Roster!Row) /\ (list' = <<>> <=> list = <<>>)
    BY <1>2 DEF RosterTypes, Roster!TypeOK
  <2>2. list # <<>> => Len(list) \in DOMAIN list
    BY <2>1
  <2> QED
    BY <1>2, <2>1, <2>2 DEF Roster!FinalCursor, Roster!Start
<1>5. Covers(list)'
  <2> SUFFICES ASSUME Roster!Apart', NEW ch \in Channels
               PROVE  (OnAPage(list, ch) \/ Roster!Below(ch, Roster!FinalCursor(list))
                         \/ Awaited(ch))'
    BY DEF Covers
  <2>1. CASE OnAPage(list, ch)
    BY <1>2, <2>1 DEF OnAPage
  <2>2. CASE Roster!Below(ch, Roster!FinalCursor(list))
    BY <1>4, <2>2 DEF Roster!Below, Roster!Recency
  <2>3. CASE Awaited(ch) /\ ch = e.ch
    <3>1. \E i \in DOMAIN list : list[i].ch = ch
      BY <1>1, <2>3 DEF Roster!Listed
    <3> QED
      BY <1>2, <3>1 DEF OnAPage
  <2>4. CASE Awaited(ch) /\ ch # e.ch
    BY <1>1, <2>4
  <2>5. Roster!Apart
    BY DEF Roster!Apart
  <2> QED
    BY <2>1, <2>2, <2>3, <2>4, <2>5 DEF Shows, Covers
<1> QED
  BY <1>1, <1>3, <1>5 DEF Shows

\* A person's list of channels is current when it is at rest: what is announced is either
\* shown or on its way, and every step keeps it so.
THEOREM RostersAreCurrent == Roster!Spec => []RosterPromise
<1>1. Roster!Init => RosterInv
  <2> SUFFICES ASSUME Roster!Init
               PROVE  RosterInv
    OBVIOUS
  <2> USE DEF Roster!Init
  <2>1. /\ last \in [Channels -> {0} \cup Spoken] /\ heard = last /\ wire = <<>>
        /\ wire \in Seq(Event) /\ created \in [Channels -> Ticks]
        /\ reports \in Nat /\ breaks \in Nat /\ open = FALSE
    OBVIOUS
  <2>2. fetch \in Fetch /\ fetch.on \in BOOLEAN /\ fetch.pages \in Seq(Roster!Row)
    BY DEF Roster!Idle, Fetch
  <2>3. list \in Seq(Roster!Row)
    <3>1. Roster!Start \in [at : Nat, ch : Nat]
      BY DEF Roster!Start
    <3>2. PICK r \in Roster!Row : Roster!Page(Roster!Start) = <<r>>
      BY <2>1, <3>1, PageIsNext DEF Stamped
    <3> QED
      BY <3>2
  <2>4. open \in BOOLEAN /\ listening \in BOOLEAN /\ muddled \in BOOLEAN
    OBVIOUS
  <2> QED
    BY <2>1, <2>2, <2>3, <2>4 DEF RosterInv, RosterTypes, Roster!TypeOK
<1>2. RosterInv /\ [Roster!Next]_Roster!vars => RosterInv'
  <2> SUFFICES ASSUME RosterInv, [Roster!Next]_Roster!vars
               PROVE  RosterInv'
    OBVIOUS
  <2>0. RosterTypes /\ last = heard /\ (~open => wire = <<>>)
        /\ (open /\ ~muddled => Told /\ Shows(Shown))
    BY DEF RosterInv
  <2>1. CASE UNCHANGED Roster!vars
    BY <2>0, <2>1, ShownIsStill DEF Roster!vars, RosterInv, RosterTypes, Roster!TypeOK, Shown
  <2>2. ASSUME Roster!Next
        PROVE  RosterTypes'
    BY <2>0, <2>2, RosterTypesAreKept
  <2>3. ASSUME NEW ch \in Channels, NEW t \in Spoken, Roster!Report(ch, t)
        PROVE  RosterInv'
    <3> USE <2>3 DEF Roster!Report
    <3>1. RosterTypes'
      BY <2>2 DEF Roster!Next
    <3>2. /\ t \in Nat \ {0} /\ last[ch] \in Nat /\ heard[ch] = last[ch]
          /\ last \in [Channels -> {0} \cup Spoken]
      BY <2>0, InstantsAreNumbers DEF RosterTypes, Roster!TypeOK
    <3>3. last' = heard'
      <4>1. Roster!Newer(ch, t) = (last[ch] < t)
        BY <3>2 DEF Roster!Newer
      <4> QED
        BY <2>0, <3>2, <4>1
    <3>4. Shown' = Shown /\ open' = open /\ (open' <=> open)
      BY DEF Shown
    <3>5. ~open => wire' = <<>>
      BY <2>0
    <3>6. ASSUME open, ~muddled'
          PROVE  Told' /\ Shows(Shown)'
      <4>1. ~muddled /\ Told /\ Shows(Shown)
        BY <2>0, <3>6
      <4>2. CASE Roster!Newer(ch, t)
        <5>1. listening
          BY <3>6, <4>2
        <5>2. wire' = Append(wire, [ch |-> ch, at |-> t]) /\ last' = [last EXCEPT ![ch] = t]
          BY <3>6, <4>2, <5>1
        <5>3. Told' /\ \A p : Shows(p) => Shows(p)'
          BY <2>0, <4>1, <5>2, ANewsIsSent
        <5> QED
          BY <3>4, <4>1, <5>3 DEF Shown
      <4>3. CASE ~Roster!Newer(ch, t)
        <5>1. wire' = wire /\ last' = last
          BY <3>2, <4>3
        <5> QED
          BY <3>4, <4>1, <5>1, ShownIsStill
      <4> QED
        BY <4>2, <4>3
    <3>7. open' /\ ~muddled' => Told' /\ Shows(Shown)'
      BY <3>4, <3>6, Zenon
    <3>8. ~open' => wire' = <<>>
      BY <3>4, <3>5, Zenon
    <3> QED
      BY <3>1, <3>3, <3>7, <3>8, Zenon DEF RosterInv
  <2>4. CASE Roster!ListenerBreaks \/ Roster!ListenerReturns
    <3>1. UNCHANGED <<created, last, heard, list, fetch, wire, open, muddled>>
      BY <2>4 DEF Roster!ListenerBreaks, Roster!ListenerReturns
    <3>2. RosterTypes'
      BY <2>2, <2>4 DEF Roster!Next
    <3> QED
      BY <2>0, <3>1, <3>2, ShownIsStill DEF RosterInv, Shown
  <2>5. CASE Roster!SocketCloses
    <3>1. RosterTypes'
      BY <2>2, <2>5 DEF Roster!Next
    <3> QED
      BY <2>0, <2>5, <3>1 DEF RosterInv, Roster!SocketCloses
  <2>6. CASE Roster!SocketOpens
    <3>1. RosterTypes'
      BY <2>2, <2>6 DEF Roster!Next
    <3>2. wire' = <<>> /\ Roster!Refetch /\ last' = heard'
      BY <2>0, <2>6 DEF Roster!SocketOpens
    <3>3. ~muddled' => Told' /\ Shows(Shown)'
      BY <2>0, <3>1, <3>2, AFetchBegins
    <3> QED
      BY <3>1, <3>2, <3>3 DEF RosterInv
  <2>7. CASE Roster!Handles
    <3> USE <2>7 DEF Roster!Handles
    <3>1. RosterTypes'
      BY <2>2 DEF Roster!Next
    <3>2. /\ wire # <<>> /\ wire' = Tail(wire) /\ open' = open /\ open
          /\ UNCHANGED <<created, last, heard>>
      BY <2>0
    <3>3. CASE Head(wire).ch \notin Roster!Listed
      <4>1. Told => Told'
        BY <2>0, <3>2, AnEventIsTaken
      <4>2. ~muddled => Told'
        BY <2>0, <3>2, <4>1
      <4>3. Roster!Refetch
        BY <3>3
      <4>4. ~muddled' => Told' /\ Shows(Shown)'
        BY <2>0, <3>1, <4>2, <4>3, AFetchBegins
      <4> QED
        BY <2>0, <3>1, <3>2, <4>4 DEF RosterInv
    <3>4. CASE Head(wire).ch \in Roster!Listed
      <4>1. ASSUME ~muddled'
            PROVE  Told' /\ Shows(Shown)'
        <5>1. ~muddled /\ ~fetch.on /\ fetch' = fetch
          BY <3>4, <4>1
        <5>2. Told /\ Shows(list)
          BY <2>0, <3>2, <5>1 DEF Shown
        <5>3. Told' /\ Shows(list)'
          BY <2>0, <3>2, <3>4, <5>2, APageIsPatched
        <5>4. Shown' = list'
          BY <5>1 DEF Shown
        <5> QED
          BY <5>3, <5>4 DEF Shows, Fresh, Covers, OnAPage, Roster!FinalCursor
      <4> QED
        BY <2>0, <3>1, <3>2, <4>1 DEF RosterInv
    <3> QED
      BY <3>3, <3>4
  <2>8. CASE Roster!LoadMore
    <3>1. RosterTypes'
      BY <2>2, <2>8 DEF Roster!Next
    <3>2. /\ UNCHANGED <<created, last, heard, wire, open, muddled>>
          /\ Shown = list /\ Shown' = list
      BY <2>8 DEF Roster!LoadMore, Shown
    <3> QED
      BY <2>0, <3>1, <3>2, ShownIsStill DEF RosterInv
  <2>9. CASE Roster!FetchPage
    <3> DEFINE pages == fetch.pages \o Roster!Page(Roster!FinalCursor(fetch.pages))
               over == Len(pages) = fetch.want \/ Roster!FinalCursor(pages) = Roster!End
    <3>1. RosterTypes'
      BY <2>2, <2>9 DEF Roster!Next
    <3>2. /\ list' = IF over THEN pages ELSE list
          /\ fetch' = IF over THEN Roster!Idle ELSE [fetch EXCEPT !.pages = pages]
          /\ fetch.on
          /\ UNCHANGED <<created, last, heard, wire, open, muddled>>
      BY <2>9, Zenon DEF Roster!FetchPage, Roster!bounds
    <3>3. fetch.pages \in Seq(Roster!Row) /\ fetch \in Fetch
      BY <2>0 DEF RosterTypes, Roster!TypeOK
    <3>4. Shows(fetch.pages) => Shows(pages)
      BY <2>0, <3>3, OneMorePage
    <3> HIDE DEF pages, over
    <3>5. Shown = fetch.pages /\ Shown' = pages
      BY <3>2, <3>3 DEF Shown, Roster!Idle, Fetch
    <3> QED
      BY <2>0, <3>1, <3>2, <3>4, <3>5, ShownIsStill DEF RosterInv
  <2> QED
    BY <2>1, <2>3, <2>4, <2>5, <2>6, <2>7, <2>8, <2>9 DEF Roster!Next
<1>3. RosterInv => RosterPromise
  <2> SUFFICES ASSUME RosterInv
               PROVE  RosterPromise
    OBVIOUS
  <2>1. Roster!Quiet /\ ~muddled => wire = <<>> /\ Shows(list)
    BY DEF RosterInv, Roster!Quiet, Shown
  <2> QED
    BY <2>1, AtRestAllIsShown DEF RosterInv, RosterTypes, RosterPromise, Roster!RosterPromise
<1> QED
  BY <1>1, <1>2, <1>3, PTL DEF Roster!Spec

-----------------------------------------------------------------------------
(* A room of Bots, the requests that add to it and those that change a Bot.*)

RowsOf == {"agent_profiles", "agents", "channel_agents"} \X Agents
Places == {"idle", "read", "share", "insert", "refer", "agent", "profile", "commit",
           "done", "refused", "victim"}
RoomCall == [kind : Rooms!Kinds \cup {"none"}, asks : Seq(Agents), seen : Rooms!Room,
             pc : Places, i : Nat]
RoomLock == [by : Rooms!Calls, row : RowsOf, mode : {"update", "share", "key share"}]

RoomTypes ==
  /\ deleted \subseteq Agents /\ room \in Rooms!Room /\ doubled \in BOOLEAN
  /\ call \in [Rooms!Calls -> RoomCall] /\ locks \subseteq RoomLock

Making == {"create", "add"}
Changing == {"delete", "edit"}
Written == {"share", "insert", "refer", "commit"}

\* Where a request may be, by its kind, and what it may name.
AtItsPlace(c) ==
  LET k == call[c] IN
  /\ Rooms!Underway(c) =>
       /\ k.asks \in Rooms!Lists /\ (k.kind \in Changing => Len(k.asks) = 1)
       /\ k.pc = "read" => k.kind = "add" /\ k.i = 1
       /\ k.pc \in {"share", "insert", "refer"} => k.kind \in Making /\ k.i \in 1..Len(k.asks)
       /\ k.pc \in {"agent", "profile"} => k.kind \in Changing /\ k.i = 1
       /\ k.kind # "none"

\* A lock is held by a request that is at work and past its reading; two requests hold a
\* row only if both share it; rows of the room are locked by those that add, and Bots
\* exclusively by those that change one.
Compatible ==
  /\ \A l \in locks :
       /\ Rooms!Underway(l.by) /\ call[l.by].pc # "read"
       /\ l.row[1] = "channel_agents" => call[l.by].kind = "add"
       /\ l.mode = "update" /\ l.row[1] # "channel_agents" => call[l.by].kind \in Changing
  /\ \A l, m \in locks : l.by # m.by /\ l.row = m.row => ~Rooms!Clash(l.mode, m.mode)

\* The profile of a Bot that is there is kept from being deleted.
Keeps(c, a) == Rooms!Held(c, Rooms!Profile(a), "share") \in locks /\ a \notin deleted

\* What a request has locked on its way.
Locked(c) ==
  LET k == call[c] IN
  /\ k.kind \in Making =>
       /\ k.pc = "share" => \A n \in 1..(k.i - 1) : Keeps(c, Rooms!InOrder(k.asks)[n])
       /\ k.pc \in {"insert", "refer", "commit"} => \A a \in Rooms!Named(k.asks) : Keeps(c, a)
  /\ k.kind \in Changing /\ k.pc = "commit" =>
       Rooms!Held(c, Rooms!Profile(k.asks[1]), "update") \in locks

\* The places in a room are taken from the first, so there are no more than Bots in it.
Placing(seen) == \A a \in DOMAIN seen : seen[a] < Cardinality(DOMAIN seen)

\* What an addition has read: there was room for it, and nobody has left since.
Read(c) ==
  LET k == call[c] IN
  k.kind = "add" /\ k.pc \in Written =>
    /\ DOMAIN k.seen \subseteq DOMAIN room /\ Rooms!Named(k.asks) \cap DOMAIN k.seen = {}
    /\ Cardinality(DOMAIN k.seen) + Len(k.asks) <= Cap
    /\ Placing(k.seen)
    /\ ~doubled => k.seen = room

\* The room: nobody is placed beyond the cap, and nobody twice unless two added at once.
InRoom ==
  /\ Placing(room) /\ \A a \in DOMAIN room : room[a] < Cap
  /\ ~doubled =>
       /\ Cardinality(DOMAIN room) <= Cap
       /\ \A a, b \in DOMAIN room : room[a] = room[b] => a = b
       /\ \A c, d \in Rooms!Calls : Rooms!Adds(c) /\ Rooms!Adds(d) => c = d

RoomsInv ==
  /\ RoomTypes /\ Compatible /\ InRoom
  /\ \A c \in Rooms!Calls : AtItsPlace(c) /\ Locked(c) /\ Read(c)

\* Cardinality is the same operator for each part.
LEMMA RoomsCardinality == \A S : Rooms!Cardinality(S) = Cardinality(S)
  BY Zenon DEF Rooms!Cardinality, Cardinality

\* Counting the numbers of a finite set from the least, each has its turn, once.
LEMMA NthIs ==
  ASSUME NEW S, IsFiniteSet(S), S \subseteq Nat
  PROVE  /\ \A n \in 1..Cardinality(S) : Rooms!Nth(S, n) \in S
         /\ \A m, n \in 1..Cardinality(S) : Rooms!Nth(S, m) = Rooms!Nth(S, n) => m = n
         /\ \A a \in S : \E n \in 1..Cardinality(S) : Rooms!Nth(S, n) = a
<1> DEFINE UpTo(a) == {b \in S : b <= a}
           k == Cardinality(S)
           rank == [a \in S |-> Cardinality(UpTo(a))]
<1>1. k \in Nat
  BY FS_CardinalityType
<1>2. \A a \in S : IsFiniteSet(UpTo(a)) /\ UpTo(a) \subseteq S /\ a \in UpTo(a)
  BY FS_Subset
<1>3. \A a \in S : rank[a] \in 1..k
  <2> SUFFICES ASSUME NEW a \in S
               PROVE  Cardinality(UpTo(a)) \in 1..k
    OBVIOUS
  <2> HIDE DEF UpTo
  <2>1. Cardinality(UpTo(a)) \in Nat /\ Cardinality(UpTo(a)) <= k
    BY <1>2, Within
  <2>2. Cardinality(UpTo(a)) # 0
    BY <1>2, FS_EmptySet
  <2> QED
    BY <1>1, <2>1, <2>2
<1>4. ASSUME NEW a \in S, NEW b \in S, a < b
      PROVE  rank[a] < rank[b]
  <2>0. a \in Nat /\ b \in Nat
    OBVIOUS
  <2>1. b \in UpTo(b) /\ UpTo(a) \subseteq UpTo(b) \ {b} /\ IsFiniteSet(UpTo(b))
    <3>1. \A x \in UpTo(a) : x \in Nat /\ x <= a /\ x \in S
      OBVIOUS
    <3>2. \A x \in UpTo(a) : x <= b /\ x # b
      BY <1>4, <2>0, <3>1
    <3> QED
      BY <1>2, <3>1, <3>2
  <2> HIDE DEF UpTo
  <2>2. Cardinality(UpTo(a)) + 1 <= Cardinality(UpTo(b)) /\ Cardinality(UpTo(a)) \in Nat
        /\ Cardinality(UpTo(b)) \in Nat
    BY <2>1, OneLess
  <2> QED
    BY <2>2
<1>5. \A a, b \in S : a # b => rank[a] # rank[b]
  <2> SUFFICES ASSUME NEW a \in S, NEW b \in S, a # b
               PROVE  rank[a] # rank[b]
    OBVIOUS
  <2>1. rank[a] \in Nat /\ rank[b] \in Nat /\ (a < b \/ b < a)
    BY <1>1, <1>3
  <2> HIDE DEF rank
  <2> QED
    BY <1>4, <2>1
<1>6. rank \in [S -> 1..k]
  BY <1>3
<1> HIDE DEF rank, k
<1>7. rank \in Injection(S, 1..k)
  BY <1>5, <1>6 DEF Injection, IsInjective
<1>8. IsFiniteSet(1..k) /\ Cardinality(1..k) = k
  <2>1. 1 \in Int /\ k \in Int /\ (1 > k => k = 0) /\ (k - 1) + 1 = k
    BY <1>1
  <2> QED
    BY <2>1, FS_Interval
<1>9. rank \in Surjection(S, 1..k)
  BY <1>7, <1>8, FS_Injection DEF k
<1>10. ASSUME NEW n \in 1..k
       PROVE  Rooms!Nth(S, n) \in S /\ rank[Rooms!Nth(S, n)] = n
  <2>1. PICK a \in S : rank[a] = n
    BY <1>9 DEF Surjection
  <2>2. Cardinality(UpTo(a)) = n
    BY <2>1 DEF rank
  <2>3. Rooms!Nth(S, n) = CHOOSE x \in S : Cardinality(UpTo(x)) = n
    BY RoomsCardinality DEF Rooms!Nth
  <2> HIDE DEF UpTo
  <2>4. Rooms!Nth(S, n) \in S /\ Cardinality(UpTo(Rooms!Nth(S, n))) = n
    BY <2>2, <2>3
  <2> QED
    BY <2>4 DEF rank
<1>11. \A a \in S : Rooms!Nth(S, rank[a]) = a /\ rank[a] \in 1..k
  BY <1>5, <1>6, <1>10
<1> QED
  BY <1>10, <1>11 DEF k

\* A list of a request names as many Bots as it is long.
LEMMA ListIs ==
  ASSUME NEW asks \in Rooms!Lists
  PROVE  /\ Len(asks) \in 1..Cap /\ DOMAIN asks = 1..Len(asks)
         /\ asks \in [1..Len(asks) -> Agents] /\ asks \in Seq(Agents)
         /\ \A i, j \in 1..Len(asks) : asks[i] = asks[j] => i = j
         /\ Rooms!Named(asks) \subseteq Agents /\ IsFiniteSet(Rooms!Named(asks))
         /\ Cardinality(Rooms!Named(asks)) = Len(asks)
<1>1. PICK n \in 1..Cap : /\ asks \in [1..n -> Agents]
                          /\ \A i, j \in 1..n : asks[i] = asks[j] => i = j
  BY DEF Rooms!Lists
<1>2. n \in Nat
  BY RoomsAssumption
<1>3. asks \in Seq(Agents) /\ Len(asks) = n /\ DOMAIN asks = 1..n
  BY <1>1, <1>2
<1>4. Rooms!Named(asks) = {asks[i] : i \in 1..n}
  BY <1>3 DEF Rooms!Named
<1>5. Rooms!Named(asks) \subseteq Agents
  BY <1>1, <1>4
<1>6. IsFiniteSet(1..n) /\ Cardinality(1..n) = n
  <2>1. 1 \in Int /\ n \in Int /\ ~(1 > n) /\ (n - 1) + 1 = n
    BY <1>1, <1>2
  <2> QED
    BY <2>1, FS_Interval
<1>7. /\ asks \in Surjection(1..n, Rooms!Named(asks))
      /\ asks \in Injection(1..n, Rooms!Named(asks))
  BY <1>1, <1>4 DEF Surjection, Injection, IsInjective
<1>8. IsFiniteSet(Rooms!Named(asks)) /\ Cardinality(Rooms!Named(asks)) = n
  BY <1>6, <1>7, FS_Surjection
<1> QED
  BY <1>1, <1>3, <1>5, <1>8

\* In the order of their ids the Bots of a list are all there.
LEMMA InOrderIs ==
  ASSUME NEW asks \in Rooms!Lists
  PROVE  /\ \A n \in 1..Len(asks) : Rooms!InOrder(asks)[n] \in Rooms!Named(asks)
         /\ \A a \in Rooms!Named(asks) : \E n \in 1..Len(asks) : Rooms!InOrder(asks)[n] = a
<1>1. /\ IsFiniteSet(Rooms!Named(asks)) /\ Rooms!Named(asks) \subseteq Nat
      /\ Cardinality(Rooms!Named(asks)) = Len(asks)
  BY ListIs, RoomsAssumption
<1>2. \A n \in 1..Len(asks) : Rooms!InOrder(asks)[n] = Rooms!Nth(Rooms!Named(asks), n)
  BY DEF Rooms!InOrder
<1> QED
  BY <1>1, <1>2, NthIs

\* What is left of a list when those who are present are taken out.
LEMMA MissingIs ==
  ASSUME NEW asks \in Rooms!Lists, NEW present
  PROVE  LET more == Rooms!Missing(asks, present)
         IN  /\ more \in Seq(Agents) /\ (more # << >> => more \in Rooms!Lists)
             /\ Rooms!Named(more) = Rooms!Named(asks) \ present
<1> DEFINE free == {n \in DOMAIN asks : asks[n] \notin present}
           k == Cardinality(free)
           more == Rooms!Missing(asks, present)
<1>1. /\ Len(asks) \in 1..Cap /\ DOMAIN asks = 1..Len(asks)
      /\ asks \in [1..Len(asks) -> Agents]
      /\ \A i, j \in 1..Len(asks) : asks[i] = asks[j] => i = j
  BY ListIs
<1>2. Len(asks) \in Nat /\ Cap \in Nat
  BY <1>1, RoomsAssumption
<1>3. IsFiniteSet(1..Len(asks)) /\ Cardinality(1..Len(asks)) = Len(asks)
  <2>1. 1 \in Int /\ Len(asks) \in Int /\ ~(1 > Len(asks)) /\ (Len(asks) - 1) + 1 = Len(asks)
    BY <1>1, <1>2
  <2> QED
    BY <2>1, FS_Interval
<1>4. free \subseteq 1..Len(asks) /\ free \subseteq Nat /\ IsFiniteSet(free)
  BY <1>1, <1>2, <1>3, FS_Subset
<1>5. k \in Nat /\ k <= Cap
  <2> HIDE DEF free
  <2>1. k \in Nat /\ k <= Len(asks)
    BY <1>3, <1>4, Within
  <2> QED
    BY <1>1, <1>2, <2>1
<1>6. more = [m \in 1..k |-> asks[Rooms!Nth(free, m)]]
  BY RoomsCardinality DEF Rooms!Missing
<1>7. /\ \A n \in 1..k : Rooms!Nth(free, n) \in free
      /\ \A m, n \in 1..k : Rooms!Nth(free, m) = Rooms!Nth(free, n) => m = n
      /\ \A i \in free : \E n \in 1..k : Rooms!Nth(free, n) = i
  <2> HIDE DEF free
  <2> QED
    BY <1>4, NthIs
<1> HIDE DEF k, more
<1>8. more \in [1..k -> Agents] /\ \A i, j \in 1..k : more[i] = more[j] => i = j
  BY <1>1, <1>6, <1>7
<1>9. more \in Seq(Agents) /\ Len(more) = k /\ DOMAIN more = 1..k
  BY <1>5, <1>8
<1>10. more # << >> => more \in Rooms!Lists
  <2> SUFFICES ASSUME more # << >>
               PROVE  more \in Rooms!Lists
    OBVIOUS
  <2>1. k \in 1..Cap
    BY <1>2, <1>5, <1>9
  <2> QED
    BY <1>8, <2>1 DEF Rooms!Lists
<1>11. Rooms!Named(more) = Rooms!Named(asks) \ present
  <2>1. Rooms!Named(more) = {more[n] : n \in 1..k}
    BY <1>9 DEF Rooms!Named
  <2>2. \A n \in 1..k : more[n] \in Rooms!Named(asks) \ present
    BY <1>1, <1>6, <1>7 DEF Rooms!Named
  <2>3. ASSUME NEW a \in Rooms!Named(asks) \ present
        PROVE  \E n \in 1..k : more[n] = a
    <3>1. PICK i \in free : asks[i] = a
      BY DEF Rooms!Named
    <3>2. PICK n \in 1..k : Rooms!Nth(free, n) = i
      BY <1>7
    <3> QED
      BY <1>6, <3>1, <3>2
  <2> QED
    BY <2>1, <2>2, <2>3
<1> QED
  BY <1>9, <1>10, <1>11 DEF more

\* What the next statement of a request locks is its own, and of the kind its request may
\* lock.
LEMMA WantsIs ==
  ASSUME RoomTypes, NEW c \in Rooms!Calls, AtItsPlace(c), Rooms!Underway(c),
         NEW w \in Rooms!Wants(c)
  PROVE  /\ w \in RoomLock /\ w.by = c
         /\ w.row[1] = "channel_agents" => call[c].kind = "add"
         /\ w.mode = "update" /\ w.row[1] # "channel_agents" => call[c].kind \in Changing
<1> DEFINE k == call[c]
           a == k.asks[k.i]
           b == Rooms!InOrder(k.asks)[k.i]
<1>1. k.asks \in Rooms!Lists
  BY DEF AtItsPlace
<1>2. DOMAIN k.asks = 1..Len(k.asks) /\ \A n \in 1..Len(k.asks) : k.asks[n] \in Agents
  BY <1>1, ListIs
<1>3. \A n \in 1..Len(k.asks) : Rooms!InOrder(k.asks)[n] \in Agents
  BY <1>1, ListIs, InOrderIs
<1>4. k.pc \in {"share", "insert", "refer"} => k.i \in 1..Len(k.asks)
  BY DEF AtItsPlace
<1>5. k.pc \in {"agent", "profile"} => k.i \in 1..Len(k.asks) /\ k.kind \in Changing
  <2>1. Len(k.asks) \in 1..Cap
    BY <1>1, ListIs
  <2>2. Cap \in Nat
    BY RoomsAssumption
  <2> QED
    BY <2>1, <2>2 DEF AtItsPlace
<1>6. k.pc \in {"share", "insert", "refer", "agent", "profile"} => a \in Agents
  BY <1>2, <1>4, <1>5
<1>7. k.pc = "share" => b \in Agents
  BY <1>3, <1>4
<1>8. Rooms!Wants(c) =
        CASE k.pc = "agent"   -> {Rooms!Held(c, Rooms!Agent(a), "update")}
          [] k.pc = "profile" -> {Rooms!Held(c, Rooms!Profile(a), "update")}
          [] k.pc = "share"   -> {Rooms!Held(c, Rooms!Profile(b), "share")}
          [] k.pc = "insert" /\ k.kind = "add" -> {Rooms!Held(c, Rooms!Member(a), "update")}
          [] k.pc = "refer"   -> {Rooms!Held(c, Rooms!Agent(a), "key share")}
          [] OTHER -> {}
  BY DEF Rooms!Wants
<1> HIDE DEF k, a, b
<1>9. \/ k.pc = "agent" /\ w = Rooms!Held(c, Rooms!Agent(a), "update")
      \/ k.pc = "profile" /\ w = Rooms!Held(c, Rooms!Profile(a), "update")
      \/ k.pc = "share" /\ w = Rooms!Held(c, Rooms!Profile(b), "share")
      \/ k.pc = "insert" /\ k.kind = "add" /\ w = Rooms!Held(c, Rooms!Member(a), "update")
      \/ k.pc = "refer" /\ w = Rooms!Held(c, Rooms!Agent(a), "key share")
  BY <1>8
<1>10. k = call[c]
  BY DEF k
<1> USE DEF Rooms!Held, Rooms!Agent, Rooms!Profile, Rooms!Member, RoomLock, RowsOf
<1>11. CASE k.pc = "agent" /\ w = Rooms!Held(c, Rooms!Agent(a), "update")
  BY <1>5, <1>6, <1>10, <1>11
<1>12. CASE k.pc = "profile" /\ w = Rooms!Held(c, Rooms!Profile(a), "update")
  BY <1>5, <1>6, <1>10, <1>12
<1>13. CASE k.pc = "share" /\ w = Rooms!Held(c, Rooms!Profile(b), "share")
  BY <1>7, <1>10, <1>13
<1>14. CASE k.pc = "insert" /\ k.kind = "add" /\ w = Rooms!Held(c, Rooms!Member(a), "update")
  BY <1>6, <1>10, <1>14
<1>15. CASE k.pc = "refer" /\ w = Rooms!Held(c, Rooms!Agent(a), "key share")
  BY <1>6, <1>10, <1>15
<1> QED
  BY <1>9, <1>11, <1>12, <1>13, <1>14, <1>15

\* A request goes on: its place is another, and all else of it and of the others is as it
\* was.
LEMMA ARequestGoes ==
  ASSUME RoomTypes, NEW c \in Rooms!Calls, NEW label \in Places, NEW i \in Nat,
         Rooms!Goes(c, label, i)
  PROVE  /\ call' \in [Rooms!Calls -> RoomCall]
         /\ call'[c].pc = label /\ call'[c].i = i /\ call'[c].kind = call[c].kind
         /\ call'[c].asks = call[c].asks /\ call'[c].seen = call[c].seen
         /\ \A d \in Rooms!Calls \ {c} : call'[d] = call[d]
         /\ locks' = locks \cup Rooms!Wants(c)
<1>1. PICK r : r = [call[c] EXCEPT !.pc = label, !.i = i]
  OBVIOUS
<1>2. call[c] \in RoomCall /\ call \in [Rooms!Calls -> RoomCall]
  BY DEF RoomTypes
<1>3. call' = [call EXCEPT ![c] = r] /\ locks' = locks \cup Rooms!Wants(c)
  <2>1. call' = [call EXCEPT ![c].pc = label, ![c].i = i]
        /\ locks' = locks \cup Rooms!Wants(c)
    BY DEF Rooms!Goes
  <2> QED
    BY <1>1, <1>2, <2>1
<1>4. /\ r \in RoomCall /\ r.pc = label /\ r.i = i /\ r.kind = call[c].kind
      /\ r.asks = call[c].asks /\ r.seen = call[c].seen
  BY <1>1, <1>2 DEF RoomCall
<1>5. call'[c] = r /\ \A d \in Rooms!Calls \ {c} : call'[d] = call[d]
  BY <1>2, <1>3
<1>6. call' \in [Rooms!Calls -> RoomCall]
  BY <1>2, <1>3, <1>4
<1> QED
  BY <1>3, <1>4, <1>5, <1>6

\* A request is over: it has no locks, and the others are as they were.
LEMMA ARequestEnds ==
  ASSUME RoomTypes, NEW c \in Rooms!Calls, NEW how \in {"done", "refused", "victim"},
         Rooms!Ends(c, how)
  PROVE  /\ call' \in [Rooms!Calls -> RoomCall]
         /\ call'[c].pc = how
         /\ \A d \in Rooms!Calls \ {c} : call'[d] = call[d]
         /\ locks' = {l \in locks : l.by # c}
<1>1. PICK r : r = [call[c] EXCEPT !.pc = how]
  OBVIOUS
<1>2. call[c] \in RoomCall /\ call \in [Rooms!Calls -> RoomCall]
  BY DEF RoomTypes
<1>3. call' = [call EXCEPT ![c] = r] /\ locks' = {l \in locks : l.by # c}
  <2>1. call' = [call EXCEPT ![c].pc = how] /\ locks' = {l \in locks : l.by # c}
    BY DEF Rooms!Ends
  <2> QED
    BY <1>1, <1>2, <2>1
<1>4. r \in RoomCall /\ r.pc = how
  BY <1>1, <1>2 DEF RoomCall, Places
<1> QED
  BY <1>2, <1>3, <1>4

\* The locks that a request adds where it is let pass fit those that are held.
LEMMA LocksAreAdded ==
  ASSUME RoomsInv, NEW c \in Rooms!Calls, Rooms!Underway(c), Rooms!Takes(c),
         locks' = locks \cup Rooms!Wants(c),
         Rooms!Underway(c)', call'[c].pc # "read", call'[c].kind = call[c].kind,
         \A d \in Rooms!Calls \ {c} : call'[d] = call[d]
  PROVE  locks' \subseteq RoomLock /\ Compatible'
<1>1. RoomTypes /\ AtItsPlace(c) /\ Compatible
  BY DEF RoomsInv
<1>2. \A w \in Rooms!Wants(c) :
         /\ w \in RoomLock /\ w.by = c
         /\ w.row[1] = "channel_agents" => call[c].kind = "add"
         /\ w.mode = "update" /\ w.row[1] # "channel_agents" => call[c].kind \in Changing
  BY <1>1, WantsIs
<1>3. locks' \subseteq RoomLock
  BY <1>1, <1>2 DEF RoomTypes
<1>4. \A l \in locks' : l.by \in Rooms!Calls /\ call'[l.by].kind = call[l.by].kind
  BY <1>3 DEF RoomLock
<1>5. \A l \in locks' : Rooms!Underway(l.by)' /\ call'[l.by].pc # "read"
  <2>1. \A l \in locks : Rooms!Underway(l.by) /\ call[l.by].pc # "read"
    BY <1>1 DEF Compatible
  <2>2. \A l \in locks' : l.by = c \/ (l \in locks /\ l.by \in Rooms!Calls \ {c})
    BY <1>2, <1>4
  <2> QED
    BY <2>1, <2>2 DEF Rooms!Underway
<1>6. ASSUME NEW l \in locks'
      PROVE  /\ l.row[1] = "channel_agents" => call'[l.by].kind = "add"
             /\ l.mode = "update" /\ l.row[1] # "channel_agents"
                  => call'[l.by].kind \in Changing
  <2>1. CASE l \in locks
    BY <1>1, <1>4, <2>1 DEF Compatible
  <2>2. CASE l \in Rooms!Wants(c)
    BY <1>2, <2>2
  <2> QED
    BY <2>1, <2>2
<1>7. ASSUME NEW w \in Rooms!Wants(c), NEW l \in locks, l.by # c, l.row = w.row
      PROVE  ~Rooms!Clash(l.mode, w.mode)
  <2>1. ~Rooms!Blocks(l.by, c, w.row, w.mode)
    BY <1>4 DEF Rooms!Takes, Rooms!Free
  <2> QED
    BY <1>7, <2>1 DEF Rooms!Blocks
<1>8. \A x, y : Rooms!Clash(x, y) = Rooms!Clash(y, x)
  BY DEF Rooms!Clash
<1>9. ASSUME NEW l \in locks', NEW m \in locks', l.by # m.by, l.row = m.row
      PROVE  ~Rooms!Clash(l.mode, m.mode)
  <2>1. CASE l \in locks /\ m \in locks
    BY <1>1, <1>9, <2>1 DEF Compatible
  <2>2. CASE l \in locks /\ m \in Rooms!Wants(c)
    BY <1>2, <1>7, <1>9, <2>2
  <2>3. CASE l \in Rooms!Wants(c) /\ m \in locks
    BY <1>2, <1>7, <1>8, <1>9, <2>3
  <2>4. CASE l \in Rooms!Wants(c) /\ m \in Rooms!Wants(c)
    BY <1>2, <1>9, <2>4
  <2> QED
    BY <2>1, <2>2, <2>3, <2>4
<1> QED
  BY <1>3, <1>5, <1>6, <1>9 DEF Compatible, Rooms!Clash

\* Those that are left when a request is over fit as before.
LEMMA LocksAreLeft ==
  ASSUME RoomsInv, NEW c \in Rooms!Calls, locks' = {l \in locks : l.by # c},
         \A d \in Rooms!Calls \ {c} : call'[d] = call[d]
  PROVE  locks' \subseteq RoomLock /\ Compatible'
<1>1. locks \subseteq RoomLock /\ Compatible
  BY DEF RoomsInv, RoomTypes
<1>2. \A l \in locks' : l \in locks /\ call'[l.by] = call[l.by]
  BY <1>1 DEF RoomLock
<1>3. \A l \in locks' : Rooms!Underway(l.by)'
  BY <1>1, <1>2 DEF Compatible, Rooms!Underway
<1> QED
  BY <1>1, <1>2, <1>3 DEF Compatible, Rooms!Clash

\* The other requests are as they were.
LEMMA OthersAreAsTheyWere ==
  ASSUME RoomsInv, NEW c \in Rooms!Calls, NEW d \in Rooms!Calls \ {c}, call'[d] = call[d],
         \A l \in locks : l.by = d => l \in locks',
         deleted' = deleted, room' = room, ~doubled' => ~doubled
  PROVE  AtItsPlace(d)' /\ Locked(d)' /\ Read(d)'
<1>1. AtItsPlace(d) /\ Locked(d) /\ Read(d)
  BY DEF RoomsInv
<1>2. \A row, mode : Rooms!Held(d, row, mode) \in locks => Rooms!Held(d, row, mode) \in locks'
  BY DEF Rooms!Held
<1>3. AtItsPlace(d)'
  BY <1>1 DEF AtItsPlace, Rooms!Underway
<1>4. Locked(d)'
  <2> DEFINE k == call[d]
  <2>1. k' = k /\ deleted' = deleted
    OBVIOUS
  <2> HIDE DEF k
  <2>2. k.kind \in Making /\ k.pc = "share" =>
          \A n \in 1..(k.i - 1) :
            Rooms!Held(d, Rooms!Profile(Rooms!InOrder(k.asks)[n]), "share") \in locks'
            /\ Rooms!InOrder(k.asks)[n] \notin deleted
    BY <1>1, <1>2 DEF Locked, Keeps, k
  <2>3. k.kind \in Making /\ k.pc \in {"insert", "refer", "commit"} =>
          \A a \in Rooms!Named(k.asks) :
            Rooms!Held(d, Rooms!Profile(a), "share") \in locks' /\ a \notin deleted
    BY <1>1, <1>2 DEF Locked, Keeps, k
  <2>4. k.kind \in Changing /\ k.pc = "commit" =>
          Rooms!Held(d, Rooms!Profile(k.asks[1]), "update") \in locks'
    BY <1>1, <1>2 DEF Locked, k
  <2> QED
    BY <2>1, <2>2, <2>3, <2>4, Zenon DEF Locked, Keeps, k
<1>5. Read(d)'
  BY <1>1 DEF Read, Placing, Rooms!Named
<1> QED
  BY <1>3, <1>4, <1>5

\* Who is in the room is as it was, and nobody began to add to it.
LEMMA TheRoomIsAsItWas ==
  ASSUME RoomsInv, room' = room, ~doubled' => ~doubled,
         \A d \in Rooms!Calls : Rooms!Adds(d)' => Rooms!Adds(d)
  PROVE  InRoom'
<1>1. InRoom
  BY DEF RoomsInv
<1>2. ~doubled' => \A c, d \in Rooms!Calls : Rooms!Adds(c)' /\ Rooms!Adds(d)' => c = d
  BY <1>1 DEF InRoom
<1> QED
  BY <1>1, <1>2 DEF InRoom, Placing

\* A request goes on and takes what its statement locks.
LEMMA GoingKeeps ==
  ASSUME RoomsInv, NEW c \in Rooms!Calls,
         NEW label \in {"share", "insert", "refer", "profile", "commit"}, NEW i \in Nat,
         Rooms!Underway(c), Rooms!Takes(c), Rooms!Goes(c, label, i),
         UNCHANGED <<deleted, room, doubled>>,
         call[c].kind = "add" => call[c].pc \in Written,
         label \in {"share", "insert", "refer"} =>
           call[c].kind \in Making /\ i \in 1..Len(call[c].asks),
         label = "profile" => call[c].kind \in Changing /\ i = 1,
         Locked(c)'
  PROVE  RoomsInv'
<1>1. RoomTypes /\ AtItsPlace(c) /\ Read(c)
  BY DEF RoomsInv
<1>2. label \in Places /\ label \notin {"idle", "done", "refused", "victim", "read", "agent"}
  BY DEF Places
<1>3. /\ call' \in [Rooms!Calls -> RoomCall]
      /\ call'[c].pc = label /\ call'[c].i = i /\ call'[c].kind = call[c].kind
      /\ call'[c].asks = call[c].asks /\ call'[c].seen = call[c].seen
      /\ \A d \in Rooms!Calls \ {c} : call'[d] = call[d]
      /\ locks' = locks \cup Rooms!Wants(c)
  BY <1>1, <1>2, ARequestGoes
<1>4. Rooms!Underway(c)'
  BY <1>2, <1>3 DEF Rooms!Underway
<1>5. locks' \subseteq RoomLock /\ Compatible'
  BY <1>2, <1>3, <1>4, LocksAreAdded
<1>6. RoomTypes'
  BY <1>1, <1>3, <1>5 DEF RoomTypes
<1>7. \A d \in Rooms!Calls : Rooms!Adds(d)' => Rooms!Adds(d)
  BY <1>3 DEF Rooms!Adds, Rooms!Underway
<1>8. InRoom'
  BY <1>7, TheRoomIsAsItWas
<1>9. AtItsPlace(c)'
  BY <1>1, <1>2, <1>3 DEF AtItsPlace
<1>10. Read(c)'
  BY <1>1, <1>3 DEF Read, Placing
<1>11. \A d \in Rooms!Calls \ {c} : AtItsPlace(d)' /\ Locked(d)' /\ Read(d)'
  BY <1>3, OthersAreAsTheyWere
<1> QED
  BY <1>5, <1>6, <1>8, <1>9, <1>10, <1>11 DEF RoomsInv

\* A request is over, and has changed nothing.
LEMMA EndingKeeps ==
  ASSUME RoomsInv, NEW c \in Rooms!Calls, NEW how \in {"done", "refused", "victim"},
         Rooms!Ends(c, how), UNCHANGED <<deleted, room, doubled>>
  PROVE  RoomsInv'
<1>1. RoomTypes
  BY DEF RoomsInv
<1>2. /\ call' \in [Rooms!Calls -> RoomCall] /\ call'[c].pc = how
      /\ \A d \in Rooms!Calls \ {c} : call'[d] = call[d]
      /\ locks' = {l \in locks : l.by # c}
  BY <1>1, ARequestEnds
<1>3. locks' \subseteq RoomLock /\ Compatible'
  BY <1>2, LocksAreLeft
<1>4. RoomTypes'
  BY <1>1, <1>2, <1>3 DEF RoomTypes
<1>5. \A d \in Rooms!Calls : Rooms!Adds(d)' => Rooms!Adds(d)
  BY <1>2 DEF Rooms!Adds, Rooms!Underway
<1>6. InRoom'
  BY <1>5, TheRoomIsAsItWas
<1>7. AtItsPlace(c)' /\ Locked(c)' /\ Read(c)'
  BY <1>2 DEF AtItsPlace, Locked, Read, Rooms!Underway, Written
<1>8. \A d \in Rooms!Calls \ {c} : AtItsPlace(d)' /\ Locked(d)' /\ Read(d)'
  BY <1>2, OthersAreAsTheyWere
<1> QED
  BY <1>3, <1>4, <1>6, <1>7, <1>8 DEF RoomsInv

\* A request comes.
LEMMA BeginningKeeps ==
  ASSUME RoomsInv, NEW c \in Rooms!Calls, NEW k \in Rooms!Kinds, NEW asks \in Rooms!Lists,
         Rooms!Begins(c, k, asks)
  PROVE  RoomsInv'
<1>1. /\ RoomTypes /\ Compatible /\ InRoom
      /\ \A d \in Rooms!Calls : AtItsPlace(d) /\ Locked(d) /\ Read(d)
  BY DEF RoomsInv
<1> DEFINE begun == [kind |-> k, asks |-> asks, seen |-> Rooms!Empty, i |-> 1,
                     pc |-> CASE k = "create" -> "share" [] k = "add" -> "read"
                              [] OTHER -> "agent"]
<1>2. /\ call[c].pc = "idle" /\ (k \in Changing => Len(asks) = 1)
      /\ call' = [call EXCEPT ![c] = begun]
      /\ doubled' = (doubled \/ (k = "add" /\ \E d \in Rooms!Calls : Rooms!Adds(d)))
      /\ UNCHANGED <<deleted, room, locks>>
  BY DEF Rooms!Begins, Changing
<1>3. k \in {"create", "add", "delete", "edit"}
  BY DEF Rooms!Kinds
<1>4. /\ Len(asks) \in 1..Cap /\ asks \in Seq(Agents) /\ 1 \in 1..Len(asks) /\ 1 \in Nat
  <2>1. Len(asks) \in 1..Cap /\ asks \in Seq(Agents) /\ Cap \in Nat
    BY ListIs, RoomsAssumption
  <2> QED
    BY <2>1
<1>5. Rooms!Empty \in Rooms!Room
  <2>1. Rooms!Empty \in [{} -> 0..2 * Cap] /\ {} \in SUBSET Agents
    BY DEF Rooms!Empty
  <2> QED
    BY <2>1 DEF Rooms!Room
<1>6. /\ begun \in RoomCall /\ begun.kind = k /\ begun.asks = asks /\ begun.i = 1
      /\ begun.pc = IF k = "create" THEN "share" ELSE IF k = "add" THEN "read" ELSE "agent"
  BY <1>3, <1>4, <1>5 DEF RoomCall, Places, Rooms!Kinds
<1> HIDE DEF begun
<1>7. /\ call' \in [Rooms!Calls -> RoomCall] /\ call'[c] = begun
      /\ \A d \in Rooms!Calls \ {c} : call'[d] = call[d]
  BY <1>1, <1>2, <1>6 DEF RoomTypes
<1>8. doubled' \in BOOLEAN /\ (~doubled' => ~doubled)
  BY <1>1, <1>2, Zenon DEF RoomTypes
<1>9. RoomTypes'
  BY <1>1, <1>2, <1>7, <1>8 DEF RoomTypes
<1>10. \A l \in locks : l.by \in Rooms!Calls \ {c}
  BY <1>1, <1>2 DEF RoomTypes, RoomLock, Compatible, Rooms!Underway
<1>11. \A l \in locks : call'[l.by] = call[l.by]
  BY <1>7, <1>10
<1>12. \A l \in locks : Rooms!Underway(l.by)'
  BY <1>1, <1>11 DEF Compatible, Rooms!Underway
<1>13. Compatible'
  BY <1>1, <1>2, <1>11, <1>12 DEF Compatible, Rooms!Clash
<1>14. InRoom'
  <2>1. ASSUME ~doubled', NEW d \in Rooms!Calls, NEW e \in Rooms!Calls,
               Rooms!Adds(d)', Rooms!Adds(e)'
        PROVE  d = e
    <3>1. ~doubled /\ (k = "add" => \A x \in Rooms!Calls : ~Rooms!Adds(x))
      BY <1>2, <2>1
    <3>2. \A x \in Rooms!Calls \ {c} : Rooms!Adds(x)' => Rooms!Adds(x)
      BY <1>7 DEF Rooms!Adds, Rooms!Underway
    <3>3. Rooms!Adds(c)' => k = "add"
      BY <1>6, <1>7 DEF Rooms!Adds
    <3> QED
      BY <1>1, <2>1, <3>1, <3>2, <3>3 DEF InRoom
  <2> QED
    BY <1>1, <1>2, <1>8, <2>1 DEF InRoom, Placing
<1>15. AtItsPlace(c)'
  BY <1>2, <1>3, <1>4, <1>6, <1>7 DEF AtItsPlace, Making, Changing
<1>16. Locked(c)'
  BY <1>3, <1>6, <1>7 DEF Locked, Making, Changing
<1>17. Read(c)'
  BY <1>3, <1>6, <1>7 DEF Read, Written
<1>18. \A d \in Rooms!Calls \ {c} : AtItsPlace(d)' /\ Locked(d)' /\ Read(d)'
  BY <1>2, <1>7, <1>8, OthersAreAsTheyWere
<1> QED
  BY <1>9, <1>13, <1>14, <1>15, <1>16, <1>17, <1>18 DEF RoomsInv

\* Who is in the room is read, and whoever is missing is to be added if there is room.
LEMMA ReadingKeeps ==
  ASSUME RoomsInv, NEW c \in Rooms!Calls, Rooms!ReadsRoom(c)
  PROVE  RoomsInv'
<1>1. /\ RoomTypes /\ Compatible /\ InRoom
      /\ \A d \in Rooms!Calls : AtItsPlace(d) /\ Locked(d) /\ Read(d)
  BY DEF RoomsInv
<1> DEFINE old == call[c]
           adding == Rooms!Missing(old.asks, DOMAIN room)
           to == IF Rooms!Overfull(room, Len(adding)) THEN "refused"
                 ELSE IF adding = << >> THEN "done" ELSE "share"
<1>2. PICK r : r = [old EXCEPT !.seen = room, !.asks = adding, !.pc = to]
  OBVIOUS
<1>3. /\ old.pc = "read" /\ call' = [call EXCEPT ![c] = r]
      /\ UNCHANGED <<deleted, room, locks, doubled>>
  <2>1. /\ call[c].pc = "read"
        /\ call' = [call EXCEPT ![c].seen = room, ![c].asks = adding, ![c].pc = to]
        /\ UNCHANGED <<deleted, room, locks, doubled>>
    BY DEF Rooms!ReadsRoom
  <2>2. call \in [Rooms!Calls -> RoomCall]
    BY <1>1 DEF RoomTypes
  <2> HIDE DEF adding, to
  <2> QED
    BY <1>2, <2>1, <2>2
<1>4. Rooms!Underway(c) /\ old.kind = "add" /\ old.i = 1 /\ old.asks \in Rooms!Lists
  BY <1>1, <1>3 DEF AtItsPlace, Rooms!Underway
<1>5. /\ adding \in Seq(Agents) /\ (adding # << >> => adding \in Rooms!Lists)
      /\ Rooms!Named(adding) = Rooms!Named(old.asks) \ DOMAIN room
  <2> HIDE DEF old
  <2> QED
    BY <1>4, MissingIs
<1>6. to \in {"refused", "done", "share"} /\ (to = "share" => adding # << >>)
      /\ (to = "share" => Cardinality(DOMAIN room) + Len(adding) <= Cap)
  <2>1. to = "share" => ~Rooms!Overfull(room, Len(adding)) /\ adding # << >>
    OBVIOUS
  <2>2. IsFiniteSet(DOMAIN room)
    BY <1>1, RoomsAssumption, FS_Subset DEF RoomTypes, Rooms!Room
  <2>3. Cardinality(DOMAIN room) \in Nat /\ Len(adding) \in Nat /\ Cap \in Nat
    BY <1>5, <2>2, FS_CardinalityType, RoomsAssumption
  <2>4. Rooms!Overfull(room, Len(adding)) <=> Cardinality(DOMAIN room) + Len(adding) > Cap
    BY RoomsCardinality DEF Rooms!Overfull
  <2>5. to \in {"refused", "done", "share"}
    OBVIOUS
  <2> HIDE DEF to, adding
  <2> QED
    BY <2>1, <2>3, <2>4, <2>5
<1> HIDE DEF adding, to
<1>7. /\ r \in RoomCall /\ r.pc = to /\ r.asks = adding /\ r.seen = room
      /\ r.kind = "add" /\ r.i = 1
  <2>1. old \in RoomCall /\ room \in Rooms!Room
    BY <1>1 DEF RoomTypes
  <2> HIDE DEF old
  <2> QED
    BY <1>2, <1>4, <1>5, <1>6, <2>1 DEF RoomCall, Places
<1>8. /\ call' \in [Rooms!Calls -> RoomCall] /\ call'[c] = r
      /\ \A d \in Rooms!Calls \ {c} : call'[d] = call[d]
  BY <1>1, <1>3, <1>7 DEF RoomTypes
<1>9. RoomTypes'
  BY <1>1, <1>3, <1>8 DEF RoomTypes
<1>10. \A l \in locks : l.by \in Rooms!Calls \ {c}
  BY <1>1, <1>3 DEF RoomTypes, RoomLock, Compatible
<1>11. \A l \in locks : call'[l.by] = call[l.by]
  BY <1>8, <1>10
<1>12. \A l \in locks : Rooms!Underway(l.by)'
  BY <1>1, <1>11 DEF Compatible, Rooms!Underway
<1>13. Compatible'
  BY <1>1, <1>3, <1>11, <1>12 DEF Compatible, Rooms!Clash
<1>14. InRoom'
  <2>1. \A d \in Rooms!Calls : Rooms!Adds(d)' => Rooms!Adds(d)
    BY <1>4, <1>8 DEF Rooms!Adds, Rooms!Underway
  <2> QED
    BY <1>3, <2>1, TheRoomIsAsItWas
<1>15. AtItsPlace(c)'
  <2>1. adding # << >> => 1 \in 1..Len(adding)
    BY <1>5
  <2> QED
    BY <1>5, <1>6, <1>7, <1>8, <2>1 DEF AtItsPlace, Rooms!Underway, Making, Changing
<1>16. Locked(c)'
  BY <1>6, <1>7, <1>8 DEF Locked, Changing
<1>17. Read(c)'
  <2>1. to = "share" => /\ Rooms!Named(adding) \cap DOMAIN room = {} /\ Placing(room)
                        /\ Cardinality(DOMAIN room) + Len(adding) <= Cap
    BY <1>1, <1>5, <1>6 DEF InRoom
  <2> QED
    BY <1>3, <1>6, <1>7, <1>8, <2>1 DEF Read, Written, Placing
<1>18. \A d \in Rooms!Calls \ {c} : AtItsPlace(d)' /\ Locked(d)' /\ Read(d)'
  BY <1>3, <1>8, OthersAreAsTheyWere
<1> QED
  BY <1>9, <1>13, <1>14, <1>15, <1>16, <1>17, <1>18 DEF RoomsInv

\* The profiles are locked Bot by Bot, and each is there.
LEMMA SharingKeeps ==
  ASSUME RoomsInv, NEW c \in Rooms!Calls, Rooms!Shares(c)
  PROVE  RoomsInv'
<1> DEFINE k == call[c]
           a == Rooms!InOrder(k.asks)[k.i]
<1>1. RoomTypes /\ AtItsPlace(c) /\ Locked(c) /\ Read(c) /\ k \in RoomCall
  BY DEF RoomsInv, RoomTypes
<1>2. /\ k.pc = "share" /\ Rooms!Takes(c) /\ UNCHANGED <<deleted, room, doubled>>
      /\ Rooms!Underway(c)
  BY DEF Rooms!Shares, Rooms!At, Rooms!Underway
<1>3. /\ k.kind \in Making /\ k.i \in 1..Len(k.asks) /\ k.asks \in Rooms!Lists
      /\ Len(k.asks) \in 1..Cap
  BY <1>1, <1>2, ListIs DEF AtItsPlace
<1>4. Len(k.asks) \in Nat /\ k.i \in Nat
  BY <1>1 DEF RoomCall
<1>5. Rooms!Wants(c) = {Rooms!Held(c, Rooms!Profile(a), "share")}
  BY <1>2 DEF Rooms!Wants
<1>6. CASE a \in deleted
  <2>1. Rooms!Ends(c, "refused")
    BY <1>6 DEF Rooms!Shares
  <2> QED
    BY <1>2, <2>1, EndingKeeps
<1>7. ASSUME a \notin deleted, NEW label \in Places, NEW i \in Nat, Rooms!Goes(c, label, i)
      PROVE  /\ call'[c].pc = label /\ call'[c].i = i /\ call'[c].kind = k.kind
             /\ call'[c].asks = k.asks
             /\ \A n \in 1..k.i : Keeps(c, Rooms!InOrder(k.asks)[n])
                                    \/ n = k.i
             /\ \A x : Keeps(c, x) \/ x = a =>
                  Rooms!Held(c, Rooms!Profile(x), "share") \in locks' /\ x \notin deleted'
  <2>1. /\ call'[c].pc = label /\ call'[c].i = i /\ call'[c].kind = k.kind
        /\ call'[c].asks = k.asks /\ locks' = locks \cup Rooms!Wants(c)
    BY <1>1, <1>7, ARequestGoes
  <2>2. \A n \in 1..(k.i - 1) : Keeps(c, Rooms!InOrder(k.asks)[n])
    BY <1>1, <1>2, <1>3 DEF Locked
  <2>3. \A n \in 1..k.i : n \in 1..(k.i - 1) \/ n = k.i
    BY <1>4
  <2> QED
    BY <1>2, <1>5, <1>7, <2>1, <2>2, <2>3 DEF Keeps
<1>8. CASE a \notin deleted /\ k.i < Len(k.asks)
  <2>1. Rooms!Goes(c, "share", k.i + 1)
    BY <1>8 DEF Rooms!Shares
  <2>2. k.i + 1 \in Nat /\ k.i + 1 \in 1..Len(k.asks) /\ (k.i + 1) - 1 = k.i
    BY <1>3, <1>4, <1>8
  <2>3. "share" \in Places /\ "share" \in Written
          /\ "share" \notin {"insert", "refer", "commit"}
    BY DEF Places, Written
  <2>4. /\ call'[c].pc = "share" /\ call'[c].i = k.i + 1 /\ call'[c].kind = k.kind
        /\ call'[c].asks = k.asks
        /\ \A n \in 1..k.i : Keeps(c, Rooms!InOrder(k.asks)[n]) \/ n = k.i
        /\ \A x : Keeps(c, x) \/ x = a =>
             Rooms!Held(c, Rooms!Profile(x), "share") \in locks' /\ x \notin deleted'
    BY <1>7, <1>8, <2>1, <2>2, <2>3
  <2> HIDE DEF k
  <2>5. \A n \in 1..k.i :
          LET x == Rooms!InOrder(k.asks)[n]
          IN Rooms!Held(c, Rooms!Profile(x), "share") \in locks' /\ x \notin deleted'
    BY <2>4
  <2>6. Locked(c)'
    BY <1>3, <2>2, <2>3, <2>4, <2>5 DEF Locked, Keeps, Making, Changing
  <2> QED
    BY <1>2, <1>3, <2>1, <2>2, <2>3, <2>6, GoingKeeps DEF k
<1>9. CASE a \notin deleted /\ ~(k.i < Len(k.asks))
  <2>1. Rooms!Goes(c, "insert", 1)
    BY <1>9 DEF Rooms!Shares
  <2>2. 1 \in Nat /\ 1 \in 1..Len(k.asks) /\ k.i = Len(k.asks)
    BY <1>3, <1>4, <1>9
  <2>3. "insert" \in Places /\ "share" \in Written
    BY DEF Places, Written
  <2>4. /\ call'[c].pc = "insert" /\ call'[c].kind = k.kind /\ call'[c].asks = k.asks
        /\ \A n \in 1..k.i : Keeps(c, Rooms!InOrder(k.asks)[n]) \/ n = k.i
        /\ \A x : Keeps(c, x) \/ x = a =>
             Rooms!Held(c, Rooms!Profile(x), "share") \in locks' /\ x \notin deleted'
    BY <1>7, <1>9, <2>1, <2>2, <2>3
  <2>5. \A x \in Rooms!Named(k.asks) : \E n \in 1..k.i : Rooms!InOrder(k.asks)[n] = x
    BY <1>3, <2>2, InOrderIs
  <2> HIDE DEF k
  <2>6. \A x \in Rooms!Named(k.asks) :
          Rooms!Held(c, Rooms!Profile(x), "share") \in locks' /\ x \notin deleted'
    BY <2>4, <2>5
  <2>7. Locked(c)'
    BY <1>3, <2>4, <2>6 DEF Locked, Keeps, Making, Changing
  <2> QED
    BY <1>2, <1>3, <2>1, <2>2, <2>3, <2>7, GoingKeeps DEF k
<1> QED
  BY <1>6, <1>8, <1>9

\* A request that makes keeps what it has locked while it goes on.
LEMMA MadeStaysLocked ==
  ASSUME RoomsInv, NEW c \in Rooms!Calls, call[c].kind \in Making,
         call[c].pc \in {"insert", "refer"},
         NEW label \in {"insert", "refer", "commit"}, NEW i \in Nat, Rooms!Goes(c, label, i),
         deleted' = deleted
  PROVE  Locked(c)'
<1>1. RoomTypes /\ Locked(c) /\ label \in Places
  BY DEF RoomsInv, Places
<1>2. /\ call'[c].pc = label /\ call'[c].kind = call[c].kind /\ call'[c].asks = call[c].asks
      /\ locks' = locks \cup Rooms!Wants(c)
  BY <1>1, ARequestGoes
<1>3. \A a \in Rooms!Named(call[c].asks) :
        Rooms!Held(c, Rooms!Profile(a), "share") \in locks' /\ a \notin deleted'
  BY <1>1, <1>2 DEF Locked, Keeps
<1>4. \A a \in Rooms!Named(call'[c].asks) :
        Rooms!Held(c, Rooms!Profile(a), "share") \in locks' /\ a \notin deleted'
  BY <1>2, <1>3
<1> QED
  BY <1>2, <1>4 DEF Locked, Keeps, Making, Changing

\* The rows are inserted, unless one is there.
LEMMA InsertingKeeps ==
  ASSUME RoomsInv, NEW c \in Rooms!Calls, Rooms!Inserts(c)
  PROVE  RoomsInv'
<1> DEFINE k == call[c]
           there == k.kind = "add" /\ k.asks[k.i] \in DOMAIN room
<1>1. RoomTypes /\ AtItsPlace(c) /\ k \in RoomCall
  BY DEF RoomsInv, RoomTypes
<1>2. /\ k.pc = "insert" /\ Rooms!Takes(c) /\ UNCHANGED <<deleted, room, doubled>>
      /\ Rooms!Underway(c)
  BY DEF Rooms!Inserts, Rooms!At, Rooms!Underway
<1>3. k.kind \in Making /\ k.i \in 1..Len(k.asks) /\ Len(k.asks) \in Nat /\ k.i \in Nat
  BY <1>1, <1>2 DEF AtItsPlace, RoomCall
<1>4. k.pc \in Written /\ 1 \in Nat /\ 1 \in 1..Len(k.asks)
  BY <1>2, <1>3 DEF Written
<1>5. CASE there
  <2>1. Rooms!Ends(c, "refused")
    BY <1>5 DEF Rooms!Inserts
  <2> QED
    BY <1>2, <2>1, EndingKeeps
<1>6. CASE ~there /\ k.i < Len(k.asks)
  <2>1. Rooms!Goes(c, "insert", k.i + 1)
    BY <1>6 DEF Rooms!Inserts
  <2>2. k.i + 1 \in Nat /\ k.i + 1 \in 1..Len(k.asks)
    BY <1>3, <1>6
  <2>3. Locked(c)'
    BY <1>2, <1>3, <2>1, <2>2, MadeStaysLocked
  <2> QED
    BY <1>2, <1>3, <1>4, <2>1, <2>2, <2>3, GoingKeeps
<1>7. CASE ~there /\ ~(k.i < Len(k.asks))
  <2>1. Rooms!Goes(c, "refer", 1)
    BY <1>7 DEF Rooms!Inserts
  <2>2. Locked(c)'
    BY <1>2, <1>3, <1>4, <2>1, MadeStaysLocked
  <2> QED
    BY <1>2, <1>3, <1>4, <2>1, <2>2, GoingKeeps
<1> QED
  BY <1>5, <1>6, <1>7

\* And their foreign keys are checked.
LEMMA ReferringKeeps ==
  ASSUME RoomsInv, NEW c \in Rooms!Calls, Rooms!Refers(c)
  PROVE  RoomsInv'
<1> DEFINE k == call[c]
<1>1. RoomTypes /\ AtItsPlace(c) /\ k \in RoomCall
  BY DEF RoomsInv, RoomTypes
<1>2. /\ k.pc = "refer" /\ Rooms!Takes(c) /\ UNCHANGED <<deleted, room, doubled>>
      /\ Rooms!Underway(c)
  BY DEF Rooms!Refers, Rooms!At, Rooms!Underway
<1>3. k.kind \in Making /\ k.i \in 1..Len(k.asks) /\ Len(k.asks) \in Nat /\ k.i \in Nat
  BY <1>1, <1>2 DEF AtItsPlace, RoomCall
<1>4. k.pc \in Written /\ 0 \in Nat
  BY <1>2 DEF Written
<1>5. CASE k.i < Len(k.asks)
  <2>1. Rooms!Goes(c, "refer", k.i + 1)
    BY <1>5 DEF Rooms!Refers
  <2>2. k.i + 1 \in Nat /\ k.i + 1 \in 1..Len(k.asks)
    BY <1>3, <1>5
  <2>3. Locked(c)'
    BY <1>2, <1>3, <2>1, <2>2, MadeStaysLocked
  <2> QED
    BY <1>2, <1>3, <1>4, <2>1, <2>2, <2>3, GoingKeeps
<1>6. CASE ~(k.i < Len(k.asks))
  <2>1. Rooms!Goes(c, "commit", 0)
    BY <1>6 DEF Rooms!Refers
  <2>2. Locked(c)'
    BY <1>2, <1>3, <1>4, <2>1, MadeStaysLocked
  <2> QED
    BY <1>2, <1>3, <1>4, <2>1, <2>2, GoingKeeps
<1> QED
  BY <1>5, <1>6

\* Whoever changes a Bot locks its two rows, the first first.
LEMMA ChangingKeeps ==
  ASSUME RoomsInv, NEW c \in Rooms!Calls, Rooms!LocksAgent(c) \/ Rooms!LocksProfile(c)
  PROVE  RoomsInv'
<1> DEFINE k == call[c]
<1>1. RoomTypes /\ AtItsPlace(c) /\ k \in RoomCall
  BY DEF RoomsInv, RoomTypes
<1>2. /\ k.pc \in {"agent", "profile"} /\ Rooms!Takes(c)
           /\ UNCHANGED <<deleted, room, doubled>>
      /\ Rooms!Underway(c)
  BY DEF Rooms!LocksAgent, Rooms!LocksProfile, Rooms!At, Rooms!Underway
<1>3. /\ k.kind \in Changing /\ k.kind \notin Making /\ k.kind # "add" /\ k.i = 1
      /\ 0 \in Nat /\ 1 \in Nat /\ "profile" \in Places /\ "commit" \in Places
  BY <1>1, <1>2 DEF AtItsPlace, Changing, Making, Places
<1>4. CASE Rooms!LocksAgent(c)
  <2>1. Rooms!Goes(c, "profile", 1)
    BY <1>4 DEF Rooms!LocksAgent
  <2>2. call'[c].pc = "profile" /\ call'[c].kind = k.kind
    BY <1>1, <1>3, <2>1, ARequestGoes
  <2>3. Locked(c)'
    BY <1>3, <2>2 DEF Locked
  <2> QED
    BY <1>2, <1>3, <2>1, <2>3, GoingKeeps
<1>5. CASE Rooms!LocksProfile(c) /\ k.asks[1] \in deleted
  <2>1. Rooms!Ends(c, "refused")
    BY <1>5 DEF Rooms!LocksProfile
  <2> QED
    BY <1>2, <2>1, EndingKeeps
<1>6. CASE Rooms!LocksProfile(c) /\ k.asks[1] \notin deleted
  <2>1. Rooms!Goes(c, "commit", 0) /\ k.pc = "profile"
    BY <1>6 DEF Rooms!LocksProfile, Rooms!At
  <2>2. /\ call'[c].pc = "commit" /\ call'[c].kind = k.kind /\ call'[c].asks = k.asks
        /\ locks' = locks \cup Rooms!Wants(c)
    BY <1>1, <1>3, <2>1, ARequestGoes
  <2>3. Rooms!Wants(c) = {Rooms!Held(c, Rooms!Profile(k.asks[1]), "update")}
    BY <1>3, <2>1 DEF Rooms!Wants
  <2>4. Locked(c)'
    BY <1>3, <2>2, <2>3 DEF Locked
  <2> QED
    BY <1>2, <1>3, <2>1, <2>4, GoingKeeps
<1> QED
  BY <1>4, <1>5, <1>6

\* The next place in a room is beyond those that are taken, and no further than there are
\* Bots in it.
LEMMA NextPositionIs ==
  ASSUME NEW seen \in Rooms!Room, Placing(seen)
  PROVE  /\ Rooms!NextPosition(seen) \in Nat
         /\ Rooms!NextPosition(seen) <= Cardinality(DOMAIN seen)
         /\ \A a \in DOMAIN seen : seen[a] \in Nat /\ seen[a] < Rooms!NextPosition(seen)
<1> DEFINE S == {seen[a] : a \in DOMAIN seen}
           top == CHOOSE p \in S : \A a \in DOMAIN seen : seen[a] <= p
<1>1. /\ DOMAIN seen \subseteq Agents /\ IsFiniteSet(DOMAIN seen)
      /\ seen \in [DOMAIN seen -> 0..2 * Cap]
  <2>1. PICK D \in SUBSET Agents : seen \in [D -> 0..2 * Cap]
    BY DEF Rooms!Room
  <2> QED
    BY <2>1, RoomsAssumption, FS_Subset
<1>2. Cap \in Nat /\ \A a \in DOMAIN seen : seen[a] \in Nat
  BY <1>1, RoomsAssumption
<1>3. Cardinality(DOMAIN seen) \in Nat
  BY <1>1, FS_CardinalityType
<1>4. CASE seen = Rooms!Empty
  <2>1. DOMAIN seen = {} /\ Rooms!NextPosition(seen) = 0
    BY <1>4 DEF Rooms!Empty, Rooms!NextPosition
  <2> QED
    BY <1>3, <2>1
<1>5. CASE seen # Rooms!Empty
  <2>1. DOMAIN seen # {}
    BY <1>1, <1>5 DEF Rooms!Empty
  <2>2. S # {} /\ \A p \in S : p \in Nat
    BY <1>2, <2>1
  <2>3. IsFiniteSet(S)
    <3>1. seen \in Surjection(DOMAIN seen, S)
      BY <1>1 DEF Surjection
    <3> HIDE DEF S
    <3> QED
      BY <1>1, <3>1, FS_Surjection
  <2>4. PICK m \in S : \A p \in S \ {m} : p < m
    <3> DEFINE R == {x \in Nat \X Nat : x[1] < x[2]}
    <3>1. \A p, q \in S : <<p, q>> \in R <=> p < q
      BY <2>2
    <3> HIDE DEF R, S
    <3>2. \A p \in S : <<p, p>> \notin R
      <4>1. \A p \in S : ~(p < p)
        BY <2>2
      <4> QED
        BY <3>1, <4>1
    <3>3. \A p, q \in S : p = q \/ <<p, q>> \in R \/ <<q, p>> \in R
      <4>1. \A p, q \in S : p = q \/ p < q \/ q < p
        BY <2>2
      <4> QED
        BY <3>1, <4>1
    <3>4. ASSUME NEW p \in S, NEW q \in S, NEW r \in S, <<p, q>> \in R, <<q, r>> \in R
          PROVE  <<p, r>> \in R
      <4>1. p < q /\ q < r /\ p \in Nat /\ q \in Nat /\ r \in Nat
        BY <2>2, <3>1, <3>4
      <4> QED
        BY <3>1, <4>1
    <3>5. \E m \in S : \A p \in S \ {m} : <<p, m>> \in R
      BY <2>2, <2>3, <3>2, <3>3, <3>4, TheGreatest, SMTT(30)
    <3> QED
      BY <3>1, <3>5
  <2>5. \A a \in DOMAIN seen : seen[a] <= m
    BY <1>2, <2>2, <2>4
  <2>6. top \in S /\ \A a \in DOMAIN seen : seen[a] <= top
    BY <2>5
  <2>7. Rooms!NextPosition(seen) = 1 + top
    BY <1>5 DEF Rooms!NextPosition
  <2>8. PICK a \in DOMAIN seen : seen[a] = top
    BY <2>6
  <2>9. top \in Nat /\ top < Cardinality(DOMAIN seen)
    BY <1>2, <2>8 DEF Placing
  <2> HIDE DEF top, S
  <2> QED
    BY <1>2, <1>3, <2>6, <2>7, <2>9
<1> QED
  BY <1>4, <1>5

\* Those who are added are placed beyond whoever was there, in the order of the request.
LEMMA PlacesAre ==
  ASSUME RoomTypes, NEW c \in Rooms!Calls, call[c].asks \in Rooms!Lists,
         call[c].seen \in Rooms!Room, Placing(call[c].seen)
  PROVE  LET placed == Rooms!Placed(c)
             named == Rooms!Named(call[c].asks)
         IN  /\ \A a \in named :
                  /\ placed[a] \in Nat
                  /\ placed[a] < Cardinality(DOMAIN call[c].seen) + Len(call[c].asks)
                  /\ \A b \in DOMAIN call[c].seen : call[c].seen[b] < placed[a]
             /\ \A a, b \in named : placed[a] = placed[b] => a = b
<1> DEFINE asks == call[c].asks
           seen == call[c].seen
           placed == Rooms!Placed(c)
           next == Rooms!NextPosition(seen)
           spot(a) == CHOOSE n \in DOMAIN asks : asks[n] = a
<1>1. DOMAIN asks = 1..Len(asks) /\ Len(asks) \in 1..Cap /\ Cap \in Nat
  BY ListIs, RoomsAssumption
<1>2. /\ next \in Nat /\ next <= Cardinality(DOMAIN seen)
      /\ \A b \in DOMAIN seen : seen[b] \in Nat /\ seen[b] < next
  <2> HIDE DEF seen
  <2> QED
    BY NextPositionIs DEF seen
<1>3. \A a \in Rooms!Named(asks) : placed[a] = next + spot(a) - 1
  BY DEF Rooms!Placed, Rooms!Inserted
<1>4. \A a \in Rooms!Named(asks) : spot(a) \in 1..Len(asks) /\ asks[spot(a)] = a
  <2> SUFFICES ASSUME NEW a \in Rooms!Named(asks)
               PROVE  spot(a) \in DOMAIN asks /\ asks[spot(a)] = a
    BY <1>1
  <2>1. \E n \in DOMAIN asks : asks[n] = a
    BY DEF Rooms!Named
  <2> QED
    BY <2>1
<1>5. Cardinality(DOMAIN seen) \in Nat
  <2>1. DOMAIN seen \subseteq Agents
    BY DEF Rooms!Room
  <2> QED
    BY <2>1, RoomsAssumption, FS_Subset, FS_CardinalityType
<1> HIDE DEF next, spot, seen, placed, asks
<1>6. \A a \in Rooms!Named(asks) :
        /\ placed[a] \in Nat /\ placed[a] < Cardinality(DOMAIN seen) + Len(asks)
        /\ placed[a] >= next
  BY <1>1, <1>2, <1>3, <1>4, <1>5
<1>7. ASSUME NEW a \in Rooms!Named(asks), NEW b \in Rooms!Named(asks), placed[a] = placed[b]
      PROVE  a = b
  <2>1. spot(a) = spot(b)
    BY <1>1, <1>2, <1>3, <1>4, <1>7
  <2> QED
    BY <1>4, <2>1
<1>8. \A a \in Rooms!Named(asks) : \A b \in DOMAIN seen : seen[b] < placed[a]
  BY <1>2, <1>6
<1> QED
  BY <1>6, <1>7, <1>8 DEF asks, seen, placed

\* The room after an addition: as full as it may be, and in order unless two added at once.
LEMMA AnAdditionFits ==
  ASSUME RoomsInv, NEW c \in Rooms!Calls, call[c].kind = "add", call[c].pc = "commit",
         room' = [a \in DOMAIN room \cup Rooms!Inserted(c) |->
                    IF a \in DOMAIN room THEN room[a] ELSE Rooms!Placed(c)[a]]
  PROVE  /\ room' \in Rooms!Room /\ DOMAIN room \subseteq DOMAIN room' /\ Placing(room')
         /\ \A a \in DOMAIN room' : room'[a] < Cap
         /\ ~doubled => /\ Cardinality(DOMAIN room') <= Cap
                        /\ \A a, b \in DOMAIN room' : room'[a] = room'[b] => a = b
<1> DEFINE asks == call[c].asks
           seen == call[c].seen
           placed == Rooms!Placed(c)
           named == Rooms!Named(asks)
           all2 == DOMAIN room \cup named
<1>1. RoomTypes /\ AtItsPlace(c) /\ Read(c) /\ InRoom /\ call[c] \in RoomCall
  BY DEF RoomsInv, RoomTypes
<1>2. asks \in Rooms!Lists /\ seen \in Rooms!Room
  BY <1>1 DEF AtItsPlace, RoomCall, Rooms!Underway
<1>3. /\ DOMAIN seen \subseteq DOMAIN room /\ named \cap DOMAIN seen = {}
      /\ Cardinality(DOMAIN seen) + Len(asks) <= Cap /\ Placing(seen)
      /\ (~doubled => seen = room)
  BY <1>1 DEF Read, Written
<1>4. /\ \A a \in named :
           /\ placed[a] \in Nat /\ placed[a] < Cardinality(DOMAIN seen) + Len(asks)
           /\ \A b \in DOMAIN seen : seen[b] < placed[a]
      /\ \A a, b \in named : placed[a] = placed[b] => a = b
  BY <1>1, <1>2, <1>3, PlacesAre
<1>5. named \subseteq Agents /\ IsFiniteSet(named) /\ Cardinality(named) = Len(asks)
  BY <1>2, ListIs
<1>6. /\ DOMAIN room \subseteq Agents /\ IsFiniteSet(DOMAIN room)
      /\ \A a \in DOMAIN room : room[a] \in 0..2 * Cap
  BY <1>1, RoomsAssumption, FS_Subset DEF RoomTypes, Rooms!Room
<1>7. IsFiniteSet(all2) /\ all2 \subseteq Agents
  BY <1>5, <1>6, FS_Union
<1>8. DOMAIN room' = all2 /\ \A a \in all2 :
        room'[a] = IF a \in DOMAIN room THEN room[a] ELSE placed[a]
  BY DEF Rooms!Inserted
<1>9. IsFiniteSet(DOMAIN seen) /\ Cardinality(DOMAIN seen) \in Nat
  BY <1>3, <1>6, FS_Subset, FS_CardinalityType
<1>10. Cardinality(DOMAIN seen \cup named) = Cardinality(DOMAIN seen) + Len(asks)
       /\ IsFiniteSet(DOMAIN seen \cup named)
  <2>1. Cardinality(DOMAIN seen \cap named) = 0
    BY <1>3, FS_EmptySet
  <2>2. Len(asks) \in Nat
    BY <1>2, ListIs, RoomsAssumption
  <2>3. /\ IsFiniteSet(DOMAIN seen \cup named)
        /\ Cardinality(DOMAIN seen \cup named) =
             Cardinality(DOMAIN seen) + Cardinality(named)
               - Cardinality(DOMAIN seen \cap named)
    BY <1>5, <1>9, FS_Union
  <2> QED
    BY <1>5, <1>9, <2>1, <2>2, <2>3
<1>11. /\ Cardinality(all2) \in Nat /\ Cardinality(DOMAIN room) <= Cardinality(all2)
       /\ Cardinality(DOMAIN room) \in Nat
       /\ Cardinality(DOMAIN seen) + Len(asks) <= Cardinality(all2)
  <2>1. DOMAIN seen \cup named \subseteq all2
    BY <1>3
  <2>2. Cardinality(DOMAIN seen \cup named) <= Cardinality(all2)
    BY <1>7, <2>1, FS_Subset
  <2>3. Cardinality(DOMAIN room) <= Cardinality(all2) /\ Cardinality(all2) \in Nat
        /\ Cardinality(DOMAIN room) \in Nat
    BY <1>6, <1>7, FS_Subset, FS_CardinalityType
  <2> QED
    BY <1>10, <2>2, <2>3
<1>12. Cap \in Nat /\ Len(asks) \in Nat
  BY <1>2, ListIs, RoomsAssumption
<1>13. \A a \in DOMAIN room : room[a] < Cardinality(DOMAIN room) /\ room[a] < Cap
         /\ room[a] \in Nat
  <2>1. \A a \in DOMAIN room : room[a] \in Nat
    BY <1>6, <1>12
  <2> QED
    BY <1>1, <2>1 DEF InRoom, Placing
<1> HIDE DEF named, placed, seen, asks
<1>14. \A a \in named : placed[a] \in Nat /\ placed[a] < Cap /\ placed[a] < Cardinality(all2)
  BY <1>3, <1>4, <1>9, <1>11, <1>12
<1>15. \A a \in all2 : room'[a] \in Nat /\ room'[a] < Cap /\ room'[a] < Cardinality(all2)
  <2> SUFFICES ASSUME NEW a \in all2
               PROVE  room'[a] \in Nat /\ room'[a] < Cap /\ room'[a] < Cardinality(all2)
    OBVIOUS
  <2>1. CASE a \in DOMAIN room
    BY <1>8, <1>11, <1>13, <2>1
  <2>2. CASE a \notin DOMAIN room
    BY <1>8, <1>14, <2>2
  <2> QED
    BY <2>1, <2>2
<1>16. Placing(room') /\ \A a \in DOMAIN room' : room'[a] < Cap
  BY <1>8, <1>15 DEF Placing
<1>17. room' \in Rooms!Room
  <2>1. \A a \in all2 : room'[a] \in 0..2 * Cap
    <3> SUFFICES ASSUME NEW a \in all2
                 PROVE  room'[a] \in 0..2 * Cap
      OBVIOUS
    <3> DEFINE x == room'[a]
    <3>1. x \in Nat /\ x < Cap /\ Cap \in Nat
      BY <1>12, <1>15
    <3> HIDE DEF x
    <3>2. x \in 0..2 * Cap
      BY <3>1
    <3> QED
      BY <3>2 DEF x
  <2>2. room' = [a \in all2 |-> IF a \in DOMAIN room THEN room[a] ELSE placed[a]]
    BY DEF Rooms!Inserted, named, asks, placed
  <2>3. room' \in [all2 -> 0..2 * Cap]
    BY <1>8, <2>1, <2>2
  <2> QED
    BY <1>7, <2>3 DEF Rooms!Room
<1>18. ASSUME ~doubled
       PROVE  /\ Cardinality(DOMAIN room') <= Cap
              /\ \A a, b \in DOMAIN room' : room'[a] = room'[b] => a = b
  <2>1. seen = room
    BY <1>3, <1>18
  <2>2. Cardinality(all2) <= Cap
    BY <1>3, <1>10, <2>1
  <2>3. ASSUME NEW a \in all2, NEW b \in all2, room'[a] = room'[b]
        PROVE  a = b
    <3>1. CASE a \in DOMAIN room /\ b \in DOMAIN room
      BY <1>1, <1>8, <1>18, <2>3, <3>1 DEF InRoom
    <3>2. CASE a \notin DOMAIN room /\ b \notin DOMAIN room
      BY <1>4, <1>8, <2>3, <3>2
    <3>3. CASE a \in DOMAIN room /\ b \notin DOMAIN room
      <4>1. room[a] < placed[b] /\ room[a] = placed[b] /\ room[a] \in Nat
        BY <1>4, <1>8, <1>13, <2>1, <2>3, <3>3
      <4> QED
        BY <4>1
    <3>4. CASE a \notin DOMAIN room /\ b \in DOMAIN room
      <4>1. room[b] < placed[a] /\ room[b] = placed[a] /\ room[b] \in Nat
        BY <1>4, <1>8, <1>13, <2>1, <2>3, <3>4
      <4> QED
        BY <4>1
    <3> QED
      BY <3>1, <3>2, <3>3, <3>4
  <2> QED
    BY <1>8, <2>2, <2>3
<1> QED
  BY <1>8, <1>16, <1>17, <1>18

\* What another request has locked, it keeps while what it keeps is kept.
LEMMA OthersStayLocked ==
  ASSUME RoomsInv, NEW c \in Rooms!Calls, NEW d \in Rooms!Calls \ {c}, call'[d] = call[d],
         locks' = {l \in locks : l.by # c},
         \A a : Keeps(d, a) => Keeps(d, a)'
  PROVE  Locked(d)'
<1> DEFINE k == call[d]
<1>1. Locked(d) /\ k' = k
  BY DEF RoomsInv
<1> HIDE DEF k
<1>2. \A row, mode : Rooms!Held(d, row, mode) \in locks => Rooms!Held(d, row, mode) \in locks'
  BY DEF Rooms!Held
<1>3. k.kind \in Making /\ k.pc = "share" =>
        \A n \in 1..(k.i - 1) :
          Rooms!Held(d, Rooms!Profile(Rooms!InOrder(k.asks)[n]), "share") \in locks'
          /\ Rooms!InOrder(k.asks)[n] \notin deleted'
  BY <1>1 DEF Locked, Keeps, k
<1>4. k.kind \in Making /\ k.pc \in {"insert", "refer", "commit"} =>
        \A a \in Rooms!Named(k.asks) :
          Rooms!Held(d, Rooms!Profile(a), "share") \in locks' /\ a \notin deleted'
  BY <1>1 DEF Locked, Keeps, k
<1>5. k.kind \in Changing /\ k.pc = "commit" =>
        Rooms!Held(d, Rooms!Profile(k.asks[1]), "update") \in locks'
  BY <1>1, <1>2 DEF Locked, k
<1> QED
  BY <1>1, <1>3, <1>4, <1>5, Zenon DEF Locked, Keeps, k

\* A request commits: what it has made or deleted is there.
LEMMA CommittingKeeps ==
  ASSUME RoomsInv, NEW c \in Rooms!Calls, Rooms!Commits(c)
  PROVE  RoomsInv'
<1> DEFINE k == call[c]
<1>1. /\ RoomTypes /\ AtItsPlace(c) /\ Locked(c) /\ InRoom /\ Compatible /\ k \in RoomCall
      /\ k.pc = "commit" /\ Rooms!Ends(c, "done") /\ doubled' = doubled
  BY DEF RoomsInv, RoomTypes, Rooms!Commits
<1>2. /\ call' \in [Rooms!Calls -> RoomCall] /\ call'[c].pc = "done"
      /\ \A d \in Rooms!Calls \ {c} : call'[d] = call[d]
      /\ locks' = {l \in locks : l.by # c}
  BY <1>1, ARequestEnds
<1>3. locks' \subseteq RoomLock /\ Compatible'
  BY <1>2, LocksAreLeft
<1>4. Rooms!Underway(c) /\ k.asks \in Rooms!Lists /\ k.kind \in Rooms!Kinds
  BY <1>1 DEF AtItsPlace, Rooms!Underway, RoomCall
<1>5. \A d \in Rooms!Calls : Rooms!Adds(d)' => Rooms!Adds(d)
  BY <1>2 DEF Rooms!Adds, Rooms!Underway
<1>6. AtItsPlace(c)' /\ Locked(c)' /\ Read(c)'
  BY <1>2 DEF AtItsPlace, Locked, Read, Rooms!Underway, Written
<1>7. Rooms!Named(k.asks) \subseteq Agents
  BY <1>4, ListIs
<1>8. CASE k.kind = "add"
  <2>1. /\ room' = [a \in DOMAIN room \cup Rooms!Inserted(c) |->
                      IF a \in DOMAIN room THEN room[a] ELSE Rooms!Placed(c)[a]]
        /\ deleted' = deleted
    BY <1>8 DEF Rooms!Commits
  <2>2. /\ room' \in Rooms!Room /\ DOMAIN room \subseteq DOMAIN room' /\ Placing(room')
        /\ \A a \in DOMAIN room' : room'[a] < Cap
        /\ ~doubled => /\ Cardinality(DOMAIN room') <= Cap
                       /\ \A a, b \in DOMAIN room' : room'[a] = room'[b] => a = b
    BY <1>1, <1>8, <2>1, AnAdditionFits
  <2>3. RoomTypes'
    BY <1>1, <1>2, <1>3, <2>1, <2>2 DEF RoomTypes
  <2>4. Rooms!Adds(c)
    BY <1>4, <1>8 DEF Rooms!Adds
  <2>5. ~doubled => \A d \in Rooms!Calls \ {c} : ~Rooms!Adds(d)
    BY <1>1, <2>4 DEF InRoom
  <2>6. ~doubled' => \A d, e \in Rooms!Calls : Rooms!Adds(d)' /\ Rooms!Adds(e)' => d = e
    BY <1>1, <1>5 DEF InRoom
  <2>7. InRoom'
    BY <1>1, <2>2, <2>6 DEF InRoom
  <2>8. ASSUME NEW d \in Rooms!Calls \ {c}
        PROVE  AtItsPlace(d)' /\ Locked(d)' /\ Read(d)'
    <3>1. AtItsPlace(d) /\ Locked(d) /\ Read(d) /\ call'[d] = call[d]
      BY <1>2 DEF RoomsInv
    <3>2. AtItsPlace(d)'
      BY <3>1 DEF AtItsPlace, Rooms!Underway
    <3>3. Locked(d)'
      <4>1. ASSUME NEW a, Keeps(d, a)
            PROVE  Keeps(d, a)'
        BY <1>2, <2>1, <4>1 DEF Keeps, Rooms!Held
      <4> QED
        BY <1>2, <3>1, <4>1, OthersStayLocked
    <3>4. Rooms!Adds(d) <=> call[d].kind = "add" /\ Rooms!Underway(d)
      BY DEF Rooms!Adds
    <3>5. call[d].kind = "add" /\ call[d].pc \in Written => Rooms!Adds(d)
      BY <3>4 DEF Rooms!Underway, Written
    <3>6. Read(d)'
      BY <1>1, <2>2, <2>5, <3>1, <3>5 DEF Read, Placing, Rooms!Named
    <3> QED
      BY <3>2, <3>3, <3>6
  <2> QED
    BY <1>3, <1>6, <2>3, <2>7, <2>8 DEF RoomsInv
<1>9. CASE k.kind = "delete"
  <2>1. room' = room /\ deleted' = deleted \cup Rooms!Named(k.asks)
    BY <1>9 DEF Rooms!Commits, Rooms!Inserted
  <2>2. RoomTypes'
    BY <1>1, <1>2, <1>3, <1>7, <2>1 DEF RoomTypes
  <2>3. InRoom'
    BY <1>1, <1>5, <2>1, TheRoomIsAsItWas
  <2>4. /\ Rooms!Held(c, Rooms!Profile(k.asks[1]), "update") \in locks
        /\ Rooms!Named(k.asks) = {k.asks[1]}
    <3>1. Len(k.asks) = 1
      BY <1>1, <1>4, <1>9 DEF AtItsPlace, Changing
    <3>2. DOMAIN k.asks = 1..Len(k.asks)
      BY <1>4, ListIs
    <3> QED
      BY <1>1, <1>9, <3>1, <3>2 DEF Locked, Changing, Rooms!Named
  <2>5. ASSUME NEW d \in Rooms!Calls \ {c}, NEW a, Keeps(d, a)
        PROVE  Keeps(d, a)'
    <3>1. a # k.asks[1]
      BY <1>1, <2>4, <2>5 DEF Compatible, Keeps, Rooms!Held, Rooms!Clash
    <3>2. Rooms!Held(d, Rooms!Profile(a), "share") \in locks'
      BY <1>2, <2>5 DEF Keeps, Rooms!Held
    <3> QED
      BY <2>1, <2>4, <2>5, <3>1, <3>2 DEF Keeps
  <2>6. ASSUME NEW d \in Rooms!Calls \ {c}
        PROVE  AtItsPlace(d)' /\ Locked(d)' /\ Read(d)'
    <3>1. AtItsPlace(d) /\ Locked(d) /\ Read(d) /\ call'[d] = call[d]
      BY <1>2 DEF RoomsInv
    <3>2. AtItsPlace(d)'
      BY <3>1 DEF AtItsPlace, Rooms!Underway
    <3>3. Locked(d)'
      BY <1>2, <2>5, <3>1, OthersStayLocked
    <3>4. Read(d)'
      BY <1>1, <2>1, <3>1 DEF Read, Placing, Rooms!Named
    <3> QED
      BY <3>2, <3>3, <3>4
  <2> QED
    BY <1>3, <1>6, <2>2, <2>3, <2>6 DEF RoomsInv
<1>10. CASE k.kind \in {"create", "edit"}
  <2>1. UNCHANGED <<deleted, room, doubled>>
    BY <1>1, <1>10 DEF Rooms!Commits
  <2> QED
    BY <1>1, <2>1, EndingKeeps
<1> QED
  BY <1>4, <1>8, <1>9, <1>10 DEF Rooms!Kinds

\* While no Bot is being changed and only one request adds, nobody waits for anybody.
LEMMA NobodyWaits ==
  ASSUME RoomsInv, NEW c \in Rooms!Calls, NEW d \in Rooms!Calls, Rooms!WaitsFor(c, d)
  PROVE  \/ \E e \in Rooms!Calls : Rooms!Underway(e) /\ call[e].kind \in {"delete", "edit"}
         \/ \E e, f \in Rooms!Calls : e # f /\ Rooms!Adds(e) /\ Rooms!Adds(f)
<1>1. PICK w \in Rooms!Wants(c) : Rooms!Blocks(d, c, w.row, w.mode)
  BY DEF Rooms!WaitsFor
<1>2. Rooms!Underway(c) /\ RoomTypes /\ AtItsPlace(c) /\ Compatible
  BY DEF Rooms!WaitsFor, RoomsInv
<1>3. PICK l \in locks : l.by = d /\ l.row = w.row /\ Rooms!Clash(l.mode, w.mode) /\ d # c
  BY <1>1 DEF Rooms!Blocks
<1>4. /\ w.row[1] = "channel_agents" => call[c].kind = "add"
      /\ w.mode = "update" /\ w.row[1] # "channel_agents" => call[c].kind \in Changing
  BY <1>2, WantsIs
<1>5. /\ Rooms!Underway(d)
      /\ w.row[1] = "channel_agents" => call[d].kind = "add"
      /\ l.mode = "update" /\ w.row[1] # "channel_agents" => call[d].kind \in Changing
  BY <1>2, <1>3 DEF Compatible
<1>6. l.mode = "update" \/ w.mode = "update"
  BY <1>3 DEF Rooms!Clash
<1> QED
  BY <1>2, <1>3, <1>4, <1>5, <1>6 DEF Rooms!Adds, Changing

\* The room that is there from the beginning is in order, and no request is under way.
LEMMA RoomsInvBegins == Rooms!Init => RoomsInv
<1> SUFFICES ASSUME Rooms!Init
             PROVE  RoomsInv
  OBVIOUS
<1>1. deleted = {} /\ locks = {} /\ doubled = FALSE
        /\ call = [c \in Rooms!Calls |-> Rooms!Unborn]
  BY DEF Rooms!Init
<1>2. Rooms!Unborn \in RoomCall /\ Rooms!Unborn.pc = "idle"
  <2>1. Rooms!Empty \in Rooms!Room
    <3>1. Rooms!Empty \in [{} -> 0..2 * Cap] /\ {} \in SUBSET Agents
      BY DEF Rooms!Empty
    <3> QED
      BY <3>1, Zenon DEF Rooms!Room
  <2> QED
    BY <2>1 DEF Rooms!Unborn, RoomCall, Places
<1>3. \A c \in Rooms!Calls : call[c].pc = "idle"
  BY <1>1, <1>2
<1>4. PICK l \in Rooms!Lists :
        room = [a \in {l[n] : n \in DOMAIN l} |-> (CHOOSE n \in DOMAIN l : l[n] = a) - 1]
  BY DEF Rooms!Init
<1> DEFINE named == Rooms!Named(l)
           spot(a) == CHOOSE n \in DOMAIN l : l[n] = a
<1>5. DOMAIN room = named /\ \A a \in named : room[a] = spot(a) - 1
  BY <1>4 DEF Rooms!Named
<1>6. /\ Len(l) \in 1..Cap /\ Cap \in Nat /\ DOMAIN l = 1..Len(l)
      /\ named \subseteq Agents /\ Cardinality(named) = Len(l)
  BY ListIs, RoomsAssumption
<1>7. \A a \in named : spot(a) \in 1..Len(l) /\ l[spot(a)] = a
  <2> SUFFICES ASSUME NEW a \in named
               PROVE  spot(a) \in DOMAIN l /\ l[spot(a)] = a
    BY <1>6
  <2>1. \E n \in DOMAIN l : l[n] = a
    BY DEF Rooms!Named
  <2> QED
    BY <2>1
<1>8. room = [a \in named |-> spot(a) - 1]
  BY <1>4 DEF Rooms!Named
<1> HIDE DEF named, spot
<1>9. ASSUME NEW a \in named
      PROVE  /\ room[a] \in Nat /\ room[a] < Len(l) /\ room[a] < Cap /\ room[a] \in 0..2 * Cap
             /\ spot(a) = room[a] + 1
  <2> DEFINE n == spot(a)
             size == Len(l)
  <2>1. n \in 1..size /\ size \in 1..Cap /\ Cap \in Nat /\ room[a] = n - 1
    BY <1>5, <1>6, <1>7
  <2> HIDE DEF n, size
  <2>2. n - 1 \in Nat /\ n - 1 < size /\ n - 1 < Cap /\ n - 1 \in 0..2 * Cap /\ n = (n - 1) + 1
    BY <2>1
  <2> QED
    BY <2>1, <2>2 DEF n, size
<1>10. room \in Rooms!Room
  <2>1. room \in [named -> 0..2 * Cap]
    <3>1. \A a \in named : spot(a) - 1 \in 0..2 * Cap
      BY <1>5, <1>9
    <3> QED
      BY <1>8, <3>1
  <2> QED
    BY <1>6, <2>1 DEF Rooms!Room
<1>11. RoomTypes
  BY <1>1, <1>2, <1>10 DEF RoomTypes
<1>12. InRoom
  <2>1. Placing(room) /\ \A a \in DOMAIN room : room[a] < Cap
    BY <1>5, <1>6, <1>9 DEF Placing
  <2>2. Cardinality(DOMAIN room) <= Cap
    BY <1>5, <1>6
  <2>3. \A a, b \in DOMAIN room : room[a] = room[b] => a = b
    <3> SUFFICES ASSUME NEW a \in named, NEW b \in named, room[a] = room[b]
                 PROVE  a = b
      BY <1>5
    <3>1. spot(a) = spot(b)
      BY <1>9
    <3> QED
      BY <1>7, <3>1
  <2>4. \A c \in Rooms!Calls : ~Rooms!Adds(c)
    BY <1>3 DEF Rooms!Adds, Rooms!Underway
  <2> QED
    BY <2>1, <2>2, <2>3, <2>4 DEF InRoom
<1>13. Compatible
  BY <1>1 DEF Compatible
<1>14. \A c \in Rooms!Calls : AtItsPlace(c) /\ Locked(c) /\ Read(c)
  BY <1>3 DEF AtItsPlace, Locked, Read, Rooms!Underway, Written
<1> QED
  BY <1>11, <1>12, <1>13, <1>14 DEF RoomsInv

\* The promise of a room: a deletion does not commit under a row that names its Bot,
\* requests that only share Bots do not wait in a circle, and unless two requests add to
\* the room at once it is no fuller than MAX_CHANNEL_AGENTS and no place is taken twice
\* (channels/routes.ts, agents/profile-store.ts).
THEOREM RoomsAreKept == Rooms!Spec => []RoomPromise
<1>1. RoomsInv /\ [Rooms!Next]_(Rooms!vars) => RoomsInv'
  <2> SUFFICES ASSUME RoomsInv, [Rooms!Next]_(Rooms!vars)
               PROVE  RoomsInv'
    OBVIOUS
  <2>1. CASE UNCHANGED Rooms!vars
    <3>1. UNCHANGED <<deleted, room, call, locks, doubled>>
      BY <2>1 DEF Rooms!vars
    <3> QED
      BY <3>1 DEF RoomsInv, RoomTypes, Compatible, InRoom, AtItsPlace, Locked, Keeps, Read,
         Placing, Rooms!Underway, Rooms!Adds
  <2>2. ASSUME NEW c \in Rooms!Calls, Rooms!IsAborted(c)
        PROVE  RoomsInv'
    BY <2>2, EndingKeeps DEF Rooms!IsAborted
  <2> QED
    BY <2>1, <2>2, BeginningKeeps, ReadingKeeps, SharingKeeps, InsertingKeeps,
       ReferringKeeps, ChangingKeeps, CommittingKeeps DEF Rooms!Next
<1>2. RoomsInv => RoomPromise
  <2> SUFFICES ASSUME RoomsInv
               PROVE  RoomPromise
    OBVIOUS
  <2>1. Rooms!TypeOK
    BY DEF RoomsInv, RoomTypes, RoomCall, RoomLock, Rooms!TypeOK
  <2>2. Rooms!NothingIsCommittedUnderneath
    <3> SUFFICES ASSUME NEW c \in Rooms!Calls, call[c].kind \in {"create", "add"},
                        call[c].pc \in {"insert", "refer", "commit"},
                        NEW a \in Rooms!Named(call[c].asks)
                 PROVE  a \notin deleted
      BY DEF Rooms!NothingIsCommittedUnderneath, Rooms!Inserted
    <3> QED
      BY DEF RoomsInv, Locked, Keeps, Making
  <2>3. ASSUME NEW c \in Rooms!Calls, Rooms!Deadlocked(c)
        PROVE  \/ \E d \in Rooms!Calls : Rooms!Underway(d)
                    /\ call[d].kind \in {"delete", "edit"}
               \/ \E d, e \in Rooms!Calls : d # e /\ Rooms!Adds(d) /\ Rooms!Adds(e)
    <3>1. PICK S \in SUBSET Rooms!Calls : c \in S /\ \A d \in S : \E e \in S :
                 Rooms!WaitsFor(d, e)
      BY <2>3 DEF Rooms!Deadlocked
    <3>2. PICK e \in S : Rooms!WaitsFor(c, e)
      BY <3>1
    <3> QED
      BY <3>1, <3>2, NobodyWaits
  <2>4. ~doubled => /\ Cardinality(DOMAIN room) <= Cap
                    /\ \A a, b \in DOMAIN room : room[a] = room[b] => a = b
    BY DEF RoomsInv, InRoom
  <2> QED
    BY <2>1, <2>2, <2>3, <2>4, RoomsCardinality DEF RoomPromise, Rooms!RoomPromise
<1> QED
  BY <1>1, <1>2, RoomsInvBegins, PTL DEF Rooms!Spec

-----------------------------------------------------------------------------
\* The composition adds nothing to its parts: each of them runs as it would by itself.
THEOREM EachPartIsItself ==
  PartsSpec => Spec /\ Members!Spec /\ Rooms!Spec /\ Roster!Spec /\ Triggers!Spec
<1>1. PartsInit => Init /\ Members!Init /\ Rooms!Init /\ Roster!Init /\ Triggers!Init
  BY DEF PartsInit
<1>2. [PartsNext]_all =>
        /\ [Next]_vars /\ [Members!Next]_members /\ [Rooms!Next]_rooms
        /\ [Roster!Next]_roster /\ [Triggers!Next]_triggers
  BY DEF PartsNext, all
<1> QED
  BY <1>1, <1>2, PTL DEF PartsSpec, Spec, Members!Spec, Members!vars, members,
     Rooms!Spec, Rooms!vars, rooms, Roster!Spec, Roster!vars, roster,
     Triggers!Spec, Triggers!vars, triggers

\* So whatever the runs check of it is true of the composition, for any values of its
\* constants: billing, seats, rooms, rosters and standing triggers keep their promises.
THEOREM OrganizationsKeepTheirPromises ==
  PartsSpec => /\ []BillingPromise /\ []AnAdministratorRemains /\ []RoomPromise
               /\ []RosterPromise /\ []StandingFires /\ SeatsAreCounted
BY EachPartIsItself, BillingIsPromised, AnAdministratorStays, RoomsAreKept,
   RostersAreCurrent, SchedulesFireOnce, SeatsStayCounted, PTL
=============================================================================
