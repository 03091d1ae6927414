-------------------------- MODULE PolicyFleetProofs --------------------------
(***************************************************************************)
(* That the replicas enforce the saved boundary, for any number of them,   *)
(* of organizations, of writes, of rereads under way and of failures.      *)
(***************************************************************************)
EXTENDS PolicyFleet, TLAPS

\* The part of the types the argument needs; it does not need the bounds.
Shape ==
  /\ row \in [Orgs -> Nat] /\ writes \in Nat
  /\ copy \in [Replicas -> [Orgs -> Nat]]
  /\ DOMAIN link = Replicas
  /\ notes \in [Replicas -> Nat]
  /\ reread \in [Replicas -> [Slots -> [pc : {"free", "asked", "read"}, table : [Orgs -> Nat]]]]
  /\ DOMAIN writer = Replicas
  /\ \A r \in Replicas : writer[r].pc # "idle" =>
       writer[r].org \in Orgs /\ writer[r].policy \in Nat
  /\ crossed \in [Replicas -> BOOLEAN]

\* What an uncrossed replica has read and not yet put into its map is the saved table.
ReadIsSaved(r) == \A i \in Slots : reread[r][i].pc = "read" => reread[r][i].table = row

\* So is the policy it has committed and not yet put there.
WrittenIsSaved(r) == writer[r].pc # "idle" => row[writer[r].org] = writer[r].policy

\* And while it listens its map is the saved table, or a reread is due.
CopyIsSaved(r) ==
  link[r] = "listening" =>
    copy[r] = row \/ notes[r] > 0 \/ \E i \in Slots : reread[r][i].pc # "free"

Uncrossed(r) == ~crossed[r] => ReadIsSaved(r) /\ WrittenIsSaved(r) /\ CopyIsSaved(r)

IInv == Shape /\ \A r \in Replicas : Uncrossed(r)

\* What the strengthening says of replica r rests on these alone.
SameOf(r) == UNCHANGED <<row, copy[r], link[r], notes[r], reread[r], writer[r], crossed[r]>>

\* What is known of a replica stays known while nothing it rests on changes.
LEMMA SameIsUncrossed ==
  ASSUME NEW r \in Replicas, Uncrossed(r), SameOf(r)
  PROVE  Uncrossed(r)'
  BY DEF Uncrossed, ReadIsSaved, WrittenIsSaved, CopyIsSaved, SameOf

\* At first every replica is at rest.
LEMMA InitUncrossed == Init => IInv
  BY DEF Init, IInv, Shape, Uncrossed, ReadIsSaved, WrittenIsSaved, CopyIsSaved,
         Configured, Free, Idle

\* The start of a reread: the announcement or the subscription that asks for it
\* may be used up, since the reread itself is due.
LEMMA StartsKeeps ==
  ASSUME IInv, NEW r \in Replicas, NEW i \in Slots, Starts(r, i),
         UNCHANGED <<row, writes, copy, writer>>,
         notes' \in [Replicas -> Nat], DOMAIN link' = Replicas,
         \A s \in Replicas : s # r => UNCHANGED <<notes[s], link[s]>>
  PROVE  IInv'
<1>1. /\ Shape'
      /\ reread'[r][i].pc = "asked"
      /\ \A j \in Slots : j # i => reread'[r][j] = reread[r][j]
      /\ crossed'[r] = (crossed[r] /\ ~Still(r))
  BY DEF IInv, Shape, Starts, Asked, Configured
<1>2. \A s \in Replicas : s # r => SameOf(s)
  BY DEF IInv, Shape, Starts, SameOf
<1>3. Uncrossed(r)'
  <2> SUFFICES ASSUME ~crossed'[r]
               PROVE  ReadIsSaved(r)' /\ WrittenIsSaved(r)' /\ CopyIsSaved(r)'
    BY DEF Uncrossed
  <2>1. CASE crossed[r]
    BY <1>1, <2>1 DEF Still, ReadIsSaved, WrittenIsSaved, CopyIsSaved
  <2>2. CASE ~crossed[r]
    BY <1>1, <2>2 DEF IInv, Uncrossed, ReadIsSaved, WrittenIsSaved, CopyIsSaved
  <2> QED
    BY <2>1, <2>2
<1> QED
  BY <1>1, <1>2, <1>3, SameIsUncrossed DEF IInv

\* A write: whoever is between two steps is crossed, and whoever listens is told.
LEMMA CommitsKeeps ==
  ASSUME IInv, NEW r \in Replicas, NEW o \in Orgs, NEW policy \in Nat, Commits(r, o, policy)
  PROVE  IInv'
<1>1. Shape'
  BY DEF IInv, Shape, Commits, Announced
<1>2. SUFFICES ASSUME NEW s \in Replicas, ~crossed'[s]
               PROVE  ReadIsSaved(s)' /\ WrittenIsSaved(s)' /\ CopyIsSaved(s)'
  BY <1>1 DEF IInv, Uncrossed
<1>3. Still(s)
  BY <1>2 DEF Commits
<1>4. ReadIsSaved(s)'
  BY <1>3 DEF Commits, Still, ReadIsSaved
<1>5. WrittenIsSaved(s)'
  <2>1. CASE s = r
    BY <2>1 DEF IInv, Shape, Commits, WrittenIsSaved
  <2>2. CASE s # r
    BY <1>3, <2>2 DEF IInv, Shape, Commits, Still, WrittenIsSaved
  <2> QED
    BY <2>1, <2>2
<1>6. CopyIsSaved(s)'
  BY DEF IInv, Shape, Commits, Announced, CopyIsSaved
<1> QED
  BY <1>4, <1>5, <1>6

\* The strengthening is kept by every step.
LEMMA NextUncrossed == IInv /\ [Next]_vars => IInv'
<1> SUFFICES ASSUME IInv, [Next]_vars PROVE IInv'
  OBVIOUS
<1>1. CASE UNCHANGED vars
  BY <1>1 DEF vars, IInv, Shape, Uncrossed, ReadIsSaved, WrittenIsSaved, CopyIsSaved
<1>2. ASSUME NEW r \in Replicas,
             Lost(r) \/ Boot(r) \/ Die(r) \/ Enforce(r)
      PROVE  IInv'
  <2>1. CASE Lost(r)
    BY <2>1, SameIsUncrossed DEF Lost, IInv, Shape, SameOf, Uncrossed, ReadIsSaved,
                                 WrittenIsSaved, CopyIsSaved
  <2>2. CASE Boot(r)
    BY <2>2, SameIsUncrossed DEF Boot, IInv, Shape, SameOf, Uncrossed, ReadIsSaved,
                                 WrittenIsSaved, CopyIsSaved
  <2>3. CASE Die(r)
    <3>1. Shape'
      BY <2>3 DEF Die, IInv, Shape, Configured, Free, Idle
    <3>2. \A s \in Replicas : s # r => SameOf(s)
      BY <2>3 DEF Die, IInv, Shape, SameOf
    <3>3. Uncrossed(r)'
      BY <2>3 DEF Die, IInv, Shape, Free, Idle, Uncrossed, ReadIsSaved, WrittenIsSaved,
                  CopyIsSaved
    <3> QED
      BY <3>1, <3>2, <3>3, SameIsUncrossed DEF IInv
  <2>4. CASE Enforce(r)
    <3>1. Shape'
      BY <2>4 DEF Enforce, IInv, Shape, Idle
    <3>2. \A s \in Replicas : s # r => SameOf(s)
      BY <2>4 DEF Enforce, IInv, Shape, SameOf
    <3>3. Uncrossed(r)'
      <4> SUFFICES ASSUME ~crossed[r]
                   PROVE  ReadIsSaved(r)' /\ WrittenIsSaved(r)' /\ CopyIsSaved(r)'
        BY <2>4 DEF Enforce, Uncrossed
      <4>1. ReadIsSaved(r) /\ WrittenIsSaved(r) /\ CopyIsSaved(r)
        BY DEF IInv, Uncrossed
      <4>2. copy[r] = row => copy'[r] = row
        BY <2>4, <4>1 DEF Enforce, IInv, Shape, WrittenIsSaved
      <4> QED
        BY <2>4, <4>1, <4>2 DEF Enforce, Idle, IInv, Shape, ReadIsSaved, WrittenIsSaved,
                                CopyIsSaved
    <3> QED
      BY <3>1, <3>2, <3>3, SameIsUncrossed DEF IInv
  <2> QED
    BY <1>2, <2>1, <2>2, <2>3, <2>4
<1>3. ASSUME NEW r \in Replicas, NEW i \in Slots,
             Hear(r, i) \/ Query(r, i) \/ Refill(r, i) \/ QueryFails(r, i) \/ Listen(r, i)
      PROVE  IInv'
  <2>1. CASE Hear(r, i)
    <3>1. /\ Starts(r, i) /\ UNCHANGED <<row, writes, copy, writer, link>>
          /\ notes' \in [Replicas -> Nat]
          /\ \A s \in Replicas : s # r => notes'[s] = notes[s]
      BY <2>1 DEF Hear, IInv, Shape
    <3> QED
      BY <3>1, StartsKeeps DEF IInv, Shape
  <2>2. CASE Listen(r, i)
    <3>1. /\ Starts(r, i) /\ UNCHANGED <<row, writes, copy, writer, notes>>
          /\ DOMAIN link' = Replicas
          /\ \A s \in Replicas : s # r => link'[s] = link[s]
      BY <2>2 DEF Listen, IInv, Shape
    <3> QED
      BY <3>1, StartsKeeps DEF IInv, Shape
  <2>3. CASE Query(r, i)
    <3>1. Shape'
      BY <2>3 DEF Query, IInv, Shape
    <3>2. \A s \in Replicas : s # r => SameOf(s)
      BY <2>3 DEF Query, IInv, Shape, SameOf
    <3>3. Uncrossed(r)'
      BY <2>3 DEF Query, IInv, Shape, Uncrossed, ReadIsSaved, WrittenIsSaved, CopyIsSaved
    <3> QED
      BY <3>1, <3>2, <3>3, SameIsUncrossed DEF IInv
  <2>4. CASE Refill(r, i)
    <3>1. Shape'
      BY <2>4 DEF Refill, IInv, Shape, Free, Configured
    <3>2. \A s \in Replicas : s # r => SameOf(s)
      BY <2>4 DEF Refill, IInv, Shape, SameOf
    <3>3. Uncrossed(r)'
      BY <2>4 DEF Refill, Free, IInv, Shape, Uncrossed, ReadIsSaved, WrittenIsSaved,
                  CopyIsSaved
    <3> QED
      BY <3>1, <3>2, <3>3, SameIsUncrossed DEF IInv
  <2>5. CASE QueryFails(r, i)
    <3>1. Shape'
      BY <2>5 DEF QueryFails, IInv, Shape, Free, Configured
    <3>2. \A s \in Replicas : s # r => SameOf(s)
      BY <2>5 DEF QueryFails, IInv, Shape, SameOf
    <3>3. Uncrossed(r)'
      BY <2>5 DEF QueryFails, IInv, Shape, Uncrossed
    <3> QED
      BY <3>1, <3>2, <3>3, SameIsUncrossed DEF IInv
  <2> QED
    BY <1>3, <2>1, <2>2, <2>3, <2>4, <2>5
<1>4. ASSUME NEW r \in Replicas, NEW o \in Orgs, Set(r, o) \/ Reset(r, o) PROVE IInv'
  <2>1. writes + 1 \in Nat /\ 0 \in Nat
    BY DEF IInv, Shape
  <2> QED
    BY <1>4, <2>1, CommitsKeeps DEF Set, Reset
<1> QED
  BY <1>1, <1>2, <1>3, <1>4 DEF Next

\* The strengthening in every behaviour of the fleet.
THEOREM UncrossedIsCurrent == Spec => []IInv
  BY InitUncrossed, NextUncrossed, PTL DEF Spec

\* A replica that listens and has nothing left to do enforces the saved boundary,
\* unless a write or a failed query crossed one of its own steps.
THEOREM TheFleetAgrees == Spec => []QuietFleetAgrees
<1>1. IInv => QuietFleetAgrees
  <2> SUFFICES ASSUME IInv, NEW r \in Replicas, AtRest(r), ~crossed[r] PROVE copy[r] = row
    BY DEF QuietFleetAgrees
  <2>1. CopyIsSaved(r)
    BY DEF IInv, Uncrossed
  <2> QED
    BY <2>1 DEF CopyIsSaved, AtRest, Still
<1> QED
  BY <1>1, UncrossedIsCurrent, PTL

\* No replica goes back to a boundary that was replaced, with the same exception.
THEOREM NoBoundaryComesBack == Spec => NeverBack
<1> DEFINE Forward ==
      \A r \in Replicas :
        link'[r] # "off" /\ copy'[r] # copy[r] /\ ~crossed[r] =>
          \A o \in Orgs : copy'[r][o] \in {copy[r][o], row[o]}
<1>1. IInv /\ [Next]_vars => [Forward]_vars
  <2> SUFFICES ASSUME IInv, Next, NEW r \in Replicas, link'[r] # "off", copy'[r] # copy[r],
                      ~crossed[r], NEW o \in Orgs
               PROVE  copy'[r][o] \in {copy[r][o], row[o]}
    OBVIOUS
  <2>1. ReadIsSaved(r) /\ WrittenIsSaved(r)
    BY DEF IInv, Uncrossed
  <2>2. PICK s \in Replicas :
          \/ Boot(s) \/ Die(s) \/ Enforce(s) \/ \E i \in Slots : Refill(s, i)
    BY DEF Next, Lost, Hear, Query, QueryFails, Listen, Set, Reset, Commits
  <2>3. s = r
    BY <2>2 DEF IInv, Shape, Boot, Die, Enforce, Refill
  <2>4. CASE Boot(r)
    BY <2>4 DEF Boot, IInv, Shape
  <2>5. CASE Die(r)
    BY <2>5 DEF Die, IInv, Shape
  <2>6. CASE Enforce(r)
    BY <2>1, <2>6 DEF Enforce, IInv, Shape, WrittenIsSaved
  <2>7. CASE \E i \in Slots : Refill(r, i)
    BY <2>1, <2>7 DEF Refill, IInv, Shape, ReadIsSaved
  <2> QED
    BY <2>2, <2>3, <2>4, <2>5, <2>6, <2>7
<1> QED
  BY <1>1, UncrossedIsCurrent, PTL DEF Spec, NeverBack
=============================================================================
