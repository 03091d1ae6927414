------------------------------- MODULE Gateway -------------------------------
(***************************************************************************)
(* The gateway to the computers: the trail of what is done through it      *)
(* (Trail), and the element an acting call is decided on and the one it    *)
(* touches (Snapshots).                                                    *)
(*                                                                         *)
(* A behaviour is one of one part, chosen at the beginning, and each part  *)
(* is checked alone: which element a call names does not matter to its     *)
(* rows, nor its rows to the element.                                      *)
(***************************************************************************)
EXTENDS Trail

CONSTANTS Snappers, Clickers, \* calls of two kinds, on whichever replica
          MaxGen, MaxPages, MaxRestarts, MaxResets

ASSUME SnapshotsAssumption ==
  MaxGen \in Nat /\ MaxPages \in Nat \ {0} /\ MaxRestarts \in Nat /\ MaxResets \in Nat

VARIABLES part,
          gen, page, latest, row, snap, click, held, navigating, clearing, recreates,
          overlapped, restarts, resets

snapshots == <<gen, page, latest, row, snap, click, held, navigating, clearing, recreates,
               overlapped, restarts, resets>>

Snapshots == INSTANCE Snapshots

Parts == {"trail", "snapshots"}

\* A part that is not chosen stands still in one of its initial states.
PartsInit ==
  /\ part \in Parts
  /\ Init
  /\ Snapshots!Init /\ (part # "snapshots" => recreates)

PartsNext ==
  \/ part = "trail" /\ Next /\ UNCHANGED <<part, snapshots>>
  \/ part = "snapshots" /\ Snapshots!Next /\ UNCHANGED <<part, vars>>

all == <<part, vars, snapshots>>
PartsSpec == PartsInit /\ [][PartsNext]_all

-----------------------------------------------------------------------------
\* What calls that come one at a time can rely on (computer/snapshot-store.ts).
CalmReplicas == Snapshots!CalmReplicas

\* An element is named by a snapshot of the reference's generation (gateway.resolve).
DecidedOnASnapshotOfItsGeneration == Snapshots!DecidedOnASnapshotOfItsGeneration

\* The row resolves what the computer accepts (snapshot-store.ts, save).
LiveReferenceResolves == Snapshots!LiveReferenceResolves
=============================================================================
