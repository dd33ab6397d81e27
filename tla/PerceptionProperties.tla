------------------------ MODULE PerceptionProperties ------------------------
(***************************************************************************)
(* What the perception node must do with an object.                        *)
(***************************************************************************)
EXTENDS Perception

Statuses == {"none", "NOT_DETECTED", "DETECTED_NO_POSE", "DETECTED_WITH_POSE",
             "TENTATIVE", "TEMPORARILY_LOST"}

Facts ==
  [ present : BOOLEAN, status : Statuses, place : Places \cup {NoPlace},
    stamp : Times \cup {-1}, track : 0..MaxTrack, observed : Times \cup {-1} ]

Tracks ==
  [ id : 1..MaxTrack, place : Places, last : Times, confirmations : 1..MinConfirmations ]

\* A fact that speaks of a track names it.
NamesTrack(f) == f.status \in {"TENTATIVE", "TEMPORARILY_LOST"} => f.track # 0

\* The variables have their types.
TypeOK ==
  /\ now \in Times
  /\ view \in [Cameras -> Views \cup {NoView}]
  /\ tf \subseteq Cameras
  /\ step \in {"idle", "store"}
  /\ fact \in Facts /\ NamesTrack(fact)
  /\ track \in Tracks \cup {NoTrack}
  /\ nextId \in 1..MaxTrack
  /\ latest \in Facts /\ NamesTrack(latest)

\* The cameras that show the object in a frame that can be transformed.
Showing == {c \in tf : view[c].seen = "posed"}

\* No geometry is made up (README.md:295-297): the pose of a new fact is no
\* farther than one association distance from places that cameras with a
\* transform show at this moment, whatever the fusion and the average over
\* time add to it.  The fact is what a query reads next (node.py:558-605).
PoseIsObserved ==
  [][ step = "idle" /\ fact'.place # NoPlace =>
      /\ fact'.present
      /\ \E c \in Showing : view[c].place <= fact'.place + AssociationDistance
      /\ \E c \in Showing : view[c].place >= fact'.place - AssociationDistance ]_vars

\* A confirmed pose never jumps: when an object is published farther than one
\* association distance from where it was published just before, a new track
\* has begun.  The object is tentative and has another track id, so whoever
\* follows an id never sees it jump (tracking.py:77-112).
ConfirmedPoseNeverJumps ==
  [][ /\ latest.place # NoPlace /\ latest'.place # NoPlace
      /\ Apart(latest.place, latest'.place) > AssociationDistance
      => /\ MinConfirmations > 1 => latest'.status = "TENTATIVE"
         /\ MaxTrack > 1 => latest'.track # latest.track ]_vars

-----------------------------------------------------------------------------
(* Refinement: cameras, fusion, tracker and timer make a TrackedObject.  A *)
(* publication counts from the snapshot on, before it is stored.           *)

Last == IF step = "store" THEN fact ELSE latest

\* What a status says.  DETECTED_WITH_POSE is also the status of a fact that
\* has lost its pose for want of a transform.
Says(f) ==
  IF f.place = NoPlace
  THEN CASE f.status = "none"             -> "nothing"
         [] f.status = "TEMPORARILY_LOST" -> "lost"
         [] OTHER                         -> "unseen"
  ELSE IF f.status = "TENTATIVE" THEN "tentative" ELSE "confirmed"

Object == INSTANCE TrackedObject WITH
  Ids           <- 1..MaxTrack,
  Distance      <- AssociationDistance,
  Confirmations <- MinConfirmations,
  id            <- track.id,
  place         <- track.place,
  sightings     <- track.confirmations,
  shown         <- [what |-> Says(Last), track |-> Last.track, place |-> Last.place]

\* What the node publishes of an object is what a client may see of one track
\* after the other.
ImplementsObject == Object!Spec

-----------------------------------------------------------------------------
(* Liveness and freshness.                                                 *)

\* All cameras show the object, at one place.  Their views change one at a
\* time, so as long as this lasts the place is the same.
InPlainSight ==
  /\ tf = Cameras
  /\ \A c, d \in Cameras : view[c].seen = "posed" /\ view[c].place = view[d].place

\* An object that stays in plain sight is confirmed and stays so.
ConfirmedEventually ==
  <>[]InPlainSight => <>[](PoseUsable /\ latest.status = "DETECTED_WITH_POSE")

\* The step behind it: every publication in plain sight has a pose and leaves
\* the track within reach of the place seen, and one that finds the track within
\* reach adds a confirmation (tracking.py:77-112).
AtHand == \A c \in Cameras : Apart(view[c].place, track.place) <= AssociationDistance

PlainSightConfirms ==
  [][ TickRun /\ InPlainSight =>
      /\ fact'.present /\ fact'.place # NoPlace
      /\ AtHand'
      /\ track'.confirmations = IF track # NoTrack /\ AtHand THEN Confirmed ELSE 1 ]_vars

\* README.md:506-507: a request for a fresh pose fails on stale data.  So the
\* pose returned comes from a frame that is recent enough.
DocFreshPoseIsRecent ==
  \A maxAge \in 1..MaxTime :
    FreshPose(maxAge) => now - latest.observed <= maxAge

\* It holds of a node with one camera (node.py:586-598; fusion.py:128) ...
FreshWithOneCamera == (\A c, d \in Cameras : c = d) => DocFreshPoseIsRecent

\* ... and with several the error is on one side: a pose that comes from a
\* recent frame is never refused as stale.
RecentPoseIsFresh ==
  \A maxAge \in 1..MaxTime :
    PoseUsable /\ now - latest.observed <= maxAge => FreshPose(maxAge)

=============================================================================
