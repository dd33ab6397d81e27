----------------------------- MODULE Perception -----------------------------
(***************************************************************************)
(* The perception node, perception/node.py, for one object of its catalog: *)
(* camera callbacks, the publication timer with its pipeline, fusion and   *)
(* tracking, and the pose query.                                           *)
(*                                                                         *)
(* The timer has the node's own, exclusive callback group, so at most one  *)
(* publication is in progress; camera callbacks and queries run at any     *)
(* moment.  Only two accesses of a publication touch what they share with  *)
(* it, both under the lock: the snapshot of the cameras and the storing of *)
(* latest_scene_facts.  Each is an action; the pipeline, the fusion and    *)
(* the tracker work on what was copied and belong to the first.            *)
(*                                                                         *)
(* A frame is its stamp and what the pipeline makes of it: the object is   *)
(* missing, or detected without enough depth for a pose, or detected at a  *)
(* place.  Places are points of a line, on which a covariance is a         *)
(* variance.  The parameter target_frame_id is neither empty nor the frame *)
(* of a camera, so a pose needs a transform and all poses are in one       *)
(* frame.  tf2 is asked while the pipeline runs; as the transforms may     *)
(* change at any moment, asking it at the snapshot gives the same facts.   *)
(***************************************************************************)
EXTENDS Integers, FiniteSets

CONSTANTS
  Cameras,              \* enabled_cameras
  Registered,           \* the object is in the registry
  AssociationDistance,  \* tracking_association_distance_m
  MinConfirmations,     \* tracking_min_confirmations
  MaxLostAge,           \* tracking_max_lost_age_s
  MaxTime,              \* bound on the clock
  MaxPlace,             \* bound on the line
  MaxTrack              \* bound: track ids are counted modulo MaxTrack

ASSUME PerceptionAssumption ==
  /\ Cameras # {} /\ IsFiniteSet(Cameras)
  /\ Registered \in BOOLEAN
  /\ AssociationDistance \in Nat
  /\ MinConfirmations \in Nat \ {0}
  /\ MaxLostAge \in Nat
  /\ MaxTime \in Nat
  /\ MaxPlace \in Nat
  /\ MaxTrack \in Nat \ {0}

VARIABLES
  now,     \* the clock, of the cameras and of the node
  view,    \* view[c]: the frame of camera c that _snapshot copies
  tf,      \* the cameras for which tf2 has a transform
  step,    \* where the publication in progress is
  fact,    \* its fact on the object
  track,   \* the tracker's track of the object
  nextId,  \* self._next_track_id
  latest   \* the object's fact in self.latest_scene_facts

vars == <<now, view, tf, step, fact, track, nextId, latest>>

Times  == 0..MaxTime
Places == 0..MaxPlace

NoPlace == -1
NoView  == [stamp |-> -1, seen |-> "nothing", place |-> NoPlace]
NoTrack == [id |-> 0, place |-> NoPlace, last |-> -1, confirmations |-> 0]

\* A frame and what the pipeline makes of it.
Views ==
  [stamp : Times, seen : {"missing", "nopose"}, place : {NoPlace}]
    \cup [stamp : Times, seen : {"posed"}, place : Places]

\* A fact.  observed is a ghost: the newest stamp of a frame whose pose is
\* part of the fact's pose.
Fact(present, status, place, stamp, observed, id) ==
  [ present |-> present, status |-> status, place |-> place, stamp |-> stamp,
    observed |-> observed, track |-> id ]

NoFact == Fact(FALSE, "none", NoPlace, -1, -1, 0)

Init ==
  /\ now = 0
  /\ view = [c \in Cameras |-> NoView]
  /\ tf \in SUBSET Cameras
  /\ step = "idle"
  /\ fact = NoFact
  /\ track = NoTrack
  /\ nextId = 1
  /\ latest = NoFact

-----------------------------------------------------------------------------
(* The world.                                                              *)

Advance ==
  /\ now < MaxTime
  /\ now' = now + 1
  /\ UNCHANGED <<view, tf, step, fact, track, nextId, latest>>

\* A camera's snapshot changes: RgbdSync says when.  Frames may be late, and
\* the first synchronized pair may replace a newer color frame, so the stamp
\* is any that has been.
NewView(c) ==
  /\ \E v \in Views : v.stamp <= now /\ view' = [view EXCEPT ![c] = v]
  /\ UNCHANGED <<now, tf, step, fact, track, nextId, latest>>

TransformChanges ==
  /\ tf' \in SUBSET Cameras
  /\ UNCHANGED <<now, view, step, fact, track, nextId, latest>>

-----------------------------------------------------------------------------
(* The pipeline and the lifting of its fact to the target frame.           *)

\* The cameras that give a fact on the object.
Observers ==
  {c \in Cameras : view[c] # NoView /\ (Registered \/ view[c].seen # "missing")}

\* Those whose fact has a pose once it is lifted.
Posed == {c \in Observers \cap tf : view[c].seen = "posed"}

PipelineStatus ==
  [ missing |-> "NOT_DETECTED",
    nopose  |-> "DETECTED_NO_POSE",
    posed   |-> "DETECTED_WITH_POSE" ]

\* A fact without its pose keeps its status.
PoselessFact(c) ==
  Fact(view[c].seen # "missing", PipelineStatus[view[c].seen], NoPlace,
       view[c].stamp, -1, 0)

-----------------------------------------------------------------------------
(* Fusion.                                                                 *)

Latest(stamps) == CHOOSE s \in stamps : \A t \in stamps : t <= s

\* The newest stamp of all the observations, posed or not.
FusedStamp == Latest({view[c].stamp : c \in Observers})

\* Between the places seen: the weights are those of the covariances, and a
\* covariance that cannot be used leaves the best observation alone.
FusedPlaces ==
  {p \in Places : \E c, d \in Posed : view[c].place <= p /\ p <= view[d].place}

\* The facts that the fusion can give; none if there is no observation.
\* Facts without a pose all have confidence 0, of which max takes the first
\* in the order of enabled_cameras, which is a parameter too.
FusedFacts ==
  IF Posed # {}
  THEN {Fact(TRUE, "DETECTED_WITH_POSE", p, FusedStamp,
             Latest({view[c].stamp : c \in Posed}), 0) : p \in FusedPlaces}
  ELSE IF Observers # {} THEN {PoselessFact(c) : c \in Observers} ELSE {NoFact}

-----------------------------------------------------------------------------
(* The tracker.                                                            *)

Apart(p, q) == IF p < q THEN q - p ELSE p - q

\* The stamp of an update: the newest color frame of all cameras.
TrackingStamp ==
  LET stamps == {view[c].stamp : c \in {d \in Cameras : view[d] # NoView}}
  IN  IF stamps # {} THEN Latest(stamps) ELSE now

\* Mutant: a track is continued wherever the object is seen.
ContinuesAnywhere(f) == track # NoTrack

Continues(f) == track # NoTrack /\ Apart(f.place, track.place) <= AssociationDistance

\* Mutant: a sighting does not add to those before it.
ConfirmedAfresh == 1

Confirmed ==
  IF track.confirmations < MinConfirmations THEN track.confirmations + 1
  ELSE MinConfirmations

\* Mutant: a new track inherits the confirmations of the old one.
StartTrackConfirmed(f) ==
  /\ track' = [id |-> nextId, place |-> f.place, last |-> TrackingStamp,
               confirmations |-> Confirmed]
  /\ nextId' = (nextId % MaxTrack) + 1

StartTrack(f) ==
  /\ track' = [id |-> nextId, place |-> f.place, last |-> TrackingStamp, confirmations |-> 1]
  /\ nextId' = (nextId % MaxTrack) + 1

\* The exponential average lies between the old place and the new one.
ContinueTrack(f) ==
  /\ \E p \in Places :
       /\ \/ f.place <= p /\ p <= track.place
          \/ track.place <= p /\ p <= f.place
       /\ track' = [id |-> track.id, place |-> p, last |-> TrackingStamp,
                    confirmations |-> Confirmed]
  /\ UNCHANGED nextId

\* The fact of an object with this track.
Tracked(f, t, id) ==
  Fact(f.present,
       IF t.confirmations >= MinConfirmations THEN "DETECTED_WITH_POSE" ELSE "TENTATIVE",
       t.place, f.stamp, f.observed, id)

\* Mutant: the fact takes the id of the track before its update.
FollowOldTrack(f) ==
  /\ f.place # NoPlace
  /\ IF Continues(f) THEN ContinueTrack(f) ELSE StartTrack(f)
  /\ fact' = Tracked(f, track', track.id)

\* The object has a pose.
Follow(f) ==
  /\ f.place # NoPlace
  /\ IF Continues(f) THEN ContinueTrack(f) ELSE StartTrack(f)
  /\ fact' = Tracked(f, track', track'.id)

RecentlyLost == track # NoTrack /\ TrackingStamp - track.last <= MaxLostAge

\* The object has no pose, but had one not long ago.
Lose(f) ==
  /\ f.place = NoPlace
  /\ RecentlyLost
  /\ fact' = Fact(FALSE, "TEMPORARILY_LOST", NoPlace, f.stamp, f.observed, track.id)
  /\ UNCHANGED <<track, nextId>>

\* The object has no pose, and has had none for long: the fact is as the
\* fusion made it.  Without any fact the track is not even removed.
Forget(f) ==
  /\ f.place = NoPlace
  /\ ~RecentlyLost
  /\ fact' = f
  /\ track' = IF f = NoFact THEN track ELSE NoTrack
  /\ UNCHANGED nextId

-----------------------------------------------------------------------------
(* The timer callback.                                                     *)

TickRun ==
  /\ step = "idle"
  /\ \E f \in FusedFacts : Follow(f) \/ Lose(f) \/ Forget(f)
  /\ step' = "store"
  /\ UNCHANGED <<now, view, tf, latest>>

\* latest_scene_facts, whose publication follows.
TickStore ==
  /\ step = "store"
  /\ latest' = fact
  /\ fact' = NoFact
  /\ step' = "idle"
  /\ UNCHANGED <<now, view, tf, track, nextId>>

Next ==
  \/ Advance
  \/ \E c \in Cameras : NewView(c)
  \/ TransformChanges
  \/ TickRun
  \/ TickStore

Spec == Init /\ [][Next]_vars

\* The timer fires for as long as the node runs.
FairSpec == Spec /\ WF_vars(TickRun \/ TickStore)

-----------------------------------------------------------------------------
(* _on_query_pose: what the service answers now.  It changes nothing.      *)

PoseUsable == latest.present /\ latest.place # NoPlace

\* The answer to require_fresh with this max_age_s.  The object's fact has a
\* stamp whenever it has a pose.
FreshPose(maxAge) == PoseUsable /\ maxAge > 0 /\ now - latest.stamp <= maxAge

=============================================================================
