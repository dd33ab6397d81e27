---------------------------- MODULE TrackedObject ----------------------------
(***************************************************************************)
(* What the clients of the perception node see of an object, without       *)
(* cameras, frames, transforms, fusion or time.  The node follows it in a  *)
(* track, and every publication says one thing of it: where the track is,  *)
(* and whether enough sightings confirm that; that the track is lost for   *)
(* the moment; that the object is not seen, which ends the track; or       *)
(* nothing, which leaves the track as it is, for however long.             *)
(*                                                                         *)
(* A track keeps its id and moves by one distance at most from one         *)
(* sighting to the next.  A sighting farther away begins another track,    *)
(* which nothing has confirmed, so a confirmed place has been sighted      *)
(* Confirmations times without a jump.                                     *)
(* (tracking.py, TemporalObjectTracker; node.py, _publish_scene_facts.)    *)
(***************************************************************************)
EXTENDS Integers

CONSTANTS Ids,            \* the ids that tracks may have
          Places,         \* where the object can be
          NoPlace,        \* where it is when no place is given
          Distance,       \* how far it goes from one sighting to the next
          Confirmations   \* how many sightings confirm a track

VARIABLES id,         \* the id of the track, 0 if there is none
          place,      \* where the track is
          sightings,  \* how often it was sighted, up to Confirmations
          shown       \* what was published last

trackVars  == <<id, place, sightings>>
objectVars == <<trackVars, shown>>

Published(what, i, p) == [what |-> what, track |-> i, place |-> p]

Nothing == Published("nothing", 0, NoPlace)
Unseen  == Published("unseen", 0, NoPlace)
Lost    == Published("lost", id, NoPlace)

Init ==
  /\ id = 0 /\ place = NoPlace /\ sightings = 0
  /\ shown = Nothing

Near(p, q) == p - q \in (-Distance)..Distance

\* The track with id i is sighted for the n-th time, at p.
Sight(i, p, n) ==
  /\ id' = i /\ place' = p /\ sightings' = n
  /\ shown' = Published(IF n >= Confirmations THEN "confirmed" ELSE "tentative", i, p)

SightAgain ==
  /\ id # 0
  /\ \E p \in Places :
       /\ Near(p, place)
       /\ Sight(id, p, IF sightings < Confirmations THEN sightings + 1 ELSE sightings)

SightAnew ==
  \E i \in Ids, p \in Places :
    /\ id # 0 => ~Near(p, place) /\ (i # id \/ Ids = {id})
    /\ Sight(i, p, 1)

Lose ==
  /\ id # 0
  /\ shown' = Lost
  /\ UNCHANGED trackVars

Miss ==
  /\ id' = 0 /\ place' = NoPlace /\ sightings' = 0
  /\ shown' = Unseen

SayNothing ==
  /\ shown' = Nothing
  /\ UNCHANGED trackVars

Next == SightAgain \/ SightAnew \/ Lose \/ Miss \/ SayNothing

Spec == Init /\ [][Next]_objectVars

=============================================================================
