-------------------------- MODULE PerceptionProofs --------------------------
(***************************************************************************)
(* Proofs, for any cameras, distances, ages and numbers of confirmations,  *)
(* of the safety properties of PerceptionProperties.                       *)
(***************************************************************************)
EXTENDS PerceptionProperties, WellFoundedInduction, TLAPS

-----------------------------------------------------------------------------
(* The newest of a set of stamps.                                          *)

LEMMA GreatestExists ==
  ASSUME NEW S \in SUBSET Times, S # {}
  PROVE  \E s \in S : \A t \in S : t <= s
<1> DEFINE R == OpToRel(<, Nat)
           T == {MaxTime - s : s \in S}
<1>1. T \in SUBSET Nat /\ T # {}
  <2>1. \A s \in S : MaxTime - s \in Nat
    BY PerceptionAssumption DEF Times
  <2>2. PICK s \in S : TRUE
    OBVIOUS
  <2>3. MaxTime - s \in T
    OBVIOUS
  <2>4. QED
    BY <2>1, <2>3
<1>2. IsWellFoundedOn(R, Nat)
  BY NatLessThanWellFounded
<1>3. PICK x \in T : \A y \in T : <<y, x>> \notin R
  <2> HIDE DEF R, T
  <2> QED
    BY <1>1, <1>2, WFMin
<1>4. \A y \in T : ~ (y < x)
  BY <1>1, <1>3 DEF OpToRel
<1> HIDE DEF R
<1>5. PICK s \in S : x = MaxTime - s
  BY <1>3
<1>6. \A t \in S : ~ (MaxTime - t < x)
  BY <1>4
<1>7. \A t \in S : t <= s
  BY <1>5, <1>6, PerceptionAssumption DEF Times
<1>8. QED
  BY <1>7

LEMMA LatestIsNewest ==
  ASSUME NEW S \in SUBSET Times, S # {}
  PROVE  Latest(S) \in S /\ \A t \in S : t <= Latest(S)
BY GreatestExists DEF Latest

LEMMA LatestType ==
  ASSUME NEW S \in SUBSET Times, S # {}
  PROVE  Latest(S) \in Times
BY LatestIsNewest

-----------------------------------------------------------------------------
(* What the pipeline and the fusion can make of the views.                 *)

LEMMA ViewType ==
  ASSUME view \in [Cameras -> Views \cup {NoView}], NEW c \in Cameras, view[c] # NoView
  PROVE  /\ view[c].stamp \in Times
         /\ view[c].seen = "posed" => view[c].place \in Places
BY DEF Views

LEMMA ObserversAreSeen ==
  ASSUME view \in [Cameras -> Views \cup {NoView}]
  PROVE  \A c \in Observers : c \in Cameras /\ view[c] # NoView /\ view[c].stamp \in Times
BY ViewType DEF Observers

LEMMA PosedAreSeen ==
  ASSUME view \in [Cameras -> Views \cup {NoView}]
  PROVE  /\ Posed \subseteq Observers
         /\ Posed \subseteq Showing
         /\ \A c \in Posed : view[c].place \in Places
BY ViewType, ObserversAreSeen DEF Posed, Observers, Showing

\* The fusion gives facts without a track; those with a pose lie between two
\* places that are shown.
LEMMA FusionType ==
  ASSUME view \in [Cameras -> Views \cup {NoView}], NEW f \in FusedFacts
  PROVE  /\ f \in Facts
         /\ f.status \notin {"TENTATIVE", "TEMPORARILY_LOST"}
         /\ f.track = 0 /\ (f.status = "none" => f = NoFact)
         /\ f.place # NoPlace => /\ f.present
                                 /\ f.place \in Places
                                 /\ \E c \in Showing : view[c].place <= f.place
                                 /\ \E c \in Showing : f.place <= view[c].place
<1>1. CASE Posed # {}
  <2>1. PICK p \in FusedPlaces :
          f = Fact(TRUE, "DETECTED_WITH_POSE", p, FusedStamp,
                   Latest({view[c].stamp : c \in Posed}), 0)
    BY <1>1 DEF FusedFacts
  <2>2. FusedStamp \in Times
    BY <1>1, ObserversAreSeen, PosedAreSeen, LatestType DEF FusedStamp
  <2>3. Latest({view[c].stamp : c \in Posed}) \in Times
    BY <1>1, ObserversAreSeen, PosedAreSeen, LatestType
  <2>4. p \in Places /\ \E c, d \in Posed : view[c].place <= p /\ p <= view[d].place
    BY DEF FusedPlaces
  <2>5. f \in Facts
    BY <2>1, <2>2, <2>3, <2>4, PerceptionAssumption DEF Fact, Facts, Statuses
  <2>6. QED
    BY <2>1, <2>4, <2>5, PosedAreSeen DEF Fact
<1>2. CASE Posed = {} /\ Observers # {}
  <2>1. PICK c \in Observers : f = PoselessFact(c)
    BY <1>2 DEF FusedFacts
  <2>2. view[c].stamp \in Times /\ view[c].seen \in {"missing", "nopose", "posed"}
    BY ObserversAreSeen DEF Views
  <2>3. PipelineStatus[view[c].seen] \in
          {"NOT_DETECTED", "DETECTED_NO_POSE", "DETECTED_WITH_POSE"}
    BY <2>2 DEF PipelineStatus
  <2>4. f \in Facts
    BY <2>1, <2>2, <2>3, PerceptionAssumption DEF PoselessFact, Fact, Facts, Statuses
  <2>5. f.status = PipelineStatus[view[c].seen] /\ f.place = NoPlace /\ f.track = 0
    BY <2>1 DEF PoselessFact, Fact
  <2>6. QED
    BY <2>3, <2>4, <2>5
<1>3. CASE Posed = {} /\ Observers = {}
  <2>1. f = NoFact
    BY <1>3 DEF FusedFacts
  <2>2. QED
    BY <2>1, PerceptionAssumption DEF NoFact, Fact, Facts, Statuses
<1>4. QED
  BY <1>1, <1>2, <1>3

-----------------------------------------------------------------------------
(* The tracker.                                                            *)

LEMMA TrackingStampType ==
  ASSUME now \in Times, view \in [Cameras -> Views \cup {NoView}]
  PROVE  TrackingStamp \in Times
<1> DEFINE stamps == {view[c].stamp : c \in {d \in Cameras : view[d] # NoView}}
<1>1. stamps \in SUBSET Times
  BY ViewType
<1>2. CASE stamps = {}
  BY <1>2 DEF TrackingStamp
<1>3. CASE stamps # {}
  <2>1. Latest(stamps) \in Times
    BY <1>1, <1>3, LatestType
  <2>2. QED
    BY <1>3, <2>1 DEF TrackingStamp
<1>4. QED
  BY <1>2, <1>3

LEMMA ApartType ==
  ASSUME NEW p \in Int, NEW q \in Int
  PROVE  /\ Apart(p, q) \in Nat
         /\ Apart(p, q) = Apart(q, p)
         /\ \A d \in Nat : Apart(p, q) <= d <=> p <= q + d /\ q <= p + d
BY DEF Apart

\* What following an object does: the fact takes the place of the track,
\* which is within one association distance of where the object was seen and
\* of where the track was, unless the track is a new one.
LEMMA FollowEffect ==
  ASSUME TypeOK, NEW f \in Facts, f.place \in Places, Follow(f)
  PROVE  /\ track' \in Tracks
         /\ nextId' \in 1..MaxTrack
         /\ fact' = Tracked(f, track', track'.id)
         /\ Apart(f.place, track'.place) <= AssociationDistance
         /\ \/ /\ track \in Tracks /\ Apart(track.place, track'.place) <= AssociationDistance
               /\ track'.id = track.id /\ nextId' = nextId
               /\ track'.confirmations = Confirmed
            \/ /\ track'.confirmations = 1 /\ track'.id = nextId
               /\ nextId' = (nextId % MaxTrack) + 1
               /\ track \in Tracks => Apart(track.place, track'.place) > AssociationDistance
<1>1. TrackingStamp \in Times
  BY TrackingStampType DEF TypeOK
<1>2. fact' = Tracked(f, track', track'.id)
  BY DEF Follow
<1>3. CASE Continues(f)
  <2>1. track \in Tracks
    BY <1>3 DEF Continues, TypeOK
  <2>2. Confirmed \in 1..MinConfirmations
    BY <2>1, PerceptionAssumption DEF Confirmed, Tracks
  <2>3. PICK p \in Places :
          /\ \/ f.place <= p /\ p <= track.place
             \/ track.place <= p /\ p <= f.place
          /\ track' = [id |-> track.id, place |-> p, last |-> TrackingStamp,
                       confirmations |-> Confirmed]
    BY <1>3 DEF Follow, ContinueTrack
  <2>4. track' \in Tracks /\ track'.place = p /\ track'.id = track.id
        /\ track'.confirmations = Confirmed
    BY <1>1, <2>1, <2>2, <2>3 DEF Tracks
  <2>5. nextId' = nextId
    BY <1>3 DEF Follow, ContinueTrack
  <2>6. track.place \in Int /\ p \in Int /\ f.place \in Int
    BY <2>1, PerceptionAssumption DEF Tracks, Places
  <2>7. Apart(f.place, p) <= AssociationDistance /\ Apart(track.place, p) <= AssociationDistance
    BY <1>3, <2>3, <2>6, PerceptionAssumption DEF Continues, Apart
  <2>8. QED
    BY <1>2, <2>1, <2>4, <2>5, <2>7 DEF TypeOK
<1>4. CASE ~Continues(f)
  <2>1. /\ track' = [id |-> nextId, place |-> f.place, last |-> TrackingStamp,
                     confirmations |-> 1]
        /\ nextId' = (nextId % MaxTrack) + 1
    BY <1>4 DEF Follow, StartTrack
  <2>2. track' \in Tracks
    BY <1>1, <2>1, PerceptionAssumption DEF Tracks, TypeOK
  <2>3. nextId' \in 1..MaxTrack
    BY <2>1, PerceptionAssumption DEF TypeOK
  <2>4. Apart(f.place, track'.place) <= AssociationDistance
    BY <2>1, PerceptionAssumption DEF Apart, Places
  <2>5. track \in Tracks => Apart(track.place, track'.place) > AssociationDistance
    <3>1. track \in Tracks => track # NoTrack /\ track.place \in Int /\ f.place \in Int
      BY PerceptionAssumption DEF Tracks, NoTrack, Places
    <3>2. QED
      BY <1>4, <2>1, <3>1, PerceptionAssumption DEF Continues, Apart
  <2>6. QED
    BY <1>2, <2>1, <2>2, <2>3, <2>4, <2>5
<1>5. QED
  BY <1>3, <1>4

\* Whatever the tracker does with a fact, its own stays well-typed.
LEMMA TickType ==
  ASSUME TypeOK, TickRun
  PROVE  /\ track' \in Tracks \cup {NoTrack} /\ nextId' \in 1..MaxTrack
         /\ fact' \in Facts /\ NamesTrack(fact')
<1>1. PICK f \in FusedFacts : Follow(f) \/ Lose(f) \/ Forget(f)
  BY DEF TickRun
<1>2. /\ f \in Facts /\ f.status \notin {"TENTATIVE", "TEMPORARILY_LOST"}
      /\ f.place # NoPlace => f.place \in Places
  BY FusionType DEF TypeOK
<1>3. CASE Follow(f)
  <2>1. f.place \in Places
    BY <1>2, <1>3 DEF Follow
  <2>2. track' \in Tracks /\ nextId' \in 1..MaxTrack /\ fact' = Tracked(f, track', track'.id)
    BY <1>2, <1>3, <2>1, FollowEffect
  <2>3. fact' \in Facts
    BY <1>2, <2>2, PerceptionAssumption DEF Tracked, Fact, Facts, Tracks, Statuses
  <2>4. fact'.track = track'.id /\ track'.id # 0
    BY <2>2, PerceptionAssumption DEF Tracked, Fact, Tracks
  <2>5. QED
    BY <2>2, <2>3, <2>4 DEF NamesTrack
<1>4. CASE Lose(f)
  <2>1. track \in Tracks /\ UNCHANGED <<track, nextId>>
    BY <1>4 DEF Lose, RecentlyLost, TypeOK
  <2>2. fact' = Fact(FALSE, "TEMPORARILY_LOST", NoPlace, f.stamp, f.observed, track.id)
    BY <1>4 DEF Lose
  <2>3. fact' \in Facts
    BY <1>2, <2>1, <2>2, PerceptionAssumption DEF Fact, Facts, Tracks, Statuses
  <2>4. fact'.track # 0
    BY <2>1, <2>2, PerceptionAssumption DEF Fact, Tracks
  <2>5. QED
    BY <2>1, <2>3, <2>4 DEF NamesTrack, TypeOK
<1>5. CASE Forget(f)
  BY <1>2, <1>5 DEF Forget, TypeOK, NamesTrack
<1>6. QED
  BY <1>1, <1>3, <1>4, <1>5

-----------------------------------------------------------------------------
(* Types.                                                                  *)

LEMMA TypeInit == Init => TypeOK
<1> SUFFICES ASSUME Init PROVE TypeOK
  OBVIOUS
<1>1. NoFact \in Facts /\ NamesTrack(NoFact)
  BY PerceptionAssumption DEF NoFact, Fact, Facts, Statuses, NamesTrack
<1>2. now \in Times /\ nextId \in 1..MaxTrack
  BY PerceptionAssumption DEF Init, Times
<1>3. QED
  BY <1>1, <1>2 DEF Init, TypeOK

LEMMA TypeStep == TypeOK /\ [Next]_vars => TypeOK'
<1> SUFFICES ASSUME TypeOK, [Next]_vars PROVE TypeOK'
  OBVIOUS
<1>1. CASE Advance
  BY <1>1, PerceptionAssumption DEF Advance, TypeOK, Times
<1>2. ASSUME NEW c \in Cameras, NewView(c) PROVE TypeOK'
  BY <1>2 DEF NewView, TypeOK
<1>3. CASE TransformChanges
  BY <1>3 DEF TransformChanges, TypeOK
<1>4. CASE TickRun
  BY <1>4, TickType DEF TickRun, TypeOK
<1>5. CASE TickStore
  <2>1. NoFact \in Facts /\ NamesTrack(NoFact)
    BY PerceptionAssumption DEF NoFact, Fact, Facts, Statuses, NamesTrack
  <2>2. QED
    BY <1>5, <2>1 DEF TickStore, TypeOK
<1>6. CASE UNCHANGED vars
  BY <1>6 DEF vars, TypeOK
<1>7. QED
  BY <1>1, <1>2, <1>3, <1>4, <1>5, <1>6 DEF Next

\* The variables have their types.
THEOREM TypeCorrect == Spec => []TypeOK
BY TypeInit, TypeStep, PTL DEF Spec

-----------------------------------------------------------------------------
(* What is published is seen.                                              *)

\* Between two publications there is no fact in progress.
IdleInv == step = "idle" => fact = NoFact

LEMMA IdleStep == IdleInv /\ [Next]_vars => IdleInv'
BY DEF IdleInv, Next, vars, Advance, NewView, TransformChanges, TickRun, TickStore

\* A step that sets out from "idle" and leads to a fact with a pose is a
\* publication that follows the object.
LEMMA PosedFactIsFollowed ==
  ASSUME TypeOK, IdleInv, [Next]_vars, step = "idle", fact'.place # NoPlace
  PROVE  \E f \in FusedFacts : Follow(f)
<1>1. NoFact.place = NoPlace
  BY DEF NoFact, Fact
<1>2. TickRun
  BY <1>1 DEF IdleInv, Next, vars, Advance, NewView, TransformChanges, TickStore
<1>3. PICK f \in FusedFacts : Follow(f) \/ Lose(f) \/ Forget(f)
  BY <1>2 DEF TickRun
<1>4. ~Lose(f) /\ ~Forget(f)
  BY DEF Lose, Forget, Fact
<1>5. QED
  BY <1>3, <1>4

\* The pose of a new fact is within one association distance of places that
\* are shown at this moment.
THEOREM PoseIsObservedHolds == Spec => PoseIsObserved
<1>1. Init => TypeOK /\ IdleInv
  BY TypeInit DEF Init, IdleInv
<1>2. TypeOK /\ IdleInv /\ [Next]_vars
      => [ step = "idle" /\ fact'.place # NoPlace =>
           /\ fact'.present
           /\ \E c \in Showing : view[c].place <= fact'.place + AssociationDistance
           /\ \E c \in Showing : view[c].place >= fact'.place - AssociationDistance ]_vars
  <2> SUFFICES ASSUME TypeOK, IdleInv, [Next]_vars, step = "idle", fact'.place # NoPlace
               PROVE  /\ fact'.present
                      /\ \E c \in Showing : view[c].place <= fact'.place + AssociationDistance
                      /\ \E c \in Showing : view[c].place >= fact'.place - AssociationDistance
    OBVIOUS
  <2>1. PICK f \in FusedFacts : Follow(f)
    BY PosedFactIsFollowed
  <2>2. f.place # NoPlace
    BY <2>1 DEF Follow
  <2>3. /\ f \in Facts /\ f.present /\ f.place \in Places
        /\ \E c \in Showing : view[c].place <= f.place
        /\ \E c \in Showing : f.place <= view[c].place
    BY <2>2, FusionType DEF TypeOK
  <2>4. /\ track' \in Tracks /\ fact' = Tracked(f, track', track'.id)
        /\ Apart(f.place, track'.place) <= AssociationDistance
    BY <2>1, <2>3, FollowEffect
  <2>5. fact'.place = track'.place /\ fact'.present
    BY <2>3, <2>4 DEF Tracked, Fact
  <2>6. f.place \in Int /\ fact'.place \in Int
    BY <2>3, <2>4, <2>5, PerceptionAssumption DEF Places, Tracks
  <2>7. f.place <= fact'.place + AssociationDistance /\ f.place >= fact'.place - AssociationDistance
    BY <2>4, <2>5, <2>6, PerceptionAssumption DEF Apart
  <2>8. \A c \in Showing : view[c].place \in Int
    <3> SUFFICES ASSUME NEW c \in Showing PROVE view[c].place \in Int
      OBVIOUS
    <3>1. c \in Cameras /\ view[c].seen = "posed"
      BY DEF Showing, TypeOK
    <3>2. view[c] # NoView
      BY <3>1 DEF NoView
    <3>3. view[c].place \in Places
      BY <3>1, <3>2, ViewType DEF TypeOK
    <3>4. QED
      BY <3>3, PerceptionAssumption DEF Places
  <2>9. QED
    BY <2>3, <2>5, <2>6, <2>7, <2>8, PerceptionAssumption
<1>3. QED
  BY <1>1, <1>2, TypeStep, IdleStep, PTL DEF Spec, PoseIsObserved

-----------------------------------------------------------------------------
(* A confirmed pose never jumps.  What was published last is where the     *)
(* track is; so is the fact in progress, unless the object is not seen.    *)

Jumps(from, to) ==
  from.place # NoPlace /\ to.place # NoPlace /\ Apart(from.place, to.place) > AssociationDistance

\* A new track has the next id; ids are counted modulo MaxTrack.
NextId(id) == (id % MaxTrack) + 1

LEMMA NextIdIsNew ==
  ASSUME NEW id \in 1..MaxTrack, MaxTrack > 1
  PROVE  NextId(id) # id
<1>1. CASE id = MaxTrack
  <2>1. MaxTrack % MaxTrack = 0
    BY PerceptionAssumption
  <2>2. QED
    BY <1>1, <2>1, PerceptionAssumption DEF NextId
<1>2. CASE id < MaxTrack
  <2>1. id % MaxTrack = id
    BY <1>2, PerceptionAssumption
  <2>2. QED
    BY <2>1, PerceptionAssumption DEF NextId
<1>3. QED
  BY <1>1, <1>2, PerceptionAssumption

\* A fact with a pose is of the track.
OfTrack(f) ==
  f.place # NoPlace => track \in Tracks /\ f.place = track.place /\ f.track = track.id

\* A new track, which nothing has confirmed.
Renewed(from, to) ==
  /\ MinConfirmations > 1 => to.status = "TENTATIVE"
  /\ MaxTrack > 1 => to.track # from.track

TrackInv ==
  /\ track # NoTrack => nextId = NextId(track.id)
  /\ step = "idle" => OfTrack(latest)
  /\ step = "store" => OfTrack(fact)
  /\ Jumps(latest, fact) => Renewed(latest, fact)

\* What a publication does to the track and its fact.
LEMMA TickFollows ==
  ASSUME TypeOK, IdleInv, TrackInv, TickRun, fact'.place # NoPlace
  PROVE  /\ OfTrack(fact)'
         /\ nextId' = NextId(track'.id)
         /\ Jumps(latest, fact') => Renewed(latest, fact')
<1>1. step = "idle" /\ [Next]_vars
  BY DEF TickRun, Next
<1>2. PICK f \in FusedFacts : Follow(f)
  BY <1>1, PosedFactIsFollowed
<1>3. f \in Facts /\ f.place \in Places
  BY <1>2, FusionType DEF TypeOK, Follow
<1>4. /\ track' \in Tracks /\ fact' = Tracked(f, track', track'.id)
      /\ \/ /\ track \in Tracks /\ Apart(track.place, track'.place) <= AssociationDistance
            /\ track'.id = track.id /\ nextId' = nextId
         \/ /\ track'.confirmations = 1 /\ track'.id = nextId
            /\ nextId' = NextId(nextId)
  BY <1>2, <1>3, FollowEffect DEF NextId
<1>5. OfTrack(fact)'
  BY <1>4 DEF OfTrack, Tracked, Fact
<1>6. nextId' = NextId(track'.id)
  <2>1. track \in Tracks => track # NoTrack
    BY PerceptionAssumption DEF Tracks, NoTrack
  <2>2. QED
    BY <1>4, <2>1 DEF TrackInv
<1>7. ASSUME Jumps(latest, fact')
      PROVE  Renewed(latest, fact')
  <2>1. track \in Tracks /\ latest.place = track.place /\ latest.track = track.id
    BY <1>1, <1>7 DEF TrackInv, Jumps, OfTrack
  <2>2. fact'.place = track'.place /\ fact'.track = track'.id
    BY <1>4 DEF Tracked, Fact
  <2>3. /\ Apart(track.place, track'.place) \in Nat
        /\ Apart(track.place, track'.place) > AssociationDistance
    BY <1>4, <1>7, <2>1, <2>2, ApartType, PerceptionAssumption DEF Jumps, Tracks, Places
  <2>4. track'.confirmations = 1 /\ track'.id = nextId
    BY <1>4, <2>3, PerceptionAssumption
  <2>5. MinConfirmations > 1 => fact'.status = "TENTATIVE"
    BY <1>4, <2>4, PerceptionAssumption DEF Tracked, Fact
  <2>6. nextId = NextId(track.id) /\ track.id \in 1..MaxTrack
    BY <2>1, PerceptionAssumption DEF TrackInv, Tracks, NoTrack
  <2>7. MaxTrack > 1 => fact'.track # latest.track
    BY <2>1, <2>2, <2>4, <2>6, NextIdIsNew
  <2>8. QED
    BY <2>5, <2>7 DEF Renewed
<1>8. QED
  BY <1>5, <1>6, <1>7

LEMMA TrackStep == TypeOK /\ IdleInv /\ TrackInv /\ [Next]_vars => TrackInv'
<1> SUFFICES ASSUME TypeOK, IdleInv, TrackInv, [Next]_vars PROVE TrackInv'
  OBVIOUS
<1>1. NoFact.place = NoPlace
  BY DEF NoFact, Fact
<1>2. CASE UNCHANGED <<step, fact, track, nextId, latest>>
  BY <1>2 DEF TrackInv, OfTrack, Jumps, Renewed
<1>3. CASE TickStore
  <2>1. /\ step' = "idle" /\ latest' = fact /\ fact' = NoFact /\ step = "store"
        /\ UNCHANGED <<track, nextId>>
    BY <1>3 DEF TickStore
  <2>2. QED
    BY <1>1, <2>1 DEF TrackInv, OfTrack, Jumps
<1>4. CASE TickRun
  <2>1. step = "idle" /\ step' = "store" /\ latest' = latest
    BY <1>4 DEF TickRun
  <2>2. CASE fact'.place = NoPlace
    <3>1. PICK f \in FusedFacts : Follow(f) \/ Lose(f) \/ Forget(f)
      BY <1>4 DEF TickRun
    <3>2. ~Follow(f)
      <4>1. ASSUME Follow(f) PROVE FALSE
        <5>1. f \in Facts /\ f.place \in Places
          BY <4>1, FusionType DEF TypeOK, Follow
        <5>2. track' \in Tracks /\ fact' = Tracked(f, track', track'.id)
          BY <4>1, <5>1, FollowEffect
        <5>3. fact'.place \in Places
          BY <5>2 DEF Tracked, Fact, Tracks
        <5>4. QED
          BY <2>2, <5>3 DEF Places, NoPlace
      <4>2. QED
        BY <4>1
    <3>3. nextId' = nextId /\ (track' = track \/ track' = NoTrack)
      BY <3>1, <3>2 DEF Lose, Forget
    <3>4. QED
      BY <2>1, <2>2, <3>3 DEF TrackInv, OfTrack, Jumps
  <2>3. CASE fact'.place # NoPlace
    BY <1>4, <2>1, <2>3, TickFollows DEF TrackInv
  <2>4. QED
    BY <2>2, <2>3
<1>5. QED
  BY <1>2, <1>3, <1>4 DEF Next, vars, Advance, NewView, TransformChanges

LEMMA TrackInit == Init => TypeOK /\ IdleInv /\ TrackInv
<1> SUFFICES ASSUME Init PROVE TypeOK /\ IdleInv /\ TrackInv
  OBVIOUS
<1>1. NoFact.place = NoPlace
  BY DEF NoFact, Fact
<1>2. QED
  BY <1>1, TypeInit DEF Init, IdleInv, TrackInv, OfTrack, Jumps

\* When what is published moves farther than one association distance, it is
\* tentative and has another track id.
THEOREM ConfirmedPoseNeverJumpsHolds == Spec => ConfirmedPoseNeverJumps
<1>1. Init => TypeOK /\ IdleInv /\ TrackInv
  BY TrackInit
<1>2. ASSUME TypeOK, TrackInv, [Next]_vars, Jumps(latest, latest')
      PROVE  Renewed(latest, latest')
  <2>1. CASE latest' = latest
    <3>1. latest.place \in Int
      BY <1>2, PerceptionAssumption DEF TypeOK, Facts, Places, NoPlace
    <3>2. Apart(latest.place, latest.place) = 0
      BY <3>1 DEF Apart
    <3>3. QED
      BY <1>2, <2>1, <3>2, PerceptionAssumption DEF Jumps
  <2>2. CASE latest' = fact
    BY <1>2, <2>2 DEF TrackInv
  <2>3. QED
    BY <1>2, <2>1, <2>2 DEF Next, vars, Advance, NewView, TransformChanges, TickRun, TickStore
<1>3. TypeOK /\ IdleInv /\ TrackInv /\ [Next]_vars =>
        ( /\ latest.place # NoPlace /\ latest'.place # NoPlace
          /\ Apart(latest.place, latest'.place) > AssociationDistance
          => /\ MinConfirmations > 1 => latest'.status = "TENTATIVE"
             /\ MaxTrack > 1 => latest'.track # latest.track )
  BY <1>2 DEF Jumps, Renewed
<1>4. QED
  BY <1>1, <1>3, TypeStep, IdleStep, TrackStep, PTL DEF Spec, ConfirmedPoseNeverJumps

-----------------------------------------------------------------------------
(* Refinement of TrackedObject.                                            *)

LEMMA NearIsApart ==
  ASSUME NEW p \in Int, NEW q \in Int
  PROVE  Object!Near(p, q) <=> Apart(q, p) <= AssociationDistance
BY PerceptionAssumption DEF Object!Near, Apart

\* What a fact says, as the abstract node shows it.
Shows(f) == [what |-> Says(f), track |-> f.track, place |-> f.place]

LEMMA NothingIsShown == Shows(NoFact) = Object!Nothing
<1>1. NoFact.status = "none" /\ NoFact.track = 0 /\ NoFact.place = NoPlace
  BY DEF NoFact, Fact
<1>2. Says(NoFact) = "nothing"
  BY <1>1 DEF Says
<1>3. QED
  BY <1>1, <1>2 DEF Shows, Object!Nothing, Object!Published

LEMMA LostIsShown ==
  ASSUME NEW f, f.status = "TEMPORARILY_LOST", f.track = track.id, f.place = NoPlace
  PROVE  Shows(f) = Object!Lost
<1>1. Says(f) = "lost"
  BY DEF Says
<1>2. QED
  BY <1>1 DEF Shows, Object!Lost, Object!Published

LEMMA ObjectRefinesInit == Init => Object!Init
<1> SUFFICES ASSUME Init PROVE Object!Init
  OBVIOUS
<1>1. track.id = 0 /\ track.place = NoPlace /\ track.confirmations = 0
  BY DEF Init, NoTrack
<1>2. Last = NoFact
  BY DEF Init, Last
<1>3. Shows(Last) = Object!Nothing
  BY <1>2, NothingIsShown
<1>4. QED
  BY <1>1, <1>3 DEF Object!Init, Shows

\* Only the track and what is shown count.
LEMMA ObjectStutters ==
  ASSUME track' = track, Last' = Last
  PROVE  UNCHANGED Object!objectVars
BY DEF Object!objectVars, Object!trackVars, Says

\* A publication that follows the object sights it.
LEMMA FollowSights ==
  ASSUME TypeOK, TrackInv, NEW f \in Facts, f.place \in Places, Follow(f), step' = "store"
  PROVE  Object!SightAgain \/ Object!SightAnew
<1>1. /\ track' \in Tracks /\ fact' = Tracked(f, track', track'.id)
      /\ \/ /\ track \in Tracks /\ Apart(track.place, track'.place) <= AssociationDistance
            /\ track'.id = track.id /\ track'.confirmations = Confirmed
         \/ /\ track'.confirmations = 1 /\ track'.id = nextId
            /\ track \in Tracks => Apart(track.place, track'.place) > AssociationDistance
  BY FollowEffect
<1>2. track'.place \in Places /\ track'.place # NoPlace /\ track'.id \in 1..MaxTrack
  BY <1>1, PerceptionAssumption DEF Tracks, Places, NoPlace
<1>3. Last' = fact'
  BY DEF Last
<1>4. Shows(Last') = Object!Published(
        IF track'.confirmations >= MinConfirmations THEN "confirmed" ELSE "tentative",
        track'.id, track'.place)
  BY <1>1, <1>2, <1>3 DEF Shows, Says, Tracked, Fact, Object!Published
<1>5. Object!Sight(track'.id, track'.place, track'.confirmations)
  BY <1>4 DEF Object!Sight, Shows, Says
<1>6. track \in Tracks => /\ track.place \in Int /\ track'.place \in Int
                          /\ track.id \in 1..MaxTrack /\ track.id # 0
                          /\ track.confirmations \in 1..MinConfirmations
  BY <1>2, PerceptionAssumption DEF Tracks, Places
<1>7. CASE /\ track \in Tracks /\ Apart(track.place, track'.place) <= AssociationDistance
           /\ track'.id = track.id /\ track'.confirmations = Confirmed
  <2>1. Object!Near(track'.place, track.place)
    BY <1>6, <1>7, NearIsApart
  <2>2. Confirmed = IF track.confirmations < MinConfirmations THEN track.confirmations + 1
                    ELSE track.confirmations
    BY <1>6, <1>7, PerceptionAssumption DEF Confirmed
  <2>3. QED
    BY <1>2, <1>5, <1>6, <1>7, <2>1, <2>2 DEF Object!SightAgain
<1>8. CASE /\ track'.confirmations = 1 /\ track'.id = nextId
           /\ track \in Tracks => Apart(track.place, track'.place) > AssociationDistance
  <2>1. track.id # 0 => track \in Tracks
    BY DEF TypeOK, NoTrack
  <2>2. ASSUME track \in Tracks
        PROVE  /\ ~Object!Near(track'.place, track.place)
               /\ nextId # track.id \/ 1..MaxTrack = {track.id}
    <3>1. Apart(track.place, track'.place) \in Nat
      BY <1>6, <2>2, ApartType
    <3>2. ~Object!Near(track'.place, track.place)
      BY <1>6, <1>8, <2>2, <3>1, NearIsApart, PerceptionAssumption
    <3>3. nextId = NextId(track.id)
      BY <2>2, <1>6 DEF TrackInv, NoTrack
    <3>4. MaxTrack > 1 => nextId # track.id
      BY <1>6, <2>2, <3>3, NextIdIsNew
    <3>5. ~(MaxTrack > 1) => 1..MaxTrack = {track.id}
      BY <1>6, <2>2, PerceptionAssumption
    <3>6. QED
      BY <3>2, <3>4, <3>5
  <2>3. QED
    BY <1>2, <1>5, <1>8, <2>1, <2>2 DEF Object!SightAnew
<1>9. QED
  BY <1>1, <1>7, <1>8

LEMMA ObjectRefinesStep ==
  TypeOK /\ IdleInv /\ TrackInv /\ [Next]_vars => [Object!Next]_(Object!objectVars)
<1> SUFFICES ASSUME TypeOK, TrackInv, [Next]_vars
             PROVE  Object!Next \/ UNCHANGED Object!objectVars
  OBVIOUS
<1>1. CASE TickRun
  <2>1. PICK f \in FusedFacts : Follow(f) \/ Lose(f) \/ Forget(f)
    BY <1>1 DEF TickRun
  <2>2. /\ f \in Facts /\ f.track = 0 /\ (f.status = "none" => f = NoFact)
        /\ f.status \notin {"TENTATIVE", "TEMPORARILY_LOST"}
        /\ f.place # NoPlace => f.place \in Places
    BY FusionType DEF TypeOK
  <2>3. step' = "store" /\ Last' = fact'
    BY <1>1 DEF TickRun, Last
  <2>4. CASE Follow(f)
    <3>1. Object!SightAgain \/ Object!SightAnew
      BY <2>2, <2>3, <2>4, FollowSights DEF Follow
    <3>2. QED
      BY <3>1 DEF Object!Next
  <2>5. CASE Lose(f)
    <3>1. track' = track /\ track \in Tracks
      BY <2>5 DEF Lose, RecentlyLost, TypeOK
    <3> DEFINE g == Last'
    <3>5. g.status = "TEMPORARILY_LOST" /\ g.track = track.id /\ g.place = NoPlace
      BY <2>3, <2>5 DEF Lose, Fact
    <3>2. Shows(Last') = Object!Lost
      BY ONLY <3>5, LostIsShown
    <3>3. track.id # 0
      BY <3>1, PerceptionAssumption DEF Tracks
    <3>4. Object!Lose
      BY <3>1, <3>2, <3>3 DEF Object!Lose, Object!trackVars, Shows, Says
    <3>6. QED
      BY <3>4 DEF Object!Next
  <2>6. CASE Forget(f) /\ f = NoFact
    <3>1. track' = track /\ Last' = NoFact
      BY <2>3, <2>6 DEF Forget
    <3>2. Shows(Last') = Object!Nothing
      BY <3>1, NothingIsShown
    <3>3. Object!SayNothing
      BY <3>1, <3>2 DEF Object!SayNothing, Object!trackVars, Shows, Says
    <3>4. QED
      BY <3>3 DEF Object!Next
  <2>7. CASE Forget(f) /\ f # NoFact
    <3>1. track' = NoTrack /\ Last' = f /\ f.place = NoPlace
      BY <2>3, <2>7 DEF Forget
    <3>2. Shows(Last') = Object!Unseen
      BY <2>2, <2>7, <3>1 DEF Shows, Says, Object!Unseen, Object!Published
    <3>3. track'.id = 0 /\ track'.place = NoPlace /\ track'.confirmations = 0
      BY <3>1 DEF NoTrack
    <3>4. Object!Miss
      BY <3>2, <3>3 DEF Object!Miss, Shows, Says
    <3>5. QED
      BY <3>4 DEF Object!Next
  <2>8. QED
    BY <2>1, <2>4, <2>5, <2>6, <2>7
<1>2. CASE TickStore
  <2>1. track' = track /\ Last' = Last
    BY <1>2 DEF TickStore, Last
  <2>2. QED
    BY <2>1, ObjectStutters
<1>3. CASE Advance \/ (\E c \in Cameras : NewView(c)) \/ TransformChanges \/ UNCHANGED vars
  <2>1. UNCHANGED <<track, step, fact, latest>>
    BY <1>3 DEF Advance, NewView, TransformChanges, vars
  <2>2. track' = track /\ Last' = Last
    BY <2>1 DEF Last
  <2>3. QED
    BY <2>2, ObjectStutters
<1>4. QED
  BY <1>1, <1>2, <1>3 DEF Next

\* What the node publishes of an object is what a client may see of one track
\* after the other.
THEOREM PerceptionImplementsObject == Spec => ImplementsObject
BY TrackInit, TypeStep, IdleStep, TrackStep, ObjectRefinesInit, ObjectRefinesStep, PTL
DEF Spec, ImplementsObject, Object!Spec

-----------------------------------------------------------------------------
(* Freshness.  No stamp is in the future, and none that is published with  *)
(* a pose is older than the frame the pose was seen in.                    *)

OneCamera == \A c, d \in Cameras : c = d

\* The stamps of a fact.
StampOK(f) ==
  /\ f.stamp <= now
  /\ f.place # NoPlace => /\ f.stamp \in Times /\ f.observed \in Times
                          /\ f.observed <= f.stamp
                          /\ OneCamera => f.observed = f.stamp

StampInv ==
  /\ \A c \in Cameras : view[c].stamp <= now
  /\ StampOK(fact) /\ StampOK(latest)

LEMMA NoFactStamps ==
  ASSUME now \in Times
  PROVE  StampOK(NoFact)
BY PerceptionAssumption DEF StampOK, NoFact, Fact, Times

\* The fusion stamps a fact with a stamp of the frames, and one with a pose with
\* none that is older than those of the pose.
LEMMA FusionStamps ==
  ASSUME TypeOK, \A c \in Cameras : view[c].stamp <= now, NEW f \in FusedFacts
  PROVE  StampOK(f)
<1> DEFINE all == {view[c].stamp : c \in Observers}
           posed == {view[c].stamp : c \in Posed}
<1>1. all \in SUBSET Times /\ posed \subseteq all
  BY ObserversAreSeen, PosedAreSeen DEF TypeOK
<1>2. \A s \in all : s <= now
  BY ObserversAreSeen DEF TypeOK
<1>3. CASE Posed # {}
  <2>1. PICK p \in FusedPlaces :
          f = Fact(TRUE, "DETECTED_WITH_POSE", p, FusedStamp, Latest(posed), 0)
    BY <1>3 DEF FusedFacts
  <2>2. posed # {} /\ all # {}
    BY <1>1, <1>3
  <2>3. /\ Latest(all) \in all /\ \A s \in all : s <= Latest(all)
        /\ Latest(posed) \in posed
    <3> HIDE DEF all, posed
    <3> QED
      BY <1>1, <2>2, LatestIsNewest
  <2>4. OneCamera => posed = all
    <3> SUFFICES ASSUME OneCamera PROVE Observers \subseteq Posed
      BY <1>1
    <3>1. \A c \in Observers, d \in Posed : c = d
      BY ObserversAreSeen, PosedAreSeen DEF OneCamera, TypeOK
    <3>2. QED
      BY <1>3, <3>1
  <2>5. /\ f.stamp = Latest(all) /\ f.observed = Latest(posed)
    BY <2>1 DEF Fact, FusedStamp
  <2> HIDE DEF all, posed
  <2>6. f.stamp \in Times /\ f.observed \in Times /\ f.observed <= f.stamp /\ f.stamp <= now
    BY <1>1, <1>2, <2>3, <2>5
  <2>7. QED
    BY <2>4, <2>5, <2>6 DEF StampOK
<1>4. CASE Posed = {} /\ Observers # {}
  <2>1. PICK c \in Observers : f = PoselessFact(c)
    BY <1>4 DEF FusedFacts
  <2>2. f.place = NoPlace /\ f.stamp = view[c].stamp
    BY <2>1 DEF PoselessFact, Fact
  <2>3. QED
    BY <1>2, <2>2 DEF StampOK
<1>5. CASE Posed = {} /\ Observers = {}
  BY <1>5, NoFactStamps DEF FusedFacts, TypeOK
<1>6. QED
  BY <1>3, <1>4, <1>5

LEMMA StampStep == TypeOK /\ StampInv /\ [Next]_vars => StampInv'
<1> SUFFICES ASSUME TypeOK, StampInv, [Next]_vars PROVE StampInv'
  OBVIOUS
<1>1. CASE Advance
  <2>1. now \in Int /\ now' = now + 1 /\ UNCHANGED <<view, fact, latest>>
    BY <1>1, PerceptionAssumption DEF Advance, TypeOK, Times
  <2>2. ASSUME NEW f \in Facts, StampOK(f) PROVE StampOK(f)'
    BY <2>1, <2>2, PerceptionAssumption DEF StampOK, Facts, Times
  <2>3. \A c \in Cameras : view[c].stamp \in Int
    BY PerceptionAssumption DEF TypeOK, Views, NoView, Times
  <2>4. \A c \in Cameras : view'[c].stamp <= now'
    BY <2>1, <2>3 DEF StampInv
  <2>5. QED
    BY <2>1, <2>2, <2>4 DEF StampInv, StampOK, TypeOK
<1>2. ASSUME NEW c \in Cameras, NewView(c) PROVE StampInv'
  <2>1. PICK v \in Views : v.stamp <= now /\ view' = [view EXCEPT ![c] = v]
    BY <1>2 DEF NewView
  <2>2. \A d \in Cameras : view'[d].stamp <= now
    BY <2>1 DEF StampInv, TypeOK
  <2>3. QED
    BY <1>2, <2>2 DEF NewView, StampInv, StampOK
<1>3. CASE TransformChanges
  BY <1>3 DEF TransformChanges, StampInv, StampOK
<1>4. CASE TickRun
  <2>1. PICK f \in FusedFacts : Follow(f) \/ Lose(f) \/ Forget(f)
    BY <1>4 DEF TickRun
  <2>2. StampOK(f) /\ UNCHANGED <<now, view, latest>>
    BY <1>4, FusionStamps DEF StampInv, TickRun
  <2>3. StampOK(fact')
    <3>1. CASE Follow(f)
      <4>1. fact'.stamp = f.stamp /\ fact'.observed = f.observed /\ f.place # NoPlace
        BY <3>1 DEF Follow, Tracked, Fact
      <4>2. QED
        BY <2>2, <4>1 DEF StampOK
    <3>2. CASE Lose(f)
      <4>1. fact'.stamp = f.stamp /\ fact'.place = NoPlace
        BY <3>2 DEF Lose, Fact
      <4>2. QED
        BY <2>2, <4>1 DEF StampOK
    <3>3. CASE Forget(f)
      BY <2>2, <3>3 DEF Forget
    <3>4. QED
      BY <2>1, <3>1, <3>2, <3>3
  <2>4. QED
    BY <2>2, <2>3 DEF StampInv, StampOK
<1>5. CASE TickStore
  <2>1. latest' = fact /\ fact' = NoFact /\ UNCHANGED <<now, view>>
    BY <1>5 DEF TickStore
  <2>2. StampOK(NoFact)
    BY NoFactStamps DEF TypeOK
  <2>3. QED
    BY <2>1, <2>2 DEF StampInv, StampOK
<1>6. CASE UNCHANGED vars
  BY <1>6 DEF vars, StampInv, StampOK
<1>7. QED
  BY <1>1, <1>2, <1>3, <1>4, <1>5, <1>6 DEF Next

LEMMA StampInvHolds == Spec => []StampInv
<1>1. Init => StampInv
  <2> SUFFICES ASSUME Init PROVE StampInv
    OBVIOUS
  <2>1. StampOK(NoFact)
    BY TypeInit, NoFactStamps DEF TypeOK
  <2>2. \A c \in Cameras : view[c].stamp <= now
    BY DEF Init, NoView
  <2>3. QED
    BY <2>1, <2>2 DEF Init, StampInv
<1>2. QED
  BY <1>1, StampStep, TypeCorrect, PTL DEF Spec

\* With one camera, a pose returned as fresh comes from a recent frame.
THEOREM FreshWithOneCameraHolds == Spec => []FreshWithOneCamera
<1>1. TypeOK /\ StampInv => FreshWithOneCamera
  BY DEF StampInv, StampOK, FreshWithOneCamera, OneCamera, DocFreshPoseIsRecent, FreshPose, PoseUsable
<1>2. QED
  BY <1>1, TypeCorrect, StampInvHolds, PTL

\* Whatever the cameras, a pose from a recent frame is not refused as stale.
THEOREM RecentPoseIsFreshHolds == Spec => []RecentPoseIsFresh
<1>1. TypeOK /\ StampInv => RecentPoseIsFresh
  <2> SUFFICES ASSUME TypeOK, StampInv, NEW maxAge \in 1..MaxTime, PoseUsable,
                      now - latest.observed <= maxAge
               PROVE  FreshPose(maxAge)
    BY DEF RecentPoseIsFresh
  <2>1. latest.stamp \in Times /\ latest.observed \in Times /\ latest.observed <= latest.stamp
    BY DEF StampInv, StampOK, PoseUsable
  <2>2. QED
    BY <2>1, PerceptionAssumption DEF FreshPose, TypeOK, Times
<1>2. QED
  BY <1>1, TypeCorrect, StampInvHolds, PTL

-----------------------------------------------------------------------------
(* Plain sight: the step that confirms.                                    *)

\* In plain sight the fusion gives the place that every camera shows.
LEMMA PlainSightIsFused ==
  ASSUME TypeOK, InPlainSight, NEW f \in FusedFacts, NEW c \in Cameras
  PROVE  f.present /\ f.place \in Places /\ f.place = view[c].place
<1>1. /\ Posed = Cameras /\ Cameras # {}
      /\ \A d \in Cameras : view[d].place = view[c].place
  <2>1. \A d \in Cameras : view[d] # NoView /\ d \in tf /\ view[d].seen = "posed"
    BY DEF InPlainSight, NoView
  <2>2. QED
    BY <2>1 DEF InPlainSight, Posed, Observers
<1>2. view[c].place \in Places
  BY <1>1, PosedAreSeen DEF TypeOK
<1>3. PICK p \in FusedPlaces :
        f = Fact(TRUE, "DETECTED_WITH_POSE", p, FusedStamp,
                 Latest({view[d].stamp : d \in Posed}), 0)
  BY <1>1 DEF FusedFacts
<1>4. p \in Places /\ view[c].place <= p /\ p <= view[c].place
  BY <1>1 DEF FusedPlaces
<1>5. p = view[c].place
  BY <1>2, <1>4, PerceptionAssumption DEF Places
<1>6. QED
  BY <1>3, <1>4, <1>5 DEF Fact

\* A publication in plain sight has a pose, takes the track to the place seen,
\* and confirms the track if it was there.  With the timer's fairness nothing
\* else is needed for ConfirmedEventually.
THEOREM PlainSightConfirmsHolds == Spec => PlainSightConfirms
<1> DEFINE Confirms ==
      /\ fact'.present /\ fact'.place # NoPlace
      /\ AtHand'
      /\ track'.confirmations = IF track # NoTrack /\ AtHand THEN Confirmed ELSE 1
<1>1. ASSUME TypeOK, TickRun, InPlainSight
      PROVE  Confirms
  <2>1. PICK f \in FusedFacts : Follow(f) \/ Lose(f) \/ Forget(f)
    BY <1>1 DEF TickRun
  <2>2. f.present /\ f.place \in Places /\ \A c \in Cameras : view[c].place = f.place
    BY <1>1, PlainSightIsFused, PerceptionAssumption
  <2>3. f.place # NoPlace /\ Follow(f)
    <3>1. f.place # NoPlace
      BY <2>2, PerceptionAssumption DEF Places, NoPlace
    <3>2. QED
      BY <2>1, <3>1 DEF Lose, Forget
  <2>4. /\ track' \in Tracks /\ fact' = Tracked(f, track', track'.id)
        /\ Apart(f.place, track'.place) <= AssociationDistance
    BY <1>1, <2>2, <2>3, FusionType, FollowEffect DEF TypeOK
  <2>5. fact'.present /\ fact'.place # NoPlace
    BY <2>2, <2>4, PerceptionAssumption DEF Tracked, Fact, Tracks, Places, NoPlace
  <2>6. AtHand'
    <3>1. view' = view
      BY <1>1 DEF TickRun
    <3>2. QED
      BY <2>2, <2>4, <3>1 DEF AtHand
  <2>7. Continues(f) <=> track # NoTrack /\ AtHand
    <3>1. Cameras # {}
      BY PerceptionAssumption
    <3>2. AtHand <=> Apart(f.place, track.place) <= AssociationDistance
      BY <2>2, <3>1 DEF AtHand
    <3>3. QED
      BY <3>2 DEF Continues
  <2>8. track'.confirmations = IF track # NoTrack /\ AtHand THEN Confirmed ELSE 1
    BY <2>3, <2>7 DEF Follow, ContinueTrack, StartTrack
  <2>9. QED
    BY <2>5, <2>6, <2>8
<1>2. TypeOK /\ [Next]_vars => [TickRun /\ InPlainSight => Confirms]_vars
  BY <1>1
<1>3. QED
  BY <1>2, TypeInit, TypeStep, PTL DEF Spec, PlainSightConfirms

=============================================================================
