------------------------------ MODULE Pipeline ------------------------------
(***************************************************************************)
(* What the perception node makes of one camera's frame: _run_camera of    *)
(* perception/node.py with the segmenter, the pipeline and the lifting of  *)
(* the facts to the target frame.  The publication timer takes one camera  *)
(* after the other; what they share is the segmenter, with its model that  *)
(* is loaded on first use and its status_warning, and the registry.        *)
(*                                                                         *)
(* The detector's answer is an input: the label, the score and the mask of *)
(* each instance.  A mask is the readings of its pixels (Geometry), so an  *)
(* object is seen along the optical axis.  Positions are doubled, as       *)
(* medians are halves, and in the target frame they are counted in units   *)
(* that make them integers; scores are in percent.  Left out are what PCA  *)
(* says of the shape, whose outcome is an input, the covariance            *)
(* (RotateBlock of Geometry turns its blocks) and the fields of a fact     *)
(* that repeat others.                                                     *)
(***************************************************************************)
EXTENDS Geometry, Sequences

CONSTANTS
  Labels,         \* the strings that name objects
  Lower,          \* Lower[l]: the label l in lower case
  Settings,       \* the parameters of the node, one of which is taken
  Frames,         \* the snapshots that the cameras may give
  ExternalCamera, \* external_camera_key
  MaxReading,     \* bound: the largest depth that a camera reads
  MaxPoints,      \* max_points of back_project_mask
  MinimumRadius   \* minimum_radius_m of robust_filter_points

NoName == ""

\* A setting.  objects and moreAliases are the registry: its objects with
\* their names and aliases, and its own list of aliases; noop is the choice of
\* the segmenter.  supports is a function from names to names; a maxDepth,
\* band or radius of 0 is none.
IsSetting(s) ==
  /\ s.objects \in Seq([name : Labels, aliases : SUBSET Labels])
  /\ s.moreAliases \in Seq([alias : Labels, name : Labels])
  /\ s.noop \in BOOLEAN
  /\ DOMAIN s.supports \subseteq Labels
  /\ \A n \in DOMAIN s.supports : s.supports[n] \in Labels
  /\ s.radius \in Nat /\ s.maxDepth \in Nat /\ s.band \in Nat
  /\ s.minPoints \in Nat \ {0}
  /\ s.threshold \in 0..100
  /\ s.calibrated \in BOOLEAN

\* An output of the detector.  own is a ghost: the pixels of the mask that
\* show the object.  shape is the confidence in the axes of its points.
IsOutput(o) ==
  /\ o.label \in Labels \cup {NoName}
  /\ o.score \in 0..100 /\ o.shape \in 1..100
  /\ IsFiniteSet(DOMAIN o.z) /\ DOMAIN o.z \subseteq Nat
  /\ \A p \in DOMAIN o.z : o.z[p] \in 0..MaxReading
  /\ o.own \subseteq DOMAIN o.z
  /\ o.axes \in Quaternions

\* A frame.  Its depth image is missing, or its intrinsics are, or its size is
\* not that of the mask and the intrinsics; it is never out of step with the
\* color image (RgbdSyncProofs, NeverDesynchronizedHolds).  A camera whose frame
\* is the target frame, which is not empty, needs no transform; tf holds the
\* transform that tf2 has, if any, with its rotation up to the length.
IsFrame(f) ==
  /\ f.rgb \in BOOLEAN
  /\ f.depth \in {"missing", "mismatched", "aligned"}
  /\ f.atTarget \in BOOLEAN
  /\ IsFiniteSet(f.tf) /\ Cardinality(f.tf) <= 1
  /\ \A t \in f.tf : t.rotation \in Quaternions /\ Norm2(t.rotation) # 0 /\ t.translation \in Vectors
  /\ f.outputs \in Seq({f.outputs[i] : i \in DOMAIN f.outputs})
  /\ \A i \in DOMAIN f.outputs : IsOutput(f.outputs[i])

ASSUME PipelineAssumption ==
  /\ NoName \notin Labels
  /\ Lower \in [Labels -> Labels]
  /\ \A s \in Settings : IsSetting(s)
  /\ \A f \in Frames : IsFrame(f)
  /\ MaxReading \in Nat
  /\ MaxPoints \in Nat \ {0}
  /\ MinimumRadius \in Nat

VARIABLES
  settings,  \* the parameters
  aliases,   \* RegistryMapper.aliases
  loaded,    \* the segmenter has its model
  status,    \* its status_warning, without the text of the error
  step,      \* "idle", "taken" when a frame is in hand, or "done"
  frame,     \* the frame
  looked,    \* ghost: the detector answered for this frame
  seen,      \* the detections, with what the pipeline finds of each
  facts,     \* result.facts
  warnings   \* the warnings of the camera, without their parameters

vars == <<settings, aliases, loaded, status, step, frame, looked, seen, facts, warnings>>

segmenter == <<settings, aliases, loaded, status>>

NoFrame ==
  [ camera |-> NoName, rgb |-> FALSE, depth |-> "missing", atTarget |-> TRUE, tf |-> {},
    outputs |-> <<>> ]

NoFacts == [n \in {} |-> NoName]

NothingSeen == [i \in {} |-> NoName]

-----------------------------------------------------------------------------
(* The registry.                                                           *)

Canonical == {settings.objects[i].name : i \in DOMAIN settings.objects}

LastOf(indexes) == CHOOSE i \in indexes : \A j \in indexes : j <= i

\* What the dictionary of aliases can hold for a key.  Canonical names come
\* last, in the order of a set, which is any; before them the entry that was
\* written last stays.
Meanings(key) ==
  LET spelled == {n \in Canonical : Lower[n] = key}
      more    == {i \in DOMAIN settings.moreAliases : Lower[settings.moreAliases[i].alias] = key}
      objects == {i \in DOMAIN settings.objects :
                   \E a \in settings.objects[i].aliases : Lower[a] = key}
  IN  IF spelled # {} THEN spelled
      ELSE IF more # {} THEN {settings.moreAliases[LastOf(more)].name}
      ELSE IF objects # {} THEN {settings.objects[LastOf(objects)].name}
      ELSE {NoName}

AliasTables ==
  {t \in [Labels -> Labels \cup {NoName}] : \A key \in Labels : t[key] \in Meanings(key)}

\* Mutant: an alias is taken for what it says, registered or not.
CanonicalizeAny(label) ==
  LET candidate == aliases[Lower[label]]
  IN  IF candidate # NoName THEN candidate
      ELSE IF Canonical = {} THEN label ELSE NoName

Canonicalize(label) ==
  LET candidate == aliases[Lower[label]]
  IN  IF candidate \in Canonical THEN candidate
      ELSE IF Canonical = {} THEN label ELSE NoName

\* The labels that the detector is asked for.
Asked == {key \in Labels : aliases[key] # NoName} \cup Canonical

-----------------------------------------------------------------------------
(* The pose of an instance.                                                *)

Sampled(o) == BackProjected(o.z, settings.maxDepth, settings.band, MaxPoints)

Points(o) == Filtered(Sampled(o), o.z, MinimumRadius)

HasPose(f, i) ==
  f.depth = "aligned" /\ Cardinality(Points(f.outputs[i])) >= settings.minPoints

\* The median of the points, in the frame of the camera.
Position(o) == [x |-> 0, y |-> 0, z |-> MedianTwice(Points(o), o.z)]

\* In units of 1 / (40000 * minPoints): more points than four times the
\* least number count no more.
Confidence(f, i) ==
  LET o == f.outputs[i]
      n == Cardinality(Points(o))
      most == 4 * settings.minPoints
  IN  IF HasPose(f, i) THEN o.score * (IF n < most THEN n ELSE most) * o.shape ELSE 0

PoseWarnings(f, i) ==
  IF f.depth = "missing" THEN {"insufficient_depth_or_camera_info"}
  ELSE IF f.depth = "mismatched" THEN {"back_projection_error"}
  ELSE IF HasPose(f, i) THEN {"orientation_estimated_pca"} ELSE {"insufficient_depth"}

InstanceFact(f, i) ==
  LET o == f.outputs[i]
  IN  [ present    |-> TRUE,
        status     |-> IF HasPose(f, i) THEN "DETECTED_WITH_POSE" ELSE "DETECTED_NO_POSE",
        pose       |-> IF HasPose(f, i)
                       THEN {[at |-> Position(o), axes |-> o.axes, unit |-> 1]} ELSE {},
        confidence |-> Confidence(f, i),
        centroid   |-> DOMAIN o.z # {},
        warnings   |-> PoseWarnings(f, i),
        instance   |-> i ]

\* instance is a ghost: the output that the fact is about.
MissingFact ==
  [ present |-> FALSE, status |-> "NOT_DETECTED", pose |-> {}, confidence |-> 0,
    centroid |-> FALSE, warnings |-> {"not_detected_in_frame"}, instance |-> 0 ]

Origin == [x |-> 0, y |-> 0, z |-> 0]

\* _Candidate.  One whose name is NoName is counted but has no fact; the place
\* of one without a pose is not used.
Candidate(f, i) ==
  [ name  |-> Canonicalize(f.outputs[i].label),
    score |-> f.outputs[i].score,
    place |-> IF HasPose(f, i) THEN Position(f.outputs[i]) ELSE Origin,
    fact  |-> InstanceFact(f, i) ]

-----------------------------------------------------------------------------
(* The instance of each object, among those shown: _resolve_candidates.    *)

Instances(shown, name) == {i \in DOMAIN shown : shown[i].name = name}

Names(shown) == {shown[i].name : i \in DOMAIN shown} \ {NoName}

Placed(candidate) == candidate.fact.pose # {}

\* The order of quality: a pose, then confidence, then the score.
Better(c, d) ==
  \/ Placed(c) /\ ~Placed(d)
  \/ /\ Placed(c) <=> Placed(d)
     /\ \/ c.fact.confidence > d.fact.confidence
        \/ c.fact.confidence = d.fact.confidence /\ c.score > d.score

\* The first of the best.
Preliminary(shown, name) ==
  CHOOSE i \in Instances(shown, name) :
    \A j \in Instances(shown, name) :
      ~Better(shown[j], shown[i]) /\ (j < i => Better(shown[i], shown[j]))

Located(shown, name) == {i \in Instances(shown, name) : Placed(shown[i])}

\* The instance of the support whose place counts, if it has one.
Support(shown, name) ==
  LET support == settings.supports[name]
  IN  {i \in Located(shown, support) : i = Preliminary(shown, support)}

\* The square of the doubled distance of two instances.
Between(shown, i, j) == Apart2(shown[i].place, shown[j].place)

\* Mutant: the instance that is farthest from the support.
NearestReversed(shown, name, support) ==
  CHOOSE i \in Located(shown, name) :
    \A j \in Located(shown, name) :
      /\ Between(shown, i, support) >= Between(shown, j, support)
      /\ j < i => Between(shown, i, support) > Between(shown, j, support)

\* The first of the nearest.
Nearest(shown, name, support) ==
  CHOOSE i \in Located(shown, name) :
    \A j \in Located(shown, name) :
      /\ Between(shown, i, support) <= Between(shown, j, support)
      /\ j < i => Between(shown, i, support) < Between(shown, j, support)

TooFar(shown, i, support) ==
  settings.radius > 0 /\ Between(shown, i, support) > 4 * settings.radius * settings.radius

\* The instance that is taken, and the warning that says why.
Picked(shown, name) ==
  LET first == Preliminary(shown, name)
  IN  IF name \notin DOMAIN settings.supports THEN [instance |-> first, why |-> {}]
      ELSE IF Support(shown, name) = {}
      THEN [instance |-> first, why |-> {"support_unavailable"}]
      ELSE LET support == Preliminary(shown, settings.supports[name])
               nearest == Nearest(shown, name, support)
           IN  IF Located(shown, name) = {} THEN [instance |-> first, why |-> {}]
               ELSE IF TooFar(shown, nearest, support)
               THEN [instance |-> first, why |-> {"no_instance_near_support"}]
               ELSE [instance |-> nearest, why |-> {"selected_near_support"}]

\* The fact about an object that is seen or registered.
PipelineFact(shown, name) ==
  IF name \in Names(shown)
  THEN LET pick == Picked(shown, name)
           many == IF \E i, j \in Instances(shown, name) : i # j
                   THEN {"ambiguous_multiple_instances"} ELSE {}
       IN  [shown[pick.instance].fact EXCEPT !.warnings = @ \cup pick.why \cup many]
  ELSE MissingFact

-----------------------------------------------------------------------------
(* The facts in the target frame.                                          *)

\* at is doubled and counted in units of 1 / unit; axes is up to the length.
Transformed(pose, t) ==
  LET unit == Norm2(t.rotation)
  IN  [ at   |-> Plus(Rotate(pose.at, t.rotation), Times(2 * unit, t.translation)),
        axes |-> Multiply(t.rotation, pose.axes),
        unit |-> unit ]

\* _lift_facts_to_target for one fact.
Lifted(f, fact) ==
  IF f.atTarget THEN fact
  ELSE IF f.tf = {}
  THEN [fact EXCEPT !.pose = {}, !.confidence = 0, !.warnings = @ \cup {"tf_unavailable"}]
  ELSE [fact EXCEPT !.pose = {Transformed(pose, t) : pose \in @, t \in f.tf}]

\* What _run_camera adds to it: only the external camera, which does not
\* move, tells where in the image an object is.
Stamped(f, fact) ==
  [fact EXCEPT
    !.centroid = @ /\ f.camera = ExternalCamera,
    !.warnings = @ \cup IF ~settings.calibrated /\ ~f.atTarget /\ f.tf # {}
                        THEN {"calibration_id_missing"} ELSE {}]

\* The facts of a frame, one for each object that is seen or registered.
Published(f, shown) ==
  [name \in Names(shown) \cup Canonical |->
    Stamped(f, Lifted(f, PipelineFact(shown, name)))]

-----------------------------------------------------------------------------
(* One frame of one camera.                                                *)

Init ==
  /\ settings \in Settings
  /\ aliases \in AliasTables
  /\ loaded = FALSE
  /\ status = ""
  /\ step = "idle"
  /\ frame = NoFrame
  /\ looked = FALSE
  /\ seen = NothingSeen
  /\ facts = NoFacts
  /\ warnings = {}

\* _publish_scene_facts comes to a camera, whose labels are among those that
\* the detector is asked for.
TakeFrame(f) ==
  /\ step = "idle"
  /\ \A i \in DOMAIN f.outputs : f.outputs[i].label \in Asked \cup {NoName}
  /\ step' = "taken"
  /\ frame' = f
  /\ UNCHANGED <<segmenter, looked, seen, facts, warnings>>

\* What _lift_facts_to_target says of the camera.
CameraWarnings == IF ~frame.atTarget /\ frame.tf = {} THEN {"tf_unavailable"} ELSE {}

\* A frame without a color image is not looked at.
RunWithoutImage ==
  /\ step = "taken" /\ ~frame.rgb
  /\ step' = "done"
  /\ facts' = NoFacts
  /\ warnings' = CameraWarnings \cup {"rgb_unavailable"}
  /\ looked' = FALSE
  /\ seen' = NothingSeen
  /\ UNCHANGED <<segmenter, frame>>

\* The rest of the run, when the segmenter has returned what is shown and left
\* its status_warning at what.
Observe(shown, what) ==
  /\ step' = "done"
  /\ seen' = shown
  /\ status' = what
  /\ facts' = Published(frame, seen')
  /\ warnings' = CameraWarnings
       \cup (IF \E i \in DOMAIN seen' : seen'[i].name = NoName THEN {"unknown_class"} ELSE {})
       \cup (IF DOMAIN seen' # {} THEN {}
             ELSE IF what # "" THEN {what} ELSE {"segmenter_no_detections"})
  /\ UNCHANGED <<settings, aliases, frame>>

CanRun == step = "taken" /\ frame.rgb

\* NoopSegmenter has no status_warning.
RunNoop ==
  /\ CanRun /\ settings.noop
  /\ looked' = FALSE
  /\ Observe(NothingSeen, status)
  /\ UNCHANGED loaded

RunWithoutLabels ==
  /\ CanRun /\ ~settings.noop /\ Asked = {}
  /\ looked' = FALSE
  /\ Observe(NothingSeen, "segmenter_no_registry_labels")
  /\ UNCHANGED loaded

\* transformers or the model cannot be loaded; the next frame tries again.
LoadFails ==
  /\ CanRun /\ ~settings.noop /\ Asked # {} /\ ~loaded
  /\ looked' = FALSE
  /\ Observe(NothingSeen, "segmenter_backend_unavailable")
  /\ UNCHANGED loaded

InferenceFails ==
  /\ CanRun /\ ~settings.noop /\ Asked # {}
  /\ loaded' = TRUE
  /\ looked' = FALSE
  /\ Observe(NothingSeen, "segmenter_inference_error")

\* The outputs that are instances.
Detections(f) ==
  {i \in DOMAIN f.outputs :
    f.outputs[i].label # NoName /\ f.outputs[i].score >= settings.threshold}

Candidates(f) == [i \in Detections(f) |-> Candidate(f, i)]

\* Mutant: the warning of an earlier frame stays.
DetectWithOldStatus ==
  /\ CanRun /\ ~settings.noop /\ Asked # {}
  /\ loaded' = TRUE
  /\ looked' = TRUE
  /\ Observe(Candidates(frame), status)

Detect ==
  /\ CanRun /\ ~settings.noop /\ Asked # {}
  /\ loaded' = TRUE
  /\ looked' = TRUE
  /\ Observe(Candidates(frame), "")

\* The facts go on to fusion.
HandOver ==
  /\ step = "done"
  /\ step' = "idle"
  /\ frame' = NoFrame
  /\ looked' = FALSE
  /\ seen' = NothingSeen
  /\ facts' = NoFacts
  /\ warnings' = {}
  /\ UNCHANGED segmenter

Run == RunWithoutImage \/ RunNoop \/ RunWithoutLabels \/ LoadFails \/ InferenceFails \/ Detect

Next == (\E f \in Frames : TakeFrame(f)) \/ Run \/ HandOver

Spec == Init /\ [][Next]_vars

=============================================================================
