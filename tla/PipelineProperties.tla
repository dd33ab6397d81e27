------------------------- MODULE PipelineProperties -------------------------
(***************************************************************************)
(* What the facts of one camera's frame must be.                           *)
(***************************************************************************)
EXTENDS Pipeline

Statuses == {"DETECTED_WITH_POSE", "DETECTED_NO_POSE", "NOT_DETECTED"}

Faults ==
  {"segmenter_no_registry_labels", "segmenter_backend_unavailable", "segmenter_inference_error"}

DepthReasons ==
  {"insufficient_depth_or_camera_info", "back_projection_error", "insufficient_depth"}

FactReasons ==
  DepthReasons \cup
    { "orientation_estimated_pca", "not_detected_in_frame", "support_unavailable",
      "no_instance_near_support", "selected_near_support", "ambiguous_multiple_instances",
      "tf_unavailable", "calibration_id_missing" }

\* In units of 1 / unit are the places of the target frame.
Units == IF frame.atTarget THEN {1} ELSE {Norm2(t.rotation) : t \in frame.tf}

IsFact(fact) ==
  /\ fact.present \in BOOLEAN
  /\ fact.status \in Statuses
  /\ fact.present <=> fact.status # "NOT_DETECTED"
  /\ \A pose \in fact.pose : pose.at \in Vectors /\ pose.axes \in Quaternions /\ pose.unit \in Units
  /\ fact.confidence \in Nat
  /\ fact.centroid \in BOOLEAN
  /\ fact.warnings \subseteq FactReasons
  /\ fact.present => fact.instance \in DOMAIN seen

\* Every fact is about a registered object, if any is registered, and a fact
\* on something seen is about one of the instances; nothing is kept between
\* two frames but the model and the status of the segmenter
\* (pipeline.py:155-293).
TypeOK ==
  /\ settings \in Settings
  /\ aliases \in AliasTables
  /\ loaded \in BOOLEAN
  /\ status \in {""} \cup Faults
  /\ step \in {"idle", "taken", "done"}
  /\ frame \in Frames \cup {NoFrame}
  /\ looked \in BOOLEAN
  /\ DOMAIN seen \subseteq DOMAIN frame.outputs
  /\ DOMAIN facts \subseteq IF Canonical = {} THEN Labels ELSE Canonical
  /\ \A n \in DOMAIN facts : IsFact(facts[n])
  /\ step # "done" => DOMAIN seen = {} /\ DOMAIN facts = {} /\ warnings = {} /\ ~looked

\* A place of the camera in the target frame, by the matrix of the transform.
InTarget(v) ==
  IF frame.atTarget THEN {v}
  ELSE {Plus(Apply(RotationMatrix(t.rotation), v), Times(2 * Norm2(t.rotation), t.translation)) :
          t \in frame.tf}

\* Fewer than a quarter of the readings that are used are not the object's.
MostlyOwn(o) == 4 * Cardinality(Sampled(o) \ o.own) < Cardinality(Sampled(o))

\* The depth band tells the object from what is behind it: the object is not
\* thicker than the band, everything else is farther behind it than the band,
\* and the object is more than a tenth of the mask.
BandFits(o) ==
  LET pixels == Reachable(o.z, settings.maxDepth)
      own    == o.own \cap pixels
  IN  /\ settings.band > 0
      /\ own # {}
      /\ 10 * (Cardinality(own) - 1) >= Cardinality(pixels) - 1
      /\ \A p, q \in own : o.z[p] - o.z[q] <= settings.band
      /\ \A p \in pixels \ own, q \in own : o.z[p] > o.z[q] + settings.band

\* A mask that caught some background does not move the object: with few
\* wrong readings, or with a band that fits, the published position lies
\* among the object's own readings, in the target frame (geometry.py:98-182
\* and 279-289, pipeline.py:196-214, node.py:436-470).
PoseInsideObject ==
  \A n \in DOMAIN facts : \A pose \in facts[n].pose :
    LET o == frame.outputs[facts[n].instance]
    IN  MostlyOwn(o) \/ BandFits(o) =>
          \E p, q \in o.own \cap Sampled(o) : \E d \in (2 * o.z[p])..(2 * o.z[q]) :
            pose.at \in InTarget([x |-> 0, y |-> 0, z |-> d])

\* The places of the instances of an object that have one.
Places(n) == UNION {InTarget(seen[i].place) : i \in Located(seen, n)}

\* The square of the radius, in the units of places in the target frame.
Radius2(unit) == (2 * settings.radius * unit) * (2 * settings.radius * unit)

\* Where a support is preferred, and is not an object with a support itself,
\* the published instance is the nearest one to the published support, in
\* the frame in which both are published, however the camera is mounted
\* there, unless all are out of the radius
\* (pipeline.py:147-149, 295-341).  For a chain of supports this fails: the
\* support's place is that of its preliminary instance.
SupportedInstanceIsNearest ==
  \A n \in DOMAIN facts \cap DOMAIN settings.supports :
    settings.supports[n] \in DOMAIN facts \ DOMAIN settings.supports =>
      \A pose \in facts[n].pose, support \in facts[settings.supports[n]].pose :
        \/ /\ settings.radius > 0
           /\ \A place \in Places(n) :
                Apart2(place, support.at) > Radius2(support.unit)
        \/ \A place \in Places(n) : Apart2(pose.at, support.at) <= Apart2(place, support.at)

\* Never a silent empty pose: a fact without a pose has no confidence and
\* says why, and what it says is so.  An object is reported missing only if
\* no instance of it was seen, and then either the detector did look at this
\* very frame or the segmenter's warning says that it could not; that warning
\* is never one of an earlier frame.  An object seen lacks a pose only if no
\* instance of it has one in the camera's frame, or the transform is missing
\* (README.md:298-302 and 506-507; pipeline.py:193-247, 264-291,
\* segmenters.py:127-156, node.py:482-491).
EmptyPoseIsExplained ==
  /\ \A n \in DOMAIN facts : facts[n].pose = {} =>
       /\ facts[n].confidence = 0
       /\ IF facts[n].present
          THEN \/ ~frame.atTarget /\ frame.tf = {} /\ "tf_unavailable" \in facts[n].warnings
               \/ /\ Located(seen, n) = {}
                  /\ facts[n].warnings \cap DepthReasons # {}
          ELSE /\ Instances(seen, n) = {}
               /\ settings.noop \/ looked \/ warnings \cap Faults # {}
  /\ warnings \cap Faults # {} => ~looked

=============================================================================
