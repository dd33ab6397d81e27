--------------------------- MODULE PipelineProofs ---------------------------
(***************************************************************************)
(* Proofs, for every registry, setting and frame, of the properties of     *)
(* PipelineProperties.                                                     *)
(***************************************************************************)
EXTENDS PipelineProperties, GeometryProofs

-----------------------------------------------------------------------------
(* Types.                                                                  *)

LEMMA OutputType ==
  ASSUME NEW f \in Frames, NEW i \in DOMAIN f.outputs
  PROVE  IsOutput(f.outputs[i]) /\ i \in Nat
<1>1. IsFrame(f)
  BY PipelineAssumption
<1>2. f.outputs \in Seq({f.outputs[j] : j \in DOMAIN f.outputs})
  BY <1>1 DEF IsFrame
<1>3. DOMAIN f.outputs = 1..Len(f.outputs) /\ Len(f.outputs) \in Nat
  BY <1>2
<1>4. QED
  BY <1>1, <1>3 DEF IsFrame

LEMMA SettingType ==
  ASSUME settings \in Settings
  PROVE  /\ settings.maxDepth \in Nat /\ settings.band \in Nat /\ settings.radius \in Nat
         /\ settings.minPoints \in Nat /\ settings.minPoints > 0
         /\ DOMAIN settings.supports \subseteq Labels
         /\ \A n \in DOMAIN settings.supports : settings.supports[n] \in Labels
BY PipelineAssumption DEF IsSetting

\* Thinning and gating keep pixels of the mask, whose readings are bounded.
LEMMA SampledType ==
  ASSUME settings \in Settings, NEW o, IsOutput(o)
  PROVE  /\ Reachable(o.z, settings.maxDepth) \subseteq DOMAIN o.z
         /\ Gated(o.z, settings.maxDepth, settings.band) \subseteq Reachable(o.z, settings.maxDepth)
         /\ Sampled(o) \subseteq Gated(o.z, settings.maxDepth, settings.band)
         /\ Readings(Reachable(o.z, settings.maxDepth), o.z, MaxReading)
         /\ Readings(Sampled(o), o.z, MaxReading)
<1>1. Reachable(o.z, settings.maxDepth) \subseteq DOMAIN o.z
  BY DEF Reachable, Valid
<1>2. Gated(o.z, settings.maxDepth, settings.band) \subseteq Reachable(o.z, settings.maxDepth)
  BY DEF Gated
<1>3. Sampled(o) \subseteq Gated(o.z, settings.maxDepth, settings.band)
  BY DEF Sampled, BackProjected, Thinned
<1>4. IsFiniteSet(DOMAIN o.z) /\ \A p \in DOMAIN o.z : o.z[p] \in 0..MaxReading
  BY DEF IsOutput
<1>5. IsFiniteSet(Reachable(o.z, settings.maxDepth)) /\ IsFiniteSet(Sampled(o))
  BY <1>1, <1>2, <1>3, <1>4, FS_Subset
<1>6. QED
  BY <1>1, <1>2, <1>3, <1>4, <1>5 DEF Readings

LEMMA PointsType ==
  ASSUME settings \in Settings, NEW o, IsOutput(o)
  PROVE  /\ Points(o) \subseteq Sampled(o)
         /\ Readings(Points(o), o.z, MaxReading)
         /\ Cardinality(Points(o)) \in Nat
         /\ Cardinality(Points(o)) > 0 => Points(o) # {} /\ Position(o) \in Vectors
<1>1. Readings(Sampled(o), o.z, MaxReading) /\ MaxReading \in Nat /\ MinimumRadius \in Nat
  BY SampledType, PipelineAssumption
<1>2. Points(o) \subseteq Sampled(o)
  BY <1>1, FilterKeepsHalf DEF Points
<1>3. Readings(Points(o), o.z, MaxReading)
  BY <1>1, <1>2, FS_Subset DEF Readings
<1>4. Cardinality(Points(o)) \in Nat
  BY <1>3, FS_CardinalityType DEF Readings
<1>5. Cardinality(Points(o)) > 0 => Points(o) # {}
  BY FS_EmptySet
<1>6. Points(o) # {} => MedianTwice(Points(o), o.z) \in 0..(2 * MaxReading)
  BY <1>1, <1>3, MedianType
<1>7. QED
  BY <1>1, <1>2, <1>3, <1>4, <1>5, <1>6 DEF Position, Vectors

\* The place of an instance with a pose, and the confidence in any.
LEMMA InstanceType ==
  ASSUME settings \in Settings, NEW f \in Frames, NEW i \in DOMAIN f.outputs
  PROVE  /\ Confidence(f, i) \in Nat
         /\ HasPose(f, i) => /\ Position(f.outputs[i]) \in Vectors
                             /\ Points(f.outputs[i]) # {}
                             /\ f.depth = "aligned"
         /\ f.outputs[i].score \in 0..100 /\ f.outputs[i].axes \in Quaternions
<1> DEFINE o == f.outputs[i]
           n == Cardinality(Points(o))
<1>1. IsOutput(o) /\ o.score \in 0..100 /\ o.shape \in 1..100 /\ o.axes \in Quaternions
  BY OutputType DEF IsOutput
<1>2. n \in Nat /\ (n > 0 => Points(o) # {} /\ Position(o) \in Vectors)
  BY <1>1, PointsType
<1>3. settings.minPoints \in Nat /\ settings.minPoints > 0
  BY SettingType
<1>4. (IF n < 4 * settings.minPoints THEN n ELSE 4 * settings.minPoints) \in Nat
  BY <1>2, <1>3
<1>5. \A a \in Nat, b \in Nat, c \in Nat : a * b * c \in Nat
  OBVIOUS
<1>6. Confidence(f, i) \in Nat
  <2>1. o.score \in Nat /\ o.shape \in Nat
    BY <1>1
  <2>2. o.score * (IF n < 4 * settings.minPoints THEN n ELSE 4 * settings.minPoints) * o.shape \in Nat
    BY <1>4, <1>5, <2>1
  <2>3. QED
    BY <2>2 DEF Confidence
<1>7. HasPose(f, i) => n > 0 /\ f.depth = "aligned"
  BY <1>2, <1>3 DEF HasPose
<1>8. QED
  BY <1>1, <1>2, <1>6, <1>7

-----------------------------------------------------------------------------
(* The instance that is taken.                                             *)

\* A least value of a function on a set is attained.
LEMMA LeastOn ==
  ASSUME NEW T, T # {}, NEW g \in [T -> Nat]
  PROVE  \E i \in T : \A j \in T : g[i] <= g[j]
<1>1. PICK v \in {g[i] : i \in T} : \A w \in {g[i] : i \in T} : v <= w
  BY LeastNatural
<1>2. QED
  BY <1>1

\* i has the least g, among these the least h, then k, and is the first.
IsFirst(T, g, h, k, i) ==
  \A j \in T :
    /\ g[i] <= g[j]
    /\ g[i] = g[j] => h[i] <= h[j]
    /\ g[i] = g[j] /\ h[i] = h[j] => k[i] <= k[j]
    /\ g[i] = g[j] /\ h[i] = h[j] /\ k[i] = k[j] => i <= j

LEMMA FirstBest ==
  ASSUME NEW T, T \subseteq Nat, T # {},
         NEW g \in [T -> Nat], NEW h \in [T -> Nat], NEW k \in [T -> Nat]
  PROVE  \E i \in T : IsFirst(T, g, h, k, i)
<1>1. PICK a \in T : \A j \in T : g[a] <= g[j]
  BY LeastOn
<1> DEFINE A == {i \in T : g[i] = g[a]}
<1>2. PICK b \in A : \A j \in A : h[b] <= h[j]
  <2>1. A # {} /\ [i \in A |-> h[i]] \in [A -> Nat]
    BY <1>1
  <2> HIDE DEF A
  <2>2. \E b \in A : \A j \in A : [i \in A |-> h[i]][b] <= [i \in A |-> h[i]][j]
    BY <2>1, LeastOn
  <2>3. QED
    BY <2>2
<1> DEFINE B == {i \in A : h[i] = h[b]}
<1>3. PICK c \in B : \A j \in B : k[c] <= k[j]
  <2>1. B # {} /\ [i \in B |-> k[i]] \in [B -> Nat]
    BY <1>2
  <2> HIDE DEF B
  <2>2. \E c \in B : \A j \in B : [i \in B |-> k[i]][c] <= [i \in B |-> k[i]][j]
    BY <2>1, LeastOn
  <2>3. QED
    BY <2>2
<1> DEFINE C == {i \in B : k[i] = k[c]}
<1>4. PICK d \in C : \A j \in C : d <= j
  <2>1. C # {} /\ C \subseteq Nat
    BY <1>3
  <2> HIDE DEF C
  <2>2. QED
    BY <2>1, LeastNatural
<1>5. d \in T /\ g[d] = g[a] /\ h[d] = h[b] /\ k[d] = k[c]
  BY <1>4
<1>6. ASSUME NEW j \in T
      PROVE  /\ g[d] <= g[j]
             /\ g[d] = g[j] => h[d] <= h[j]
             /\ g[d] = g[j] /\ h[d] = h[j] => k[d] <= k[j]
             /\ g[d] = g[j] /\ h[d] = h[j] /\ k[d] = k[j] => d <= j
  BY <1>1, <1>2, <1>3, <1>4, <1>5
<1>7. QED
  BY <1>5, <1>6 DEF IsFirst

\* What is shown of a frame is what the pipeline finds of some of its detections.
Sees(f, shown) ==
  /\ DOMAIN shown \subseteq Detections(f)
  /\ \A i \in DOMAIN shown : shown[i] = Candidate(f, i)

Best == 40000 * settings.minPoints

LEMMA ConfidenceBound ==
  ASSUME settings \in Settings, NEW f \in Frames, NEW i \in DOMAIN f.outputs
  PROVE  Confidence(f, i) \in 0..Best /\ Best \in Nat
<1>1. IsOutput(f.outputs[i]) /\ settings.minPoints \in Nat /\ settings.minPoints > 0
  BY OutputType, SettingType
<1>2. PICK s \in 0..100, h \in 1..100 : s = f.outputs[i].score /\ h = f.outputs[i].shape
  BY <1>1 DEF IsOutput
<1>3. PICK n \in Nat : n = IF Cardinality(Points(f.outputs[i])) < 4 * settings.minPoints
                           THEN Cardinality(Points(f.outputs[i])) ELSE 4 * settings.minPoints
  BY <1>1, PointsType
<1>4. n <= 4 * settings.minPoints
  BY <1>1, <1>3, PointsType
<1>5. s * n * h <= 40000 * settings.minPoints
  <2>1. s * n <= 100 * n /\ s * n \in Nat
    BY <1>2, <1>3
  <2>2. \A a \in Nat, b \in 1..100 : a * b <= a * 100
    OBVIOUS
  <2>3. s * n * h <= s * n * 100
    BY <1>2, <2>1, <2>2
  <2>4. QED
    BY <1>1, <1>2, <1>3, <1>4, <2>1, <2>3
<1>6. Confidence(f, i) = IF HasPose(f, i) THEN s * n * h ELSE 0
  BY <1>2, <1>3 DEF Confidence
<1>7. Confidence(f, i) \in Nat
  BY InstanceType
<1>8. QED
  BY <1>1, <1>2, <1>5, <1>6, <1>7 DEF Best

LEMMA CandidateType ==
  ASSUME settings \in Settings, NEW f \in Frames, NEW shown, Sees(f, shown), NEW i \in DOMAIN shown
  PROVE  LET c == shown[i]
         IN  /\ i \in DOMAIN f.outputs /\ i \in Nat
             /\ c.name = Canonicalize(f.outputs[i].label)
             /\ c.score \in 0..100
             /\ c.fact = InstanceFact(f, i) /\ c.fact.confidence = Confidence(f, i)
             /\ c.fact.confidence \in 0..Best
             /\ Placed(c) <=> HasPose(f, i)
             /\ HasPose(f, i) => c.place = Position(f.outputs[i]) /\ c.place \in Vectors
<1>1. i \in DOMAIN f.outputs /\ i \in Nat /\ shown[i] = Candidate(f, i)
  BY OutputType DEF Sees, Detections
<1>2. /\ Confidence(f, i) \in 0..Best /\ f.outputs[i].score \in 0..100
      /\ HasPose(f, i) => Position(f.outputs[i]) \in Vectors
  BY <1>1, ConfidenceBound, InstanceType
<1>3. LET c == Candidate(f, i)
      IN  /\ c.name = Canonicalize(f.outputs[i].label) /\ c.score = f.outputs[i].score
          /\ c.fact = InstanceFact(f, i)
          /\ c.place = IF HasPose(f, i) THEN Position(f.outputs[i]) ELSE Origin
  BY DEF Candidate
<1>4. /\ InstanceFact(f, i).confidence = Confidence(f, i)
      /\ InstanceFact(f, i).pose # {} <=> HasPose(f, i)
  BY DEF InstanceFact
<1>5. QED
  BY <1>1, <1>2, <1>3, <1>4 DEF Placed

LEMMA PreliminaryExists ==
  ASSUME settings \in Settings, NEW f \in Frames, NEW shown, Sees(f, shown),
         NEW name, Instances(shown, name) # {}
  PROVE  LET first == Preliminary(shown, name)
         IN  /\ first \in Instances(shown, name)
             /\ \A j \in Instances(shown, name) : ~Better(shown[j], shown[first])
<1> DEFINE T == Instances(shown, name)
           g == [i \in T |-> IF Placed(shown[i]) THEN 0 ELSE 1]
           h == [i \in T |-> Best - shown[i].fact.confidence]
           k == [i \in T |-> 100 - shown[i].score]
<1>0. T \subseteq DOMAIN shown /\ T # {}
  BY DEF Instances
<1>1. \A i \in T : shown[i].fact.confidence \in 0..Best /\ shown[i].score \in 0..100 /\ i \in Nat
  BY <1>0, CandidateType
<1>2. Best \in Nat
  BY SettingType DEF Best
<1>3. g \in [T -> Nat] /\ h \in [T -> Nat] /\ k \in [T -> Nat]
  <2> HIDE DEF T
  <2>1. QED
    BY <1>1, <1>2
<1>4. \A i \in T : /\ g[i] = IF Placed(shown[i]) THEN 0 ELSE 1
                   /\ h[i] = Best - shown[i].fact.confidence /\ k[i] = 100 - shown[i].score
  OBVIOUS
<1>5. PICK i \in T : IsFirst(T, g, h, k, i)
  <2>1. T \subseteq Nat /\ T # {}
    BY <1>0, <1>1
  <2> HIDE DEF T, g, h, k
  <2>2. QED
    BY <1>3, <2>1, FirstBest
<1>6. ASSUME NEW j \in T PROVE ~Better(shown[j], shown[i]) /\ (j < i => Better(shown[i], shown[j]))
  <2>1. /\ shown[i].fact.confidence \in Nat /\ shown[j].fact.confidence \in Nat /\ Best \in Nat
        /\ shown[i].score \in Nat /\ shown[j].score \in Nat /\ i \in Nat /\ j \in Nat
    BY <1>1, <1>2
  <2>2. /\ g[i] <= g[j]
        /\ g[i] = g[j] => h[i] <= h[j]
        /\ g[i] = g[j] /\ h[i] = h[j] => k[i] <= k[j]
        /\ g[i] = g[j] /\ h[i] = h[j] /\ k[i] = k[j] => i <= j
    BY <1>5 DEF IsFirst
  <2>3. /\ g[i] = (IF Placed(shown[i]) THEN 0 ELSE 1) /\ g[j] = (IF Placed(shown[j]) THEN 0 ELSE 1)
        /\ h[i] = Best - shown[i].fact.confidence /\ h[j] = Best - shown[j].fact.confidence
        /\ k[i] = 100 - shown[i].score /\ k[j] = 100 - shown[j].score
    BY <1>4
  <2> HIDE DEF g, h, k, T
  <2>4. QED
    BY <2>1, <2>2, <2>3 DEF Better
<1>7. QED
  BY <1>5, <1>6 DEF Preliminary

LEMMA ApartType ==
  ASSUME NEW u \in Vectors, NEW v \in Vectors
  PROVE  Apart2(u, v) \in Nat
<1>1. \A a \in Int : a * a \in Nat
  OBVIOUS
<1>2. /\ u.x - v.x \in Int /\ u.y - v.y \in Int /\ u.z - v.z \in Int
  BY VectorParts
<1>3. Apart2(u, v) = (u.x - v.x) * (u.x - v.x) + (u.y - v.y) * (u.y - v.y) + (u.z - v.z) * (u.z - v.z)
  BY DEF Apart2, Dot, Minus
<1>4. \A a, b, c \in Nat : a + b + c \in Nat
  OBVIOUS
<1>5. QED
  BY <1>1, <1>2, <1>3, <1>4

LEMMA NearestExists ==
  ASSUME settings \in Settings, NEW f \in Frames, NEW shown, Sees(f, shown),
         NEW name, Located(shown, name) # {},
         NEW support \in DOMAIN shown, Placed(shown[support])
  PROVE  LET nearest == Nearest(shown, name, support)
         IN  /\ nearest \in Located(shown, name)
             /\ \A j \in Located(shown, name) :
                  Between(shown, nearest, support) <= Between(shown, j, support)
<1> DEFINE T == Located(shown, name)
<1>0. /\ T \subseteq DOMAIN shown /\ T # {} /\ \A i \in T : Placed(shown[i])
  BY DEF Located, Instances
<1>1. \A i \in T : Between(shown, i, support) \in Nat /\ i \in Nat
  BY <1>0, CandidateType, ApartType DEF Between
<1> DEFINE g == [i \in T |-> Between(shown, i, support)]
           k == [i \in T |-> 0]
<1>2. g \in [T -> Nat] /\ k \in [T -> Nat] /\ \A i \in T : g[i] = Between(shown, i, support) /\ k[i] = 0
  BY <1>1
<1>3. PICK i \in T : \A j \in T : g[i] <= g[j] /\ (g[i] = g[j] => i <= j)
  <2>0. T \subseteq Nat /\ T # {}
    BY <1>0, <1>1
  <2> HIDE DEF T, g, k
  <2>1. \E i \in T : IsFirst(T, g, k, k, i)
    BY <1>2, <2>0, FirstBest
  <2>2. QED
    BY <1>2, <2>1 DEF IsFirst
<1>4. ASSUME NEW j \in T
      PROVE  /\ Between(shown, i, support) <= Between(shown, j, support)
             /\ j < i => Between(shown, i, support) < Between(shown, j, support)
  <2>1. g[i] <= g[j] /\ (g[i] = g[j] => i <= j)
    BY <1>3
  <2>2. /\ g[i] = Between(shown, i, support) /\ g[j] = Between(shown, j, support)
        /\ g[i] \in Nat /\ g[j] \in Nat /\ i \in Nat /\ j \in Nat
    BY <1>1, <1>2
  <2> HIDE DEF g, T
  <2>3. QED
    BY <2>1, <2>2
<1>5. QED
  BY <1>3, <1>4 DEF Nearest

\* What the instance that is taken is, whatever the supports.
LEMMA PickedType ==
  ASSUME settings \in Settings, NEW f \in Frames, NEW shown, Sees(f, shown),
         NEW name \in Names(shown)
  PROVE  LET pick == Picked(shown, name)
         IN  /\ pick.instance \in Instances(shown, name)
             /\ Placed(shown[pick.instance]) \/ Located(shown, name) = {}
             /\ pick.why \subseteq {"support_unavailable", "no_instance_near_support", "selected_near_support"}
<1> DEFINE first == Preliminary(shown, name)
<1>1. Instances(shown, name) # {}
  BY DEF Names, Instances
<1>2. first \in Instances(shown, name) /\ \A j \in Instances(shown, name) : ~Better(shown[j], shown[first])
  BY <1>1, PreliminaryExists
<1>3. Placed(shown[first]) \/ Located(shown, name) = {}
  BY <1>2 DEF Better, Located
<1>4. CASE name \notin DOMAIN settings.supports
  BY <1>2, <1>3, <1>4 DEF Picked
<1>5. CASE name \in DOMAIN settings.supports /\ Support(shown, name) = {}
  BY <1>2, <1>3, <1>5 DEF Picked
<1>6. CASE name \in DOMAIN settings.supports /\ Support(shown, name) # {}
  <2> DEFINE support == Preliminary(shown, settings.supports[name])
             nearest == Nearest(shown, name, support)
  <2>1. support \in DOMAIN shown /\ Placed(shown[support])
    BY <1>6 DEF Support, Located, Instances
  <2>2. CASE Located(shown, name) = {}
    BY <1>2, <1>6, <2>2 DEF Picked
  <2>3. CASE Located(shown, name) # {}
    <3>1. nearest \in Located(shown, name)
      BY <2>1, <2>3, NearestExists
    <3>2. nearest \in Instances(shown, name) /\ Placed(shown[nearest])
      BY <3>1 DEF Located
    <3>3. Picked(shown, name) =
            IF TooFar(shown, nearest, support)
            THEN [instance |-> first, why |-> {"no_instance_near_support"}]
            ELSE [instance |-> nearest, why |-> {"selected_near_support"}]
      BY <1>6, <2>3 DEF Picked
    <3> HIDE DEF first, nearest, support
    <3>4. QED
      BY <1>2, <1>3, <3>2, <3>3
  <2>4. QED
    BY <2>2, <2>3
<1>7. QED
  BY <1>4, <1>5, <1>6

-----------------------------------------------------------------------------
(* The published facts.                                                    *)

Missed(f) == ~f.atTarget /\ f.tf = {}

LiftedPoses(f, poses) ==
  IF f.atTarget THEN poses
  ELSE IF f.tf = {} THEN {} ELSE {Transformed(pose, t) : pose \in poses, t \in f.tf}

LEMMA LiftedFields ==
  ASSUME NEW f, NEW present, NEW stat, NEW poses, NEW confidence, NEW centroid, NEW why, NEW i
  PROVE  LET fact == [ present |-> present, status |-> stat, pose |-> poses,
                       confidence |-> confidence, centroid |-> centroid,
                       warnings |-> why, instance |-> i ]
             out  == Stamped(f, Lifted(f, fact))
         IN  /\ out.present = present /\ out.status = stat /\ out.instance = i
             /\ out.pose = LiftedPoses(f, poses)
             /\ out.confidence = IF Missed(f) THEN 0 ELSE confidence
             /\ out.centroid = (centroid /\ f.camera = ExternalCamera)
             /\ why \subseteq out.warnings
             /\ out.warnings \subseteq why \cup {"tf_unavailable", "calibration_id_missing"}
             /\ Missed(f) => "tf_unavailable" \in out.warnings
<1> DEFINE fact == [ present |-> present, status |-> stat, pose |-> poses,
                     confidence |-> confidence, centroid |-> centroid,
                     warnings |-> why, instance |-> i ]
<1>1. CASE f.atTarget
  BY <1>1 DEF Lifted, Stamped, LiftedPoses, Missed
<1>2. CASE Missed(f)
  BY <1>2 DEF Lifted, Stamped, LiftedPoses, Missed
<1>3. CASE ~f.atTarget /\ f.tf # {}
  BY <1>3 DEF Lifted, Stamped, LiftedPoses, Missed
<1>4. QED
  BY <1>1, <1>2, <1>3 DEF Missed

LEMMA SeenFact ==
  ASSUME settings \in Settings, NEW f \in Frames, NEW shown, Sees(f, shown),
         NEW name \in Names(shown)
  PROVE  LET fact == Published(f, shown)[name]
             i    == Picked(shown, name).instance
             o    == f.outputs[i]
         IN  /\ fact.present = TRUE /\ fact.instance = i
             /\ fact.status = IF HasPose(f, i) THEN "DETECTED_WITH_POSE" ELSE "DETECTED_NO_POSE"
             /\ fact.pose = LiftedPoses(f, IF HasPose(f, i)
                              THEN {[at |-> Position(o), axes |-> o.axes, unit |-> 1]} ELSE {})
             /\ fact.confidence = IF Missed(f) THEN 0 ELSE Confidence(f, i)
             /\ fact.centroid \in BOOLEAN
             /\ PoseWarnings(f, i) \subseteq fact.warnings /\ fact.warnings \subseteq FactReasons
             /\ Missed(f) => "tf_unavailable" \in fact.warnings
<1> DEFINE i == Picked(shown, name).instance
           o == f.outputs[i]
           many == IF \E j, k \in Instances(shown, name) : j # k
                   THEN {"ambiguous_multiple_instances"} ELSE {}
           poses == IF HasPose(f, i)
                    THEN {[at |-> Position(o), axes |-> o.axes, unit |-> 1]} ELSE {}
           why == PoseWarnings(f, i) \cup Picked(shown, name).why \cup many
           stat == IF HasPose(f, i) THEN "DETECTED_WITH_POSE" ELSE "DETECTED_NO_POSE"
           centroid == DOMAIN o.z # {}
           fact == [ present |-> TRUE, status |-> stat, pose |-> poses,
                     confidence |-> Confidence(f, i), centroid |-> centroid,
                     warnings |-> why, instance |-> i ]
<1>1. Published(f, shown)[name] = Stamped(f, Lifted(f, PipelineFact(shown, name)))
  BY DEF Published
<1>2. PipelineFact(shown, name) = fact
  <2>1. i \in DOMAIN shown
    BY PickedType DEF Instances
  <2>2. shown[i].fact = InstanceFact(f, i)
    BY <2>1, CandidateType
  <2>3. InstanceFact(f, i) =
          [ present |-> TRUE, status |-> stat, pose |-> poses,
            confidence |-> Confidence(f, i), centroid |-> centroid,
            warnings |-> PoseWarnings(f, i), instance |-> i ]
    BY DEF InstanceFact
  <2>4. PipelineFact(shown, name) =
          [shown[i].fact EXCEPT !.warnings = @ \cup Picked(shown, name).why \cup many]
    BY DEF PipelineFact
  <2> HIDE DEF i, o, many, poses, stat, centroid
  <2>5. PipelineFact(shown, name) =
          [ [ present |-> TRUE, status |-> stat, pose |-> poses,
              confidence |-> Confidence(f, i), centroid |-> centroid,
              warnings |-> PoseWarnings(f, i), instance |-> i ]
            EXCEPT !.warnings = @ \cup Picked(shown, name).why \cup many ]
    BY <2>2, <2>3, <2>4, Zenon
  <2>6. QED
    BY <2>5
<1>3. why \subseteq FactReasons \ {"tf_unavailable", "calibration_id_missing"}
  <2>1. PoseWarnings(f, i) \subseteq DepthReasons \cup {"orientation_estimated_pca"}
    BY DEF PoseWarnings, DepthReasons
  <2>2. Picked(shown, name).why
          \subseteq {"support_unavailable", "no_instance_near_support", "selected_near_support"}
    BY PickedType
  <2>3. many \subseteq {"ambiguous_multiple_instances"}
    OBVIOUS
  <2> HIDE DEF i, many
  <2>4. QED
    BY <2>1, <2>2, <2>3 DEF FactReasons, DepthReasons
<1>4. PoseWarnings(f, i) \subseteq why
  OBVIOUS
<1> HIDE DEF i, o, many, poses, why, stat, centroid
<1>5. LET out == Stamped(f, Lifted(f, fact))
      IN  /\ out.present = TRUE /\ out.status = stat /\ out.instance = i
          /\ out.pose = LiftedPoses(f, poses)
          /\ out.confidence = IF Missed(f) THEN 0 ELSE Confidence(f, i)
          /\ out.centroid = (centroid /\ f.camera = ExternalCamera)
          /\ why \subseteq out.warnings
          /\ out.warnings \subseteq why \cup {"tf_unavailable", "calibration_id_missing"}
          /\ Missed(f) => "tf_unavailable" \in out.warnings
  BY LiftedFields
<1>6. "tf_unavailable" \in FactReasons /\ "calibration_id_missing" \in FactReasons
  BY DEF FactReasons
<1> HIDE DEF fact
<1>7. LET out == Published(f, shown)[name]
      IN  /\ out.present = TRUE /\ out.status = stat /\ out.instance = i
          /\ out.pose = LiftedPoses(f, poses)
          /\ out.confidence = IF Missed(f) THEN 0 ELSE Confidence(f, i)
          /\ out.centroid \in BOOLEAN
          /\ PoseWarnings(f, i) \subseteq out.warnings /\ out.warnings \subseteq FactReasons
          /\ Missed(f) => "tf_unavailable" \in out.warnings
  <2>1. (centroid /\ f.camera = ExternalCamera) \in BOOLEAN
    BY Zenon
  <2>2. QED
    BY <1>1, <1>2, <1>3, <1>4, <1>5, <1>6, <2>1
<1>8. QED
  BY <1>7 DEF i, o, poses, stat

LEMMA UnseenFact ==
  ASSUME NEW f, NEW shown, NEW name \in Canonical \ Names(shown)
  PROVE  LET fact == Published(f, shown)[name]
         IN  /\ fact.present = FALSE /\ fact.status = "NOT_DETECTED"
             /\ fact.pose = {} /\ fact.confidence = 0 /\ fact.centroid \in BOOLEAN
             /\ fact.warnings \subseteq FactReasons
<1>1. Published(f, shown)[name] = Stamped(f, Lifted(f, MissingFact))
  BY DEF Published, PipelineFact
<1>2. LET out == Stamped(f, Lifted(f, MissingFact))
      IN  /\ out.present = FALSE /\ out.status = "NOT_DETECTED"
          /\ out.pose = LiftedPoses(f, {})
          /\ out.confidence = IF Missed(f) THEN 0 ELSE 0
          /\ out.centroid = (FALSE /\ f.camera = ExternalCamera)
          /\ out.warnings \subseteq {"not_detected_in_frame"} \cup {"tf_unavailable", "calibration_id_missing"}
  BY LiftedFields DEF MissingFact
<1>3. LiftedPoses(f, {}) = {}
  BY DEF LiftedPoses
<1>4. QED
  BY <1>1, <1>2, <1>3 DEF FactReasons

-----------------------------------------------------------------------------
(* The settings and the aliases never change, and what depends on them     *)
(* alone does not either.                                                  *)

Same == settings' = settings /\ aliases' = aliases

LEMMA SameCandidate ==
  ASSUME Same, NEW f, NEW i
  PROVE  Candidate(f, i)' = Candidate(f, i)
<1>1. HasPose(f, i)' = HasPose(f, i)
  BY SMT DEF Same, HasPose, Points, Sampled
<1>2. Points(f.outputs[i])' = Points(f.outputs[i])
  BY SMT DEF Same, Points, Sampled
<1>3. Confidence(f, i)' = Confidence(f, i)
  BY <1>1, <1>2, SMT DEF Confidence, Same
<1>4. Position(f.outputs[i])' = Position(f.outputs[i])
  BY <1>2, SMT DEF Position
<1>5. PoseWarnings(f, i)' = PoseWarnings(f, i)
  BY <1>1, SMT DEF PoseWarnings
<1>6. InstanceFact(f, i)' = InstanceFact(f, i)
  BY <1>1, <1>3, <1>4, <1>5, SMT DEF InstanceFact
<1>7. Canonicalize(f.outputs[i].label)' = Canonicalize(f.outputs[i].label)
  BY DEF Same, Canonicalize, Canonical
<1>8. QED
  BY <1>1, <1>4, <1>6, <1>7 DEF Candidate

LEMMA SamePublished ==
  ASSUME Same, NEW f, NEW shown
  PROVE Published(f, shown)' = Published(f, shown)
<1>1. ASSUME NEW name
      PROVE PipelineFact(shown, name)' = PipelineFact(shown, name)
  <2>1. Picked(shown, name)' = Picked(shown, name)
    BY DEF Same, Picked, Support, TooFar
  <2>2. QED
    BY <2>1 DEF PipelineFact
<1>2. ASSUME NEW fact
      PROVE Stamped(f, Lifted(f, fact))' = Stamped(f, Lifted(f, fact))
  BY DEF Stamped, Lifted, Same
<1>3. Canonical' = Canonical
  BY DEF Canonical, Same
<1>4. QED
  BY <1>1, <1>2, <1>3 DEF Published

LEMMA SameSees ==
  ASSUME Same, NEW f, NEW shown
  PROVE  Sees(f, shown)' = Sees(f, shown)
<1>1. Detections(f)' = Detections(f)
  BY DEF Same, Detections
<1>2. QED
  BY <1>1, SameCandidate DEF Sees

LEMMA SameRegistry ==
  ASSUME Same
  PROVE  AliasTables' = AliasTables
BY DEF Same, AliasTables, Meanings, Canonical

-----------------------------------------------------------------------------
(* The inductive invariant: the facts are those that the frame and what was *)
(* seen in it give.                                                         *)

Inv ==
  /\ settings \in Settings /\ aliases \in AliasTables
  /\ loaded \in BOOLEAN /\ looked \in BOOLEAN /\ status \in {""} \cup Faults
  /\ step \in {"idle", "taken", "done"}
  /\ step = "idle" => frame = NoFrame
  /\ step # "idle" => frame \in Frames
  /\ step # "done" => seen = NothingSeen /\ facts = NoFacts /\ warnings = {} /\ ~looked
  /\ Sees(frame, seen)
  /\ warnings \cap Faults # {} => ~looked
  /\ \/ facts = NoFacts
     \/ /\ step = "done" /\ facts = Published(frame, seen)
        /\ settings.noop \/ looked \/ warnings \cap Faults # {}

LEMMA SeesNothing ==
  ASSUME NEW f
  PROVE  Sees(f, NothingSeen)
BY DEF Sees, NothingSeen

LEMMA SeesNothingNext ==
  ASSUME seen' = NothingSeen
  PROVE  Sees(frame, seen)'
BY DEF Sees, NothingSeen

LEMMA InvInit == Init => Inv
BY SeesNothing DEF Init, Inv, NoFacts

LEMMA ObserveStep ==
  ASSUME Inv, step = "taken", NEW shown, Sees(frame, shown), NEW what \in {""} \cup Faults,
         looked' \in BOOLEAN, loaded' \in BOOLEAN, Observe(shown, what),
         looked' => what = "",
         settings.noop \/ looked' \/ (shown = NothingSeen /\ what \in Faults)
  PROVE  Inv'
<1>1. Same /\ frame' = frame /\ frame \in Frames
  BY DEF Observe, Same, Inv
<1>2. /\ step' = "done" /\ seen' = shown /\ status' = what
      /\ facts' = Published(frame, seen')
  BY DEF Observe
<1>3. facts' = Published(frame, seen)' /\ Sees(frame, seen)'
  <2>1. PICK f, now : f = frame /\ now = shown
    OBVIOUS
  <2>2. Published(f, now)' = Published(f, now) /\ Sees(f, now)' = Sees(f, now)
    BY <1>1, SamePublished, SameSees
  <2>3. f = frame' /\ now = seen'
    BY <1>1, <1>2, <2>1
  <2>4. facts' = Published(f, now) /\ Sees(f, now)
    BY <1>1, <1>2, <2>1, <2>3
  <2>5. QED
    BY <2>2, <2>3, <2>4
<1>4. settings' \in Settings /\ aliases' \in AliasTables'
  BY <1>1, SameRegistry DEF Inv, Same
<1> DEFINE others == CameraWarnings \cup
             (IF \E i \in DOMAIN seen' : seen'[i].name = NoName THEN {"unknown_class"} ELSE {})
           ends == IF DOMAIN seen' # {} THEN {}
                   ELSE IF what # "" THEN {what} ELSE {"segmenter_no_detections"}
<1>6. warnings' = others \cup ends /\ others \cap Faults = {}
  BY DEF Observe, CameraWarnings, Faults
<1>7. /\ looked' => ends \cap Faults = {}
      /\ shown = NothingSeen /\ what \in Faults => ends \cap Faults # {}
  BY <1>2 DEF Faults, NothingSeen
<1> HIDE DEF others, ends
<1>8. /\ warnings' \cap Faults # {} => ~looked'
      /\ shown = NothingSeen /\ what \in Faults => warnings' \cap Faults # {}
  BY <1>6, <1>7
<1>9. settings'.noop \/ looked' \/ warnings' \cap Faults # {}
  BY <1>1, <1>8 DEF Same
<1>10. QED
  BY <1>1, <1>2, <1>3, <1>4, <1>8, <1>9 DEF Inv

LEMMA InvStep == Inv /\ [Next]_vars => Inv'
<1> SUFFICES ASSUME Inv, [Next]_vars PROVE Inv'
  OBVIOUS
<1>0. \A a \in Faults : a # ""
  BY DEF Faults
<1>1. ASSUME NEW f \in Frames, TakeFrame(f) PROVE Inv'
  <2>1. Same /\ step = "idle" /\ step' = "taken" /\ frame' = f
        /\ UNCHANGED <<loaded, status, looked, seen, facts, warnings>>
    BY <1>1 DEF TakeFrame, segmenter, Same
  <2>2. seen = NothingSeen /\ facts = NoFacts /\ warnings = {} /\ ~looked
    BY <2>1 DEF Inv
  <2>3. settings' \in Settings /\ aliases' \in AliasTables'
    BY <2>1, SameRegistry DEF Inv, Same
  <2>4. QED
    BY <2>1, <2>2, <2>3, SeesNothingNext DEF Inv
<1>2. CASE RunWithoutImage
  <2>1. Same /\ step' = "done" /\ frame' = frame /\ frame \in Frames
        /\ facts' = NoFacts /\ looked' = FALSE /\ seen' = NothingSeen
        /\ UNCHANGED <<loaded, status>>
    BY <1>2 DEF RunWithoutImage, segmenter, Same, Inv
  <2>2. settings' \in Settings /\ aliases' \in AliasTables'
    BY <2>1, SameRegistry DEF Inv, Same
  <2>3. QED
    BY <2>1, <2>2, SeesNothingNext DEF Inv
<1>3. CASE RunNoop
  BY <1>3, ObserveStep, SeesNothing DEF RunNoop, CanRun, Inv
<1>4. CASE RunWithoutLabels
  BY <1>4, ObserveStep, SeesNothing DEF RunWithoutLabels, CanRun, Inv, Faults
<1>5. CASE LoadFails
  BY <1>5, ObserveStep, SeesNothing DEF LoadFails, CanRun, Inv, Faults
<1>6. CASE InferenceFails
  BY <1>6, ObserveStep, SeesNothing DEF InferenceFails, CanRun, Faults
<1>7. CASE Detect
  <2>1. Sees(frame, Candidates(frame))
    BY DEF Sees, Candidates
  <2>2. QED
    BY <1>7, <2>1, ObserveStep DEF Detect, CanRun
<1>8. CASE HandOver
  <2>1. Same /\ step' = "idle" /\ frame' = NoFrame /\ looked' = FALSE /\ seen' = NothingSeen
        /\ facts' = NoFacts /\ warnings' = {} /\ UNCHANGED <<loaded, status>>
    BY <1>8 DEF HandOver, segmenter, Same
  <2>2. settings' \in Settings /\ aliases' \in AliasTables'
    BY <2>1, SameRegistry DEF Inv, Same
  <2>3. QED
    BY <2>1, <2>2, SeesNothingNext DEF Inv
<1>9. CASE UNCHANGED vars
  <2>1. Same /\ UNCHANGED <<loaded, status, step, frame, looked, seen, facts, warnings>>
    BY <1>9 DEF vars, Same
  <2>2. settings' \in Settings /\ aliases' \in AliasTables'
    BY <2>1, SameRegistry DEF Inv, Same
  <2>3. Published(frame, seen)' = Published(frame, seen) /\ Sees(frame, seen)' = Sees(frame, seen)
    <3>1. PICK f, shown : f = frame /\ shown = seen
      OBVIOUS
    <3>2. Published(f, shown)' = Published(f, shown) /\ Sees(f, shown)' = Sees(f, shown)
      BY <2>1, SamePublished, SameSees
    <3>3. f = frame' /\ shown = seen'
      BY <2>1, <3>1
    <3>4. QED
      BY <3>1, <3>2, <3>3
  <2>4. settings' = settings
    BY <2>1 DEF Same
  <2>5. QED
    BY <2>1, <2>2, <2>3, <2>4 DEF Inv
<1>10. QED
  BY <1>1, <1>2, <1>3, <1>4, <1>5, <1>6, <1>7, <1>8, <1>9 DEF Next, Run

LEMMA InvHolds == Spec => []Inv
BY InvInit, InvStep, PTL DEF Spec

\* What every property is about: a fact of a frame that was looked at.
LEMMA FactOfFrame ==
  ASSUME Inv, NEW n \in DOMAIN facts
  PROVE  /\ settings \in Settings /\ frame \in Frames /\ step = "done"
         /\ Sees(frame, seen)
         /\ facts = Published(frame, seen)
         /\ n \in Names(seen) \/ n \in Canonical \ Names(seen)
         /\ settings.noop \/ looked \/ warnings \cap Faults # {}
<1>1. facts # NoFacts
  <2>1. DOMAIN NoFacts = {}
    BY DEF NoFacts
  <2>2. QED
    BY <2>1
<1>2. /\ step = "done" /\ facts = Published(frame, seen)
      /\ settings.noop \/ looked \/ warnings \cap Faults # {}
  BY <1>1 DEF Inv
<1>3. DOMAIN Published(frame, seen) = Names(seen) \cup Canonical
  BY DEF Published
<1>4. frame \in Frames /\ settings \in Settings /\ Sees(frame, seen)
  BY <1>2 DEF Inv
<1>5. QED
  BY <1>2, <1>3, <1>4

LEMMA SeenFactOfFrame ==
  ASSUME Inv, NEW n \in DOMAIN facts, n \in Names(seen)
  PROVE  LET i == facts[n].instance
             o == frame.outputs[i]
         IN  /\ i = Picked(seen, n).instance
             /\ i \in Instances(seen, n) /\ i \in DOMAIN seen /\ i \in DOMAIN frame.outputs
             /\ HasPose(frame, i) \/ Located(seen, n) = {}
             /\ facts[n].present = TRUE
             /\ facts[n].status = IF HasPose(frame, i) THEN "DETECTED_WITH_POSE" ELSE "DETECTED_NO_POSE"
             /\ facts[n].pose = LiftedPoses(frame, IF HasPose(frame, i)
                   THEN {[at |-> Position(o), axes |-> o.axes, unit |-> 1]} ELSE {})
             /\ facts[n].confidence = IF Missed(frame) THEN 0 ELSE Confidence(frame, i)
             /\ facts[n].centroid \in BOOLEAN
             /\ PoseWarnings(frame, i) \subseteq facts[n].warnings /\ facts[n].warnings \subseteq FactReasons
             /\ Missed(frame) => "tf_unavailable" \in facts[n].warnings
<1>1. PICK f, shown : f = frame /\ shown = seen
  OBVIOUS
<1>2. /\ settings \in Settings /\ f \in Frames /\ Sees(f, shown)
      /\ facts = Published(f, shown) /\ n \in Names(shown)
  BY <1>1, FactOfFrame
<1>3. LET fact == Published(f, shown)[n]
          i    == Picked(shown, n).instance
          o    == f.outputs[i]
      IN  /\ fact.present = TRUE /\ fact.instance = i
          /\ fact.status = IF HasPose(f, i) THEN "DETECTED_WITH_POSE" ELSE "DETECTED_NO_POSE"
          /\ fact.pose = LiftedPoses(f, IF HasPose(f, i)
                           THEN {[at |-> Position(o), axes |-> o.axes, unit |-> 1]} ELSE {})
          /\ fact.confidence = IF Missed(f) THEN 0 ELSE Confidence(f, i)
          /\ fact.centroid \in BOOLEAN
          /\ PoseWarnings(f, i) \subseteq fact.warnings /\ fact.warnings \subseteq FactReasons
          /\ Missed(f) => "tf_unavailable" \in fact.warnings
  BY <1>2, SeenFact
<1>4. /\ Picked(shown, n).instance \in Instances(shown, n)
      /\ Placed(shown[Picked(shown, n).instance]) \/ Located(shown, n) = {}
  BY <1>2, PickedType
<1>5. ASSUME NEW k \in Instances(shown, n)
      PROVE  k \in DOMAIN shown /\ k \in DOMAIN f.outputs /\ (Placed(shown[k]) <=> HasPose(f, k))
  BY <1>2, CandidateType DEF Instances
<1>6. QED
  BY <1>1, <1>2, <1>3, <1>4, <1>5

\* The translation of a transform, counted in the units of the target frame.
LEMMA TranslationType ==
  ASSUME NEW q \in Quaternions, NEW t \in Vectors
  PROVE  /\ Norm2(q) \in Nat
         /\ Times(2 * Norm2(q), t) \in Vectors
<1>1. q.x \in Int /\ q.y \in Int /\ q.z \in Int /\ q.w \in Int
  BY QuaternionParts
<1>2. \A a \in Int : a * a \in Nat
  OBVIOUS
<1>3. \A a, b, c, d \in Nat : a + b + c + d \in Nat
  OBVIOUS
<1>4. Norm2(q) \in Nat
  BY <1>1, <1>2, <1>3 DEF Norm2
<1>5. \A m \in Nat : \A a \in Int : 2 * m * a \in Int
  OBVIOUS
<1>6. QED
  BY <1>4, <1>5, VectorParts DEF Times, Vectors

LEMMA SumType ==
  ASSUME NEW u \in Vectors, NEW v \in Vectors
  PROVE  Plus(u, v) \in Vectors
BY VectorParts DEF Plus, Vectors

\* The pose of a fact is that of its instance, in the target frame.
LEMMA PoseOfFact ==
  ASSUME Inv, NEW n \in DOMAIN facts, NEW pose \in facts[n].pose
  PROVE  LET i == facts[n].instance
         IN  /\ n \in Names(seen) /\ HasPose(frame, i)
             /\ i \in Located(seen, n) /\ i \in DOMAIN frame.outputs
             /\ Position(frame.outputs[i]) \in Vectors /\ seen[i].place = Position(frame.outputs[i])
             /\ pose.at \in InTarget(Position(frame.outputs[i]))
             /\ pose.at \in Vectors /\ pose.axes \in Quaternions /\ pose.unit \in Units
<1> DEFINE i == facts[n].instance
           o == frame.outputs[i]
<1>1. n \in Names(seen)
  BY FactOfFrame, UnseenFact
<1>2. i \in Instances(seen, n) /\ i \in DOMAIN frame.outputs /\ frame \in Frames /\ settings \in Settings
  BY <1>1, SeenFactOfFrame, FactOfFrame
<1>3. facts[n].pose = LiftedPoses(frame, IF HasPose(frame, i)
        THEN {[at |-> Position(o), axes |-> o.axes, unit |-> 1]} ELSE {})
  BY <1>1, SeenFactOfFrame
<1>4. HasPose(frame, i)
  BY <1>3 DEF LiftedPoses
<1>5. Position(o) \in Vectors /\ o.axes \in Quaternions
  BY <1>2, <1>4, InstanceType
<1>6. i \in Located(seen, n) /\ seen[i].place = Position(o)
  <2>1. i \in DOMAIN seen /\ Sees(frame, seen)
    BY <1>2, FactOfFrame DEF Instances
  <2>2. Placed(seen[i]) /\ seen[i].place = Position(o)
    BY <1>2, <1>4, <2>1, CandidateType
  <2>3. QED
    BY <1>2, <2>2 DEF Located
<1> DEFINE own == [at |-> Position(o), axes |-> o.axes, unit |-> 1]
<1>7. CASE frame.atTarget
  <2>1. pose = own
    BY <1>3, <1>4, <1>7 DEF LiftedPoses
  <2>2. InTarget(Position(o)) = {Position(o)}
    BY <1>7 DEF InTarget
  <2>3. Units = {1}
    BY <1>7 DEF Units
  <2>4. QED
    BY <1>1, <1>2, <1>4, <1>5, <1>6, <2>1, <2>2, <2>3
<1>8. CASE ~frame.atTarget
  <2>1. PICK t \in frame.tf : pose = Transformed(own, t)
    BY <1>3, <1>4, <1>8 DEF LiftedPoses
  <2>2. t.rotation \in Quaternions /\ Norm2(t.rotation) # 0 /\ t.translation \in Vectors
    BY <1>2, PipelineAssumption DEF IsFrame
  <2>3. /\ pose.at = Plus(Rotate(Position(o), t.rotation),
                         Times(2 * Norm2(t.rotation), t.translation))
        /\ pose.axes = Multiply(t.rotation, o.axes)
        /\ pose.unit = Norm2(t.rotation)
    BY <2>1 DEF Transformed
  <2>4. Rotate(Position(o), t.rotation) = Apply(RotationMatrix(t.rotation), Position(o))
    BY <1>5, <2>2, RotateIsMatrix
  <2>5. pose.at \in InTarget(Position(o))
    BY <1>8, <2>3, <2>4 DEF InTarget
  <2>6. Rotate(Position(o), t.rotation) \in Vectors
    BY <1>5, <2>2, RotateType
  <2>7. pose.at \in Vectors
    BY <2>2, <2>3, <2>6, TranslationType, SumType
  <2>8. pose.axes \in Quaternions
    BY <1>5, <2>2, <2>3, MultiplyType
  <2>9. pose.unit \in Units
    BY <1>8, <2>3 DEF Units
  <2>10. QED
    BY <1>1, <1>2, <1>4, <1>5, <1>6, <2>5, <2>7, <2>8, <2>9
<1>9. QED
  BY <1>7, <1>8

-----------------------------------------------------------------------------
(* Types.                                                                  *)

LEMMA FactsAreTyped ==
  ASSUME Inv, NEW n \in DOMAIN facts
  PROVE  IsFact(facts[n])
<1>1. \A pose \in facts[n].pose :
        pose.at \in Vectors /\ pose.axes \in Quaternions /\ pose.unit \in Units
  BY PoseOfFact
<1>2. CASE n \in Names(seen)
  <2>1. Confidence(frame, facts[n].instance) \in Nat
    BY <1>2, SeenFactOfFrame, FactOfFrame, InstanceType
  <2>2. /\ facts[n].present = TRUE /\ facts[n].instance \in DOMAIN seen
        /\ facts[n].status \in {"DETECTED_WITH_POSE", "DETECTED_NO_POSE"}
        /\ facts[n].confidence \in {0, Confidence(frame, facts[n].instance)}
        /\ facts[n].centroid \in BOOLEAN /\ facts[n].warnings \subseteq FactReasons
    BY <1>2, SeenFactOfFrame
  <2>3. facts[n].confidence \in Nat
    BY <2>1, <2>2
  <2>4. /\ facts[n].present \in BOOLEAN /\ facts[n].status \in Statuses
        /\ facts[n].present <=> facts[n].status # "NOT_DETECTED"
    BY <2>2 DEF Statuses
  <2>5. QED
    BY <1>1, <2>2, <2>3, <2>4 DEF IsFact
<1>3. CASE n \in Canonical \ Names(seen)
  <2>1. PICK f, shown : f = frame /\ shown = seen
    OBVIOUS
  <2>2. facts[n] = Published(f, shown)[n] /\ n \in Canonical \ Names(shown)
    BY <1>3, <2>1, FactOfFrame
  <2>3. /\ facts[n].present = FALSE /\ facts[n].status = "NOT_DETECTED"
        /\ facts[n].confidence = 0 /\ facts[n].centroid \in BOOLEAN
        /\ facts[n].warnings \subseteq FactReasons
    <3>1. LET fact == Published(f, shown)[n]
          IN  /\ fact.present = FALSE /\ fact.status = "NOT_DETECTED"
              /\ fact.pose = {} /\ fact.confidence = 0 /\ fact.centroid \in BOOLEAN
              /\ fact.warnings \subseteq FactReasons
      BY <2>2, UnseenFact
    <3>2. QED
      BY <2>2, <3>1, Zenon
  <2>4. facts[n].present \in BOOLEAN /\ ~facts[n].present
    BY <2>3, Zenon
  <2>5. facts[n].status \in Statuses /\ ~(facts[n].status # "NOT_DETECTED")
    BY <2>3 DEF Statuses
  <2>6. facts[n].confidence \in Nat
    BY <2>3
  <2>7. QED
    BY <1>1, <2>3, <2>4, <2>5, <2>6 DEF IsFact
<1>4. QED
  BY <1>2, <1>3, FactOfFrame

LEMMA NamesAreRegistered ==
  ASSUME Inv, NEW n \in DOMAIN facts
  PROVE  n \in IF Canonical = {} THEN Labels ELSE Canonical
<1>1. CASE n \in Names(seen)
  <2>1. PICK i \in DOMAIN seen : n = Canonicalize(frame.outputs[i].label) /\ n # NoName
    BY <1>1, FactOfFrame, CandidateType DEF Names
  <2>2. frame.outputs[i].label \in Labels
    <3>1. i \in DOMAIN frame.outputs /\ frame.outputs[i].label # NoName
      BY DEF Inv, Sees, Detections
    <3>2. IsOutput(frame.outputs[i])
      BY <3>1, FactOfFrame, OutputType
    <3>3. QED
      BY <3>1, <3>2 DEF IsOutput
  <2>3. QED
    BY <2>1, <2>2 DEF Canonicalize
<1>2. QED
  BY <1>1, FactOfFrame

\* The facts are well typed and about registered objects.
THEOREM TypeCorrect == Spec => []TypeOK
<1>1. Inv => TypeOK
  <2> SUFFICES ASSUME Inv PROVE TypeOK
    OBVIOUS
  <2>1. \A n \in DOMAIN facts : IsFact(facts[n])
    BY FactsAreTyped
  <2>2. DOMAIN facts \subseteq IF Canonical = {} THEN Labels ELSE Canonical
    BY NamesAreRegistered
  <2>3. DOMAIN NoFacts = {} /\ DOMAIN NothingSeen = {}
    BY DEF NoFacts, NothingSeen
  <2>4. DOMAIN seen \subseteq DOMAIN frame.outputs /\ frame \in Frames \cup {NoFrame}
    BY DEF Inv, Sees, Detections
  <2>5. QED
    BY <2>1, <2>2, <2>3, <2>4 DEF Inv, TypeOK
<1>2. QED
  BY <1>1, InvHolds, PTL

-----------------------------------------------------------------------------
(* A pose is inside its object.                                            *)

LEMMA Extremes ==
  ASSUME NEW own, own # {}, NEW z, NEW top \in Nat, \A p \in own : z[p] \in 0..top
  PROVE  \E p, q \in own : \A r \in own : z[r] \in z[p]..z[q]
<1> DEFINE low  == [r \in own |-> z[r]]
           high == [r \in own |-> top - z[r]]
<1>1. low \in [own -> Nat] /\ high \in [own -> Nat]
  OBVIOUS
<1>2. PICK p \in own : \A r \in own : low[p] <= low[r]
  <2> HIDE DEF low
  <2> QED
    BY <1>1, LeastOn
<1>3. PICK q \in own : \A r \in own : high[q] <= high[r]
  <2> HIDE DEF high
  <2> QED
    BY <1>1, LeastOn
<1>4. \A r \in own : z[r] \in z[p]..z[q]
  <2> SUFFICES ASSUME NEW r \in own PROVE z[r] \in z[p]..z[q]
    OBVIOUS
  <2>1. low[p] <= low[r] /\ high[q] <= high[r]
    BY <1>2, <1>3
  <2>2. z[p] <= z[r] /\ top - z[q] <= top - z[r]
    BY <2>1
  <2>3. z[p] \in 0..top /\ z[q] \in 0..top /\ z[r] \in 0..top
    OBVIOUS
  <2>4. QED
    BY <2>2, <2>3
<1>5. QED
  BY <1>4

LEMMA MedianInsideObject ==
  ASSUME settings \in Settings, NEW o, IsOutput(o), Points(o) # {}, MostlyOwn(o) \/ BandFits(o)
  PROVE  \E p, q \in o.own \cap Sampled(o) :
           MedianTwice(Points(o), o.z) \in (2 * o.z[p])..(2 * o.z[q])
<1> DEFINE own == o.own \cap Sampled(o)
<1>1. /\ Readings(Sampled(o), o.z, MaxReading) /\ IsFiniteSet(Sampled(o))
      /\ Cardinality(Sampled(o)) \in Nat /\ MaxReading \in Nat /\ MinimumRadius \in Nat
      /\ Points(o) \subseteq Sampled(o) /\ Readings(Points(o), o.z, MaxReading)
  BY SampledType, PointsType, FS_CardinalityType, PipelineAssumption DEF Readings
<1>2. \A p \in own : o.z[p] \in 0..MaxReading
  BY <1>1 DEF Readings
<1>3. CASE MostlyOwn(o)
  <2>1. Sampled(o) \ own = Sampled(o) \ o.own
    OBVIOUS
  <2>2. 4 * Cardinality(Sampled(o) \ own) < Cardinality(Sampled(o))
    BY <1>3, <2>1 DEF MostlyOwn
  <2>3. own # {}
    <3>1. own = {} => Sampled(o) \ own = Sampled(o)
      OBVIOUS
    <3> HIDE DEF own
    <3>2. QED
      BY <1>1, <2>2, <3>1
  <2>4. PICK p \in own, q \in own : \A r \in own : o.z[r] \in o.z[p]..o.z[q]
    <3> HIDE DEF own
    <3> QED
      BY <1>1, <1>2, <2>3, Extremes
  <2>5. o.z[p] \in Nat /\ o.z[q] \in Nat
    BY <1>1, <1>2
  <2>6. MedianTwice(Points(o), o.z) \in (2 * o.z[p])..(2 * o.z[q])
    <3> HIDE DEF own
    <3> QED
      BY <1>1, <2>2, <2>4, <2>5, FilteredMedianInside DEF Points
  <2>7. QED
    BY <2>6
<1>4. CASE BandFits(o)
  <2> DEFINE pixels == Reachable(o.z, settings.maxDepth)
             mine   == o.own \cap pixels
  <2>1. /\ settings.band > 0 /\ settings.band \in Nat /\ mine # {} /\ mine \subseteq pixels
        /\ 10 * (Cardinality(mine) - 1) >= Cardinality(pixels) - 1
        /\ \A p, q \in mine : o.z[p] - o.z[q] <= settings.band
        /\ \A p \in pixels \ mine, q \in mine : o.z[p] > o.z[q] + settings.band
    BY <1>4, SettingType DEF BandFits
  <2>2. Readings(pixels, o.z, MaxReading)
    BY SampledType
  <2>3. \A p \in mine : o.z[p] \in 0..MaxReading
    BY <2>2 DEF Readings
  <2> HIDE DEF pixels, mine
  <2>4. PICK p \in mine, q \in mine : \A r \in mine : o.z[r] \in o.z[p]..o.z[q]
    BY <1>1, <2>1, <2>3, Extremes
  <2>5. /\ o.z[p] \in Nat /\ o.z[q] \in Nat /\ o.z[q] - o.z[p] <= settings.band
        /\ \A r \in pixels \ mine : o.z[r] > o.z[q] + settings.band
    BY <2>1, <2>3, <1>1
  <2>6. Gated(o.z, settings.maxDepth, settings.band) = mine
    BY <1>1, <2>1, <2>2, <2>4, <2>5, BandKeepsObject DEF pixels
  <2>7. Sampled(o) \subseteq mine
    BY <2>6, SampledType
  <2>8. own = Sampled(o)
    BY <2>7 DEF mine
  <2>9. PICK a \in own, b \in own : \A r \in own : o.z[r] \in o.z[a]..o.z[b]
    <3>1. own # {}
      BY <1>1, <2>8
    <3> HIDE DEF own
    <3>2. QED
      BY <1>1, <1>2, <3>1, Extremes
  <2>10. /\ o.z[a] \in Nat /\ o.z[b] \in Nat
         /\ \A r \in Points(o) : o.z[r] \in o.z[a]..o.z[b]
    BY <1>1, <1>2, <2>8, <2>9
  <2>11. 2 * Cardinality(Points(o)) > Cardinality(Points(o))
    <3>1. Cardinality(Points(o)) \in Nat /\ Cardinality(Points(o)) # 0
      BY <1>1, FS_CardinalityType, FS_EmptySet DEF Readings
    <3>2. QED
      BY <3>1
  <2>12. MedianTwice(Points(o), o.z) \in (2 * o.z[a])..(2 * o.z[b])
    BY <1>1, <2>10, <2>11, MedianInside
  <2>13. QED
    BY <2>12
<1>5. QED
  BY <1>3, <1>4

\* A mask that caught background does not move the published position out of
\* the object.
THEOREM PoseInsideObjectHolds == Spec => []PoseInsideObject
<1>1. Inv => PoseInsideObject
  <2> SUFFICES ASSUME Inv, NEW n \in DOMAIN facts, NEW pose \in facts[n].pose,
                      MostlyOwn(frame.outputs[facts[n].instance])
                        \/ BandFits(frame.outputs[facts[n].instance])
               PROVE  \E p, q \in frame.outputs[facts[n].instance].own
                                    \cap Sampled(frame.outputs[facts[n].instance]) :
                        \E d \in (2 * frame.outputs[facts[n].instance].z[p])..
                                   (2 * frame.outputs[facts[n].instance].z[q]) :
                          pose.at \in InTarget([x |-> 0, y |-> 0, z |-> d])
    BY DEF PoseInsideObject
  <2> DEFINE i == facts[n].instance
  <2>1. /\ HasPose(frame, i) /\ i \in DOMAIN frame.outputs
        /\ pose.at \in InTarget(Position(frame.outputs[i]))
    BY PoseOfFact
  <2>2. settings \in Settings /\ frame \in Frames
    BY FactOfFrame
  <2>3. PICK o : o = frame.outputs[i]
    OBVIOUS
  <2>4. IsOutput(o) /\ Points(o) # {}
    BY <2>1, <2>2, <2>3, OutputType, InstanceType
  <2>5. PICK p \in o.own \cap Sampled(o), q \in o.own \cap Sampled(o) :
          MedianTwice(Points(o), o.z) \in (2 * o.z[p])..(2 * o.z[q])
    BY <2>2, <2>3, <2>4, MedianInsideObject
  <2>6. pose.at \in InTarget([x |-> 0, y |-> 0, z |-> MedianTwice(Points(o), o.z)])
    BY <2>1, <2>3 DEF Position
  <2>7. QED
    BY <2>3, <2>5, <2>6
<1>2. QED
  BY <1>1, InvHolds, PTL

-----------------------------------------------------------------------------
(* Supports.                                                               *)

\* tf2 has one transform for a frame.
LEMMA OneTransform ==
  ASSUME frame \in Frames, NEW s \in frame.tf, NEW t \in frame.tf
  PROVE  s = t
<1>1. IsFiniteSet(frame.tf) /\ Cardinality(frame.tf) <= 1
  BY PipelineAssumption DEF IsFrame
<1>2. Cardinality({s, t}) <= Cardinality(frame.tf) /\ IsFiniteSet({s, t})
  BY <1>1, FS_Subset
<1>3. s # t => Cardinality({s, t}) = 2
  <2>1. IsFiniteSet({t}) /\ Cardinality({t}) = 1
    BY FS_Singleton
  <2>2. ASSUME s # t PROVE Cardinality({t} \cup {s}) = 2
    <3>1. s \notin {t}
      BY <2>2
    <3>2. Cardinality({t} \cup {s}) = Cardinality({t}) + 1
      BY <2>1, <3>1, FS_AddElement
    <3>3. QED
      BY <2>1, <3>2
  <2>3. {t} \cup {s} = {s, t}
    OBVIOUS
  <2>4. QED
    BY <2>2, <2>3
<1>4. Cardinality(frame.tf) \in Nat
  BY <1>1, FS_CardinalityType
<1>5. QED
  BY <1>1, <1>2, <1>3, <1>4

LEMMA UnitType ==
  ASSUME frame \in Frames, NEW unit \in Units
  PROVE  unit \in Nat \ {0}
<1>1. CASE frame.atTarget
  BY <1>1 DEF Units
<1>2. CASE ~frame.atTarget
  <2>1. PICK t \in frame.tf : unit = Norm2(t.rotation)
    BY <1>2 DEF Units
  <2>2. t.rotation \in Quaternions /\ Norm2(t.rotation) # 0 /\ t.translation \in Vectors
    BY PipelineAssumption DEF IsFrame
  <2>3. QED
    BY <2>1, <2>2, TranslationType
<1>3. QED
  BY <1>1, <1>2

\* The target frame keeps distances, counted in its units.
LEMMA InTargetIsRigid ==
  ASSUME frame \in Frames, NEW u \in Vectors, NEW v \in Vectors,
         NEW a \in InTarget(u), NEW b \in InTarget(v), NEW unit \in Units
  PROVE  Apart2(a, b) = unit * unit * Apart2(u, v)
<1>1. CASE frame.atTarget
  <2>1. unit = 1 /\ a = u /\ b = v
    BY <1>1 DEF InTarget, Units
  <2>2. Apart2(u, v) \in Nat
    BY ApartType
  <2>3. QED
    BY <2>1, <2>2
<1>2. CASE ~frame.atTarget
  <2>1. PICK s \in frame.tf :
          a = Plus(Apply(RotationMatrix(s.rotation), u), Times(2 * Norm2(s.rotation), s.translation))
    BY <1>2 DEF InTarget
  <2>2. PICK t \in frame.tf :
          b = Plus(Apply(RotationMatrix(t.rotation), v), Times(2 * Norm2(t.rotation), t.translation))
    BY <1>2 DEF InTarget
  <2>3. PICK r \in frame.tf : unit = Norm2(r.rotation)
    BY <1>2 DEF Units
  <2>4. s = t /\ r = t
    BY OneTransform
  <2>5. t.rotation \in Quaternions /\ Norm2(t.rotation) # 0 /\ t.translation \in Vectors
    BY PipelineAssumption DEF IsFrame
  <2> DEFINE moved == Times(2 * Norm2(t.rotation), t.translation)
  <2>6. /\ a = Plus(Rotate(u, t.rotation), moved)
        /\ b = Plus(Rotate(v, t.rotation), moved)
    BY <2>1, <2>2, <2>4, <2>5, RotateIsMatrix
  <2>7. moved \in Vectors
    BY <2>5, TranslationType
  <2>8. QED
    BY <2>3, <2>4, <2>5, <2>6, <2>7, LiftIsRigid
<1>3. QED
  BY <1>1, <1>2

\* Units of the same size keep the order of distances.
LEMMA ScaledOrder ==
  ASSUME NEW unit \in Nat \ {0}, NEW m \in Nat, NEW n \in Nat
  PROVE  /\ unit * unit * m \in Nat
         /\ m <= n => unit * unit * m <= unit * unit * n
         /\ m > n => unit * unit * m > unit * unit * n
<1>1. PICK k \in Nat \ {0} : k = unit * unit
  <2>1. \A a \in Nat \ {0} : a * a \in Nat \ {0}
    OBVIOUS
  <2>2. QED
    BY <2>1
<1>2. \A a \in Nat \ {0}, b \in Nat : a * b \in Nat
  OBVIOUS
<1>3. \A a \in Nat \ {0} : \A b, c \in Nat : b <= c => a * b <= a * c
  OBVIOUS
<1>4. \A a \in Nat \ {0} : \A b, c \in Nat : b > c => a * b > a * c
  OBVIOUS
<1>5. QED
  BY <1>1, <1>2, <1>3, <1>4

\* The published instance of an object with a support is the nearest one to
\* it, or all are out of the radius.
THEOREM SupportedInstanceIsNearestHolds == Spec => []SupportedInstanceIsNearest
<1>1. Inv => SupportedInstanceIsNearest
  <2> SUFFICES ASSUME Inv, NEW n \in DOMAIN facts \cap DOMAIN settings.supports,
                      settings.supports[n] \in DOMAIN facts \ DOMAIN settings.supports,
                      NEW pose \in facts[n].pose, NEW support \in facts[settings.supports[n]].pose
               PROVE  \/ /\ settings.radius > 0
                         /\ \A place \in Places(n) :
                              Apart2(place, support.at) > Radius2(support.unit)
                      \/ \A place \in Places(n) :
                              Apart2(pose.at, support.at) <= Apart2(place, support.at)
    BY DEF SupportedInstanceIsNearest
  <2>1. PICK m : m = settings.supports[n]
    OBVIOUS
  <2> DEFINE i == facts[n].instance
             j == facts[m].instance
             nearest == Nearest(seen, n, j)
             unit == support.unit
  <2>2. /\ settings \in Settings /\ frame \in Frames /\ Sees(frame, seen)
        /\ settings.radius \in Nat
    BY FactOfFrame, SettingType
  <2>3. /\ n \in Names(seen) /\ i \in Located(seen, n)
        /\ pose.at \in InTarget(seen[i].place)
        /\ i = Picked(seen, n).instance
    BY PoseOfFact, SeenFactOfFrame
  <2>4. /\ m \in Names(seen) /\ j \in Located(seen, m) /\ j \in DOMAIN seen
        /\ support.at \in InTarget(seen[j].place) /\ Placed(seen[j])
        /\ seen[j].place \in Vectors /\ unit \in Units
        /\ j = Picked(seen, m).instance
    <3>1. support \in facts[m].pose /\ m \in DOMAIN facts
      BY <2>1
    <3>2. /\ m \in Names(seen) /\ j \in Located(seen, m)
          /\ Position(frame.outputs[j]) \in Vectors /\ seen[j].place = Position(frame.outputs[j])
          /\ support.at \in InTarget(Position(frame.outputs[j])) /\ unit \in Units
      BY <3>1, PoseOfFact
    <3>3. j = Picked(seen, m).instance
      BY <3>1, <3>2, SeenFactOfFrame
    <3>4. j \in DOMAIN seen /\ Placed(seen[j])
      BY <3>2 DEF Located, Instances
    <3>5. QED
      BY <3>2, <3>3, <3>4
  <2>5. j = Preliminary(seen, m)
    BY <2>1, <2>4 DEF Picked
  <2>6. Support(seen, n) # {}
    BY <2>1, <2>4, <2>5 DEF Support
  <2>7. /\ nearest \in Located(seen, n)
        /\ \A k \in Located(seen, n) : Between(seen, nearest, j) <= Between(seen, k, j)
    <3>1. PICK f, shown : f = frame /\ shown = seen
      OBVIOUS
    <3>2. LET near == Nearest(shown, n, j)
          IN  /\ near \in Located(shown, n)
              /\ \A k \in Located(shown, n) : Between(shown, near, j) <= Between(shown, k, j)
      BY <2>2, <2>3, <2>4, <3>1, NearestExists
    <3>3. QED
      BY <3>1, <3>2
  <2>8. TooFar(seen, nearest, j) \/ i = nearest
    BY <2>1, <2>3, <2>5, <2>6 DEF Picked
  <2>9. ASSUME NEW k \in Located(seen, n)
        PROVE  seen[k].place \in Vectors /\ Between(seen, k, j) \in Nat
    <3>1. k \in DOMAIN seen /\ Placed(seen[k])
      BY DEF Located, Instances
    <3>2. seen[k].place \in Vectors
      BY <2>2, <3>1, CandidateType
    <3>3. QED
      BY <2>4, <3>2, ApartType DEF Between
  <2>10. ASSUME NEW k \in Located(seen, n), NEW place \in InTarget(seen[k].place)
         PROVE  Apart2(place, support.at) = unit * unit * Between(seen, k, j)
    BY <2>2, <2>4, <2>9, InTargetIsRigid DEF Between
  <2>11. unit \in Nat \ {0}
    BY <2>2, <2>4, UnitType
  <2>12. Between(seen, nearest, j) \in Nat
    BY <2>7, <2>9
  <2> HIDE DEF nearest, unit
  <2>13. ASSUME NEW place \in Places(n)
         PROVE  \E k \in Located(seen, n) :
                  /\ Between(seen, nearest, j) <= Between(seen, k, j)
                  /\ Between(seen, k, j) \in Nat
                  /\ Apart2(place, support.at) = unit * unit * Between(seen, k, j)
    <3>1. PICK k \in Located(seen, n) : place \in InTarget(seen[k].place)
      BY DEF Places
    <3>2. QED
      BY <2>7, <2>9, <2>10, <3>1
  <2>14. CASE TooFar(seen, nearest, j)
    <3> DEFINE radius2 == 4 * settings.radius * settings.radius
    <3>1. settings.radius > 0 /\ Between(seen, nearest, j) > radius2
      BY <2>14 DEF TooFar
    <3>2. radius2 \in Nat
      BY <2>2
    <3>3. Radius2(unit) = unit * unit * radius2
      <4>1. \A a, r \in Nat : (2 * r * a) * (2 * r * a) = a * a * (4 * r * r)
        OBVIOUS
      <4>2. QED
        BY <2>2, <2>11, <4>1 DEF Radius2
    <3> HIDE DEF radius2
    <3>4. ASSUME NEW place \in Places(n)
          PROVE  Apart2(place, support.at) > Radius2(unit)
      <4>1. PICK k \in Located(seen, n) :
              /\ Between(seen, nearest, j) <= Between(seen, k, j)
              /\ Between(seen, k, j) \in Nat
              /\ Apart2(place, support.at) = unit * unit * Between(seen, k, j)
        BY <2>13
      <4>2. Between(seen, k, j) > radius2
        BY <2>12, <3>1, <3>2, <4>1
      <4>3. QED
        BY <2>11, <3>2, <3>3, <4>1, <4>2, ScaledOrder
    <3>5. QED
      BY <3>1, <3>4 DEF unit
  <2>15. CASE i = nearest
    <3>1. Apart2(pose.at, support.at) = unit * unit * Between(seen, nearest, j)
      BY <2>3, <2>10, <2>15
    <3>2. ASSUME NEW place \in Places(n)
          PROVE  Apart2(pose.at, support.at) <= Apart2(place, support.at)
      BY <2>11, <2>12, <2>13, <3>1, ScaledOrder
    <3>3. QED
      BY <3>2
  <2>16. QED
    BY <2>8, <2>14, <2>15
<1>2. QED
  BY <1>1, InvHolds, PTL

-----------------------------------------------------------------------------
(* Empty poses.                                                            *)

LEMMA SeenPoseExplained ==
  ASSUME Inv, NEW n \in DOMAIN facts, n \in Names(seen), facts[n].pose = {}
  PROVE  /\ facts[n].confidence = 0
         /\ \/ ~frame.atTarget /\ frame.tf = {} /\ "tf_unavailable" \in facts[n].warnings
            \/ /\ Located(seen, n) = {}
               /\ facts[n].warnings \cap DepthReasons # {}
<1> DEFINE i == facts[n].instance
           o == frame.outputs[i]
<1>1. /\ HasPose(frame, i) \/ Located(seen, n) = {}
      /\ facts[n].pose = LiftedPoses(frame, IF HasPose(frame, i)
           THEN {[at |-> Position(o), axes |-> o.axes, unit |-> 1]} ELSE {})
      /\ facts[n].confidence = IF Missed(frame) THEN 0 ELSE Confidence(frame, i)
      /\ PoseWarnings(frame, i) \subseteq facts[n].warnings
      /\ Missed(frame) => "tf_unavailable" \in facts[n].warnings
  BY SeenFactOfFrame
<1>2. CASE Missed(frame)
  BY <1>1, <1>2 DEF Missed
<1>3. CASE ~Missed(frame)
  <2>1. ~HasPose(frame, i)
    <3> SUFFICES ASSUME HasPose(frame, i) PROVE FALSE
      OBVIOUS
    <3> DEFINE own == [at |-> Position(o), axes |-> o.axes, unit |-> 1]
    <3>1. LiftedPoses(frame, {own}) = {}
      BY <1>1
    <3>2. CASE frame.atTarget
      <4> HIDE DEF own
      <4>1. own \in LiftedPoses(frame, {own})
        BY <3>2 DEF LiftedPoses
      <4>2. QED
        BY <3>1, <4>1
    <3>3. CASE ~frame.atTarget
      <4>1. PICK t : t \in frame.tf
        BY <1>3, <3>3 DEF Missed
      <4>2. Transformed(own, t) \in LiftedPoses(frame, {own})
        BY <3>3, <4>1 DEF LiftedPoses
      <4>3. QED
        BY <3>1, <4>2
    <3>4. QED
      BY <3>2, <3>3
  <2>2. Confidence(frame, i) = 0
    BY <2>1 DEF Confidence
  <2>3. PoseWarnings(frame, i) \cap DepthReasons # {}
    <3>1. frame.depth \in {"missing", "mismatched", "aligned"}
      BY FactOfFrame, PipelineAssumption DEF IsFrame
    <3>2. QED
      BY <2>1, <3>1 DEF PoseWarnings, DepthReasons
  <2>4. QED
    BY <1>1, <1>3, <2>1, <2>2, <2>3
<1>4. QED
  BY <1>2, <1>3

LEMMA ElementsOfSequence ==
  ASSUME NEW S, NEW s \in Seq(S), NEW k \in DOMAIN s
  PROVE  s[k] \in S
<1>1. DOMAIN s = 1..Len(s)
  OBVIOUS
<1>2. QED
  BY <1>1

LEMMA UnseenExplained ==
  ASSUME Inv, NEW n \in DOMAIN facts, n \notin Names(seen)
  PROVE  /\ facts[n].confidence = 0 /\ ~facts[n].present
         /\ n # NoName => Instances(seen, n) = {}
<1>1. PICK f, shown : f = frame /\ shown = seen
  OBVIOUS
<1>2. facts[n] = Published(f, shown)[n] /\ n \in Canonical \ Names(shown)
  BY <1>1, FactOfFrame
<1>3. LET fact == Published(f, shown)[n]
      IN  /\ fact.present = FALSE /\ fact.status = "NOT_DETECTED"
          /\ fact.pose = {} /\ fact.confidence = 0 /\ fact.centroid \in BOOLEAN
          /\ fact.warnings \subseteq FactReasons
  BY <1>2, UnseenFact
<1>4. facts[n].present = FALSE /\ facts[n].confidence = 0
  BY <1>2, <1>3, Zenon
<1>5. n # NoName => Instances(seen, n) = {}
  BY DEF Names, Instances
<1>6. QED
  BY <1>4, <1>5, Zenon

\* A fact without a pose says why, and what it says is so.
THEOREM EmptyPoseIsExplainedHolds == Spec => []EmptyPoseIsExplained
<1>1. Inv => EmptyPoseIsExplained
  <2> SUFFICES ASSUME Inv PROVE EmptyPoseIsExplained
    OBVIOUS
  <2>1. warnings \cap Faults # {} => ~looked
    BY DEF Inv
  <2>2. ASSUME NEW n \in DOMAIN facts, facts[n].pose = {}, n \in Names(seen)
        PROVE  /\ facts[n].present
               /\ facts[n].confidence = 0
               /\ \/ ~frame.atTarget /\ frame.tf = {} /\ "tf_unavailable" \in facts[n].warnings
                  \/ /\ Located(seen, n) = {}
                     /\ facts[n].warnings \cap DepthReasons # {}
    BY <2>2, SeenPoseExplained, SeenFactOfFrame
  <2>3. ASSUME NEW n \in DOMAIN facts, n \notin Names(seen)
        PROVE  /\ ~facts[n].present /\ facts[n].confidence = 0
               /\ Instances(seen, n) = {}
               /\ settings.noop \/ looked \/ warnings \cap Faults # {}
    <3>1. n # NoName
      <4>1. n \in Canonical
        BY <2>3, FactOfFrame
      <4>2. PICK k \in DOMAIN settings.objects : n = settings.objects[k].name
        BY <4>1 DEF Canonical
      <4>3. settings.objects \in Seq([name : Labels, aliases : SUBSET Labels])
        BY FactOfFrame, PipelineAssumption DEF IsSetting
      <4>4. settings.objects[k] \in [name : Labels, aliases : SUBSET Labels]
        BY <4>2, <4>3, ElementsOfSequence
      <4>5. QED
        BY <4>2, <4>4, PipelineAssumption
    <3>2. QED
      BY <2>3, <3>1, UnseenExplained, FactOfFrame
  <2>4. QED
    BY <2>1, <2>2, <2>3 DEF EmptyPoseIsExplained
<1>2. QED
  BY <1>1, InvHolds, PTL

=============================================================================
