----------------------------- MODULE MCPipeline -----------------------------
(* A small instance of the pipeline, and the geometry on small numbers.    *)
EXTENDS PipelineProperties

MCLabels == {"plate", "Capsule", "capsule", "pod", "machine"}

MCLower == [l \in MCLabels |-> IF l = "Capsule" THEN "capsule" ELSE l]

\* "machine" means nothing that is registered, "pod" is claimed twice.
MCObjects ==
  << [name |-> "plate",   aliases |-> {"pod"}],
     [name |-> "Capsule", aliases |-> {"pod"}] >>

MCMoreAliases == << [alias |-> "machine", name |-> "machine"] >>

Setting(supports, radius, band, minPoints) ==
  [ objects |-> MCObjects, moreAliases |-> MCMoreAliases, noop |-> FALSE,
    supports |-> supports, radius |-> radius, maxDepth |-> 30, band |-> band,
    minPoints |-> minPoints, threshold |-> 20, calibrated |-> FALSE ]

\* Without a registry there is nothing to ask for; with aliases only, labels
\* are names.
NoRegistry(more) ==
  [Setting([n \in {} |-> "plate"], 0, 0, 1) EXCEPT !.objects = <<>>, !.moreAliases = more]

NoSupports == [n \in {} |-> "plate"]
OnPlate    == [n \in {"Capsule"} |-> "plate"]
Chain      == [n \in {"Capsule", "plate"} |-> IF n = "plate" THEN "Capsule" ELSE "plate"]

MCSettings ==
  { Setting(NoSupports, 0, 0, 1), Setting(OnPlate, 0, 1, 3),
    Setting(OnPlate, 2, 0, 2), Setting(Chain, 3, 1, 1),
    NoRegistry(<<>>), NoRegistry(MCMoreAliases),
    [Setting(OnPlate, 0, 0, 1) EXCEPT !.noop = TRUE] }

Mask(readings, own) == [z |-> readings, own |-> own]

\* An object of one depth; one with two wrong readings of ten, before and
\* behind it; one of which the mask has only a part, with all the rest
\* behind; one without a reading; and an empty mask.
Flat(d)   == Mask([p \in 1..4 |-> d], 1..4)
Caught(d) == Mask([p \in 1..10 |-> IF p = 1 THEN 1 ELSE IF p = 10 THEN d + 9 ELSE d + (p % 2)], 2..9)
Loose(d)  == Mask([p \in 1..8 |-> IF p <= 2 THEN d + (p % 2) ELSE 20 + p], 1..2)
Blind     == Mask([p \in 1..3 |-> 0], 1..3)
Empty     == Mask([p \in {} |-> 0], {})

Unturned == [x |-> 0, y |-> 0, z |-> 0, w |-> 1]

Output(label, score, mask) ==
  [ label |-> label, score |-> score, shape |-> 50, z |-> mask.z, own |-> mask.own,
    axes |-> Unturned ]

MCOutputs ==
  { Output("Capsule", 90, Flat(5)), Output("capsule", 60, Caught(8)), Output("pod", 40, Loose(12)),
    Output("plate", 50, Flat(9)),   Output("plate", 80, Caught(3)),   Output("plate", 95, Blind),
    Output("machine", 30, Empty),   Output("plate", 10, Flat(2)) }

\* The front camera looks down at a slant, the wrist camera is turned about an
\* axis of its image that is neither of its sides.
Down     == [rotation |-> [x |-> 2, y |-> 0, z |-> 0, w |-> 1], translation |-> [x |-> 2, y |-> 0, z |-> 20]]
Sideways == [rotation |-> [x |-> 1, y |-> 2, z |-> 0, w |-> -2], translation |-> [x |-> 0, y |-> 3, z |-> 1]]

Frame(camera, depth, atTarget, tf, outputs) ==
  [ camera |-> camera, rgb |-> TRUE, depth |-> depth, atTarget |-> atTarget, tf |-> tf,
    outputs |-> outputs ]

UpTo(n) == UNION {[1..k -> MCOutputs] : k \in 0..n}

\* Two instances of one object and one or none of the other.
Triples ==
  {<<a, b, c>> \in MCOutputs \X MCOutputs \X MCOutputs :
    a.label = "Capsule" /\ b.label # "machine" /\ c.label \in {"capsule", "plate", "pod"}}

MCFrames ==
  {Frame("front", "aligned", FALSE, {Down}, outputs) : outputs \in UpTo(2) \cup Triples}
    \cup {Frame("wrist", depth, FALSE, tf, outputs) :
            depth \in {"missing", "mismatched", "aligned"}, tf \in {{}, {Sideways}}, outputs \in UpTo(1)}
    \cup {Frame("wrist", "aligned", TRUE, {}, outputs) : outputs \in UpTo(2)}
    \cup {[Frame("wrist", "missing", FALSE, tf, <<>>) EXCEPT !.rgb = FALSE] : tf \in {{}, {Sideways}}}

-----------------------------------------------------------------------------
(* The tests of the geometry that the repository has, for every small      *)
(* quaternion and vector: the operators on which the theorems rest compute *)
(* what they should (tests/test_perception_geometry.py).                   *)

SmallQuaternions == [x : -1..1, y : -1..1, z : -1..1, w : -1..1]
SmallVectors     == [x : {-2, 0, 1}, y : {0, 1}, z : {-1, 3}]

ASSUME RotationIsMatrix ==
  \A q \in SmallQuaternions : Norm2(q) # 0 =>
    \A v \in SmallVectors : Rotate(v, q) = Apply(RotationMatrix(q), v)

\* A rotation matrix gives its quaternion back, or the opposite one.
ASSUME MatrixRoundTrip ==
  \A q \in SmallQuaternions : Norm2(q) # 0 =>
    \E k \in -8..8 : k # 0 /\ QuaternionOf(RotationMatrix(q)) =
      [x |-> k * q.x, y |-> k * q.y, z |-> k * q.z, w |-> k * q.w]

\* A quarter turn about the vertical axis, and one about an axis of the image,
\* take the variances along with the axes, four times as large.
ASSUME CovarianceTurns ==
  LET Spread(a, b, c) == FromRows([x |-> a, y |-> 0, z |-> 0], [x |-> 0, y |-> b, z |-> 0], [x |-> 0, y |-> 0, z |-> c])
  IN  /\ RotateBlock(Spread(1, 4, 9), [x |-> 0, y |-> 0, z |-> 1, w |-> 1]) = Spread(16, 4, 36)
      /\ RotateBlock(Spread(1, 4, 9), [x |-> -1, y |-> 0, z |-> 0, w |-> 1]) = Spread(4, 36, 16)

\* The median and the tenth percentile of lists that numpy was asked for.
ASSUME OrderStatistics ==
  /\ MedianTwice(1..4, <<7, 1, 3, 4>>) = 7
  /\ MedianTwice(1..5, <<7, 1, 3, 4, 9>>) = 8
  /\ TenthPercentileTenfold(1..4, <<7, 1, 3, 4>>) = 16
  /\ Thinned(1..10, 4) = {1, 4, 7, 10}

=============================================================================
