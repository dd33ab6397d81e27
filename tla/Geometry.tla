------------------------------ MODULE Geometry ------------------------------
(***************************************************************************)
(* The geometry of perception/geometry.py as pure operators on integers.   *)
(*                                                                         *)
(* Rotations are exact: a quaternion stands for its direction, since the   *)
(* code divides by its norm, and a matrix carries the scale that its       *)
(* entries are multiples of.  Rounding of floats is left out.              *)
(*                                                                         *)
(* The readings of a mask are a function z from its pixels, numbered row   *)
(* by row, to depths; 0 is a reading that is missing, infinite or not a    *)
(* number.  The pixels lie on the optical axis, so a point is its depth.   *)
(* A median of integers may be a half: an operator whose name ends in      *)
(* Twice gives twice the value.                                            *)
(***************************************************************************)
EXTENDS Integers, FiniteSets

Vectors     == [x : Int, y : Int, z : Int]
Quaternions == [x : Int, y : Int, z : Int, w : Int]

Plus(u, v)  == [x |-> u.x + v.x, y |-> u.y + v.y, z |-> u.z + v.z]
Minus(u, v) == [x |-> u.x - v.x, y |-> u.y - v.y, z |-> u.z - v.z]
Dot(u, v)   == u.x * v.x + u.y * v.y + u.z * v.z
Negated(u)  == [x |-> -u.x, y |-> -u.y, z |-> -u.z]
Times(k, u) == [x |-> k * u.x, y |-> k * u.y, z |-> k * u.z]

\* The square of a distance, which orders distances as they are.
Apart2(u, v) == Dot(Minus(u, v), Minus(u, v))

-----------------------------------------------------------------------------
(* Quaternions.                                                            *)

Norm2(q) == q.x * q.x + q.y * q.y + q.z * q.z + q.w * q.w

Multiply(l, r) ==
  [ x |-> l.w * r.x + l.x * r.w + l.y * r.z - l.z * r.y,
    y |-> l.w * r.y - l.x * r.z + l.y * r.w + l.z * r.x,
    z |-> l.w * r.z + l.x * r.y - l.y * r.x + l.z * r.w,
    w |-> l.w * r.w - l.x * r.x - l.y * r.y - l.z * r.z ]

Conjugate(q) == [x |-> -q.x, y |-> -q.y, z |-> -q.z, w |-> q.w]

\* The quaternion is taken as it is, so the vector comes out turned and scaled
\* by Norm2(q).  The quaternions of tf2 have norm 1: one of them, multiplied
\* by any factor until its parts are integers, gives the same vector counted
\* in units of 1 / Norm2(q).
Rotate(v, q) ==
  LET r == Multiply(Multiply(q, [x |-> v.x, y |-> v.y, z |-> v.z, w |-> 0]), Conjugate(q))
  IN  [x |-> r.x, y |-> r.y, z |-> r.z]

\* _normalize_quaternion_xyzw, up to the length: the zero quaternion becomes
\* the identity.
Direction(q) ==
  IF Norm2(q) = 0 THEN [x |-> 0, y |-> 0, z |-> 0, w |-> 1] ELSE q

-----------------------------------------------------------------------------
(* Matrices.  Entry rc is in row r and column c and counted in units of    *)
(* 1 / scale.                                                              *)

\* quaternion_to_rotation_matrix_xyzw.
RotationMatrix(q) ==
  LET u == Direction(q)  n == Norm2(u)
      x == u.x  y == u.y  z == u.z  w == u.w
  IN  [ scale |-> n,
        xx |-> n - 2 * (y*y + z*z), xy |-> 2 * (x*y - z*w),     xz |-> 2 * (x*z + y*w),
        yx |-> 2 * (x*y + z*w),     yy |-> n - 2 * (x*x + z*z), yz |-> 2 * (y*z - x*w),
        zx |-> 2 * (x*z - y*w),     zy |-> 2 * (y*z + x*w),     zz |-> n - 2 * (x*x + y*y) ]

Apply(m, v) ==
  [ x |-> m.xx * v.x + m.xy * v.y + m.xz * v.z,
    y |-> m.yx * v.x + m.yy * v.y + m.yz * v.z,
    z |-> m.zx * v.x + m.zy * v.y + m.zz * v.z ]

Trace(m) == m.xx + m.yy + m.zz

\* rotation_matrix_to_quaternion_xyzw, up to the length: its four branches,
\* each multiplied by the positive divisor that the code calls scale.
QuaternionOf(m) ==
  IF Trace(m) > 0
  THEN [ x |-> m.zy - m.yz, y |-> m.xz - m.zx, z |-> m.yx - m.xy, w |-> Trace(m) + m.scale ]
  ELSE IF m.xx >= m.yy /\ m.xx >= m.zz
  THEN [ x |-> m.scale + m.xx - m.yy - m.zz, y |-> m.xy + m.yx, z |-> m.xz + m.zx, w |-> m.zy - m.yz ]
  ELSE IF m.yy >= m.zz
  THEN [ x |-> m.xy + m.yx, y |-> m.scale + m.yy - m.xx - m.zz, z |-> m.yz + m.zy, w |-> m.xz - m.zx ]
  ELSE [ x |-> m.xz + m.zx, y |-> m.yz + m.zy, z |-> m.scale + m.zz - m.xx - m.yy, w |-> m.yx - m.xy ]

\* One of the 3x3 blocks of the covariance is multiplied by the rotation from
\* both sides (rotate_covariance_6x6_xyzw): its rows are rotated, and then
\* its columns.
FromRows(u, v, t) ==
  [ xx |-> u.x, xy |-> u.y, xz |-> u.z,
    yx |-> v.x, yy |-> v.y, yz |-> v.z,
    zx |-> t.x, zy |-> t.y, zz |-> t.z ]

Transposed(b) ==
  FromRows([x |-> b.xx, y |-> b.yx, z |-> b.zx],
           [x |-> b.xy, y |-> b.yy, z |-> b.zy],
           [x |-> b.xz, y |-> b.yz, z |-> b.zz])

RotateRows(m, b) ==
  FromRows(Apply(m, [x |-> b.xx, y |-> b.xy, z |-> b.xz]),
           Apply(m, [x |-> b.yx, y |-> b.yy, z |-> b.yz]),
           Apply(m, [x |-> b.zx, y |-> b.zy, z |-> b.zz]))

RotateBlock(b, q) ==
  LET m == RotationMatrix(q)
  IN  Transposed(RotateRows(m, Transposed(RotateRows(m, b))))

-----------------------------------------------------------------------------
(* The axes of a point cloud: eigenvectors come with any sign.             *)

Magnitude(n) == IF n < 0 THEN -n ELSE n

\* The component that argmax of the magnitudes finds.
Dominant(v) ==
  IF Magnitude(v.x) >= Magnitude(v.y) /\ Magnitude(v.x) >= Magnitude(v.z) THEN v.x
  ELSE IF Magnitude(v.y) >= Magnitude(v.z) THEN v.y ELSE v.z

Oriented(v) == IF Dominant(v) < 0 THEN Negated(v) ELSE v

Determinant(a, b, c) ==
  a.x * (b.y * c.z - b.z * c.y) - a.y * (b.x * c.z - b.z * c.x) + a.z * (b.x * c.y - b.y * c.x)

\* The end of _right_handed_principal_axes, for the eigenvectors in the order
\* of their eigenvalues: the third axis as it is returned.
ThirdAxis(a, b, c) ==
  IF Determinant(Oriented(a), Oriented(b), Oriented(c)) < 0
  THEN Negated(Oriented(c)) ELSE Oriented(c)

-----------------------------------------------------------------------------
(* Order statistics.                                                       *)

\* v is the k-th smallest of the readings.
IsRanked(pixels, z, k, v) ==
  /\ Cardinality({p \in pixels : z[p] < v}) < k
  /\ k <= Cardinality({p \in pixels : z[p] <= v})

Ranked(pixels, z, k) == CHOOSE v \in {z[p] : p \in pixels} : IsRanked(pixels, z, k, v)

\* np.median, twice.
MedianTwice(pixels, z) ==
  LET n == Cardinality(pixels)
  IN  Ranked(pixels, z, (n + 1) \div 2) + Ranked(pixels, z, n \div 2 + 1)

\* np.percentile(z, 10), ten times: linear between the two nearest ranks.
TenthPercentileTenfold(pixels, z) ==
  LET n    == Cardinality(pixels)
      rank == (n - 1) \div 10 + 1
      rest == (n - 1) % 10
      next == IF rank < n THEN rank + 1 ELSE n
  IN  (10 - rest) * Ranked(pixels, z, rank) + rest * Ranked(pixels, z, next)

-----------------------------------------------------------------------------
(* back_project_mask.                                                      *)

Valid(z) == {p \in DOMAIN z : z[p] > 0}

Reachable(z, maxDepth) ==
  IF maxDepth > 0 THEN {p \in Valid(z) : z[p] <= maxDepth} ELSE Valid(z)

\* Mutant: what is nearer than the band is kept, but what is behind it too.
NotInFront(z, maxDepth, band) ==
  LET pixels == Reachable(z, maxDepth)
      near   == TenthPercentileTenfold(pixels, z)
  IN  IF band > 0 /\ pixels # {}
      THEN {p \in pixels : near - 10 * z[p] <= 10 * band}
      ELSE pixels

\* The cluster around the tenth percentile.
Gated(z, maxDepth, band) ==
  LET pixels == Reachable(z, maxDepth)
      near   == TenthPercentileTenfold(pixels, z)
  IN  IF band > 0 /\ pixels # {}
      THEN {p \in pixels : Magnitude(10 * z[p] - near) <= 10 * band}
      ELSE pixels

\* The pixels at n evenly spaced places of the list of pixels (np.linspace
\* and the cut to an integer).
Thinned(pixels, n) ==
  IF Cardinality(pixels) <= n THEN pixels
  ELSE {p \in pixels :
          LET place == Cardinality({o \in pixels : o < p})
          IN  \E i \in 0..(n - 1) :
                place = IF n = 1 THEN 0 ELSE (i * (Cardinality(pixels) - 1)) \div (n - 1)}

BackProjected(z, maxDepth, band, maxPoints) == Thinned(Gated(z, maxDepth, band), maxPoints)

-----------------------------------------------------------------------------
(* robust_filter_points.                                                   *)

\* Twice the distance of each point from the center.
OffCenterTwice(pixels, z) ==
  LET center == MedianTwice(pixels, z) IN [p \in pixels |-> Magnitude(2 * z[p] - center)]

\* Four times the deviation of each distance from their median.
DeviationFourfold(pixels, z) ==
  LET off    == OffCenterTwice(pixels, z)
      median == MedianTwice(pixels, off)
  IN  [p \in pixels |-> Magnitude(2 * off[p] - median)]

\* 1.4826 * 4.5 = 6.6717 times the median deviation is what a point may be
\* farther than the median distance.
WithinRadius(pixels, z, floor) ==
  LET off    == OffCenterTwice(pixels, z)
      median == MedianTwice(pixels, off)
      mad    == MedianTwice(pixels, DeviationFourfold(pixels, z))
  IN  {p \in pixels : \/ 10000 * (4 * off[p] - 2 * median) <= 66717 * mad
                      \/ off[p] <= 2 * floor}

Filtered(pixels, z, floor) ==
  LET kept == WithinRadius(pixels, z, floor)
  IN  IF Cardinality(pixels) < 4 \/ Cardinality(kept) < 3 THEN pixels ELSE kept

=============================================================================
