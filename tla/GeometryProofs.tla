--------------------------- MODULE GeometryProofs ---------------------------
(***************************************************************************)
(* Theorems about the geometry of perception/geometry.py, for all          *)
(* integers: rotations are rigid and compose, whichever way they are       *)
(* written, and order statistics resist a minority of wrong readings.      *)
(***************************************************************************)
EXTENDS Geometry, FiniteSetTheorems, WellFoundedInduction, TLAPS

-----------------------------------------------------------------------------
(* Records by their parts, and what the operators make of them.            *)

Quaternion(a, b, c, d) == [x |-> a, y |-> b, z |-> c, w |-> d]
Vector(a, b, c)        == [x |-> a, y |-> b, z |-> c]

Turned(a, b, c, d, x, y, z) ==
  LET e == d*x + b*z - c*y  f == d*y - a*z + c*x
      g == d*z + a*y - b*x  h == -(a*x) - b*y - c*z
  IN  Vector(h*(-a) + e*d + f*(-c) - g*(-b),
             h*(-b) - e*(-c) + f*d + g*(-a),
             h*(-c) + e*(-b) - f*(-a) + g*d)

Entries(a, b, c, d) ==
  LET n == a*a + b*b + c*c + d*d
  IN  [ scale |-> n,
        xx |-> n - 2*(b*b + c*c), xy |-> 2*(a*b - c*d), xz |-> 2*(a*c + b*d),
        yx |-> 2*(a*b + c*d), yy |-> n - 2*(a*a + c*c), yz |-> 2*(b*c - a*d),
        zx |-> 2*(a*c - b*d), zy |-> 2*(b*c + a*d), zz |-> n - 2*(a*a + b*b) ]

LEMMA QuaternionParts ==
  ASSUME NEW q \in Quaternions
  PROVE  /\ q.x \in Int /\ q.y \in Int /\ q.z \in Int /\ q.w \in Int
         /\ q = Quaternion(q.x, q.y, q.z, q.w)
BY DEF Quaternions, Quaternion

LEMMA VectorParts ==
  ASSUME NEW v \in Vectors
  PROVE  /\ v.x \in Int /\ v.y \in Int /\ v.z \in Int
         /\ v = Vector(v.x, v.y, v.z)
BY DEF Vectors, Vector

LEMMA RotateParts ==
  ASSUME NEW q \in Quaternions, NEW v \in Vectors
  PROVE  Rotate(v, q) = Turned(q.x, q.y, q.z, q.w, v.x, v.y, v.z)
<1> DEFINE a == q.x  b == q.y  c == q.z  d == q.w  x == v.x  y == v.y  z == v.z
           e == d*x + b*z - c*y
           f == d*y - a*z + c*x
           g == d*z + a*y - b*x
           h == -(a*x) - b*y - c*z
<1>1. /\ a \in Int /\ b \in Int /\ c \in Int /\ d \in Int
      /\ x \in Int /\ y \in Int /\ z \in Int
  BY QuaternionParts, VectorParts
<1>2. Multiply(q, Quaternion(x, y, z, 0)) = Quaternion(e, f, g, h)
  BY <1>1 DEF Multiply, Quaternion
<1>3. e \in Int /\ f \in Int /\ g \in Int /\ h \in Int
  BY <1>1
<1> HIDE DEF e, f, g, h
<1>4. Multiply(Quaternion(e, f, g, h), Conjugate(q)) =
        Quaternion(h*(-a) + e*d + f*(-c) - g*(-b),
                   h*(-b) - e*(-c) + f*d + g*(-a),
                   h*(-c) + e*(-b) - f*(-a) + g*d,
                   h*d - e*(-a) - f*(-b) - g*(-c))
  BY <1>1, <1>3 DEF Multiply, Conjugate, Quaternion
<1>5. Rotate(v, q) =
        LET r == Multiply(Quaternion(e, f, g, h), Conjugate(q)) IN Vector(r.x, r.y, r.z)
  BY <1>2 DEF Rotate, Vector, Quaternion
<1> QED
  BY <1>4, <1>5 DEF Quaternion, Vector, Turned, e, f, g, h

LEMMA MatrixParts ==
  ASSUME NEW q \in Quaternions, Norm2(q) # 0
  PROVE  RotationMatrix(q) = Entries(q.x, q.y, q.z, q.w)
<1>1. Direction(q) = q
  BY DEF Direction
<1> QED
  BY <1>1, Zenon DEF RotationMatrix, Entries, Norm2

\* Applying the matrix of a quaternion is turning by its products.
LEMMA ApplyParts ==
  ASSUME NEW q \in Quaternions, NEW v \in Vectors
  PROVE  Apply(Entries(q.x, q.y, q.z, q.w), v) = Turned(q.x, q.y, q.z, q.w, v.x, v.y, v.z)
<1> DEFINE a == q.x  b == q.y  c == q.z  d == q.w  x == v.x  y == v.y  z == v.z
           n == a*a + b*b + c*c + d*d
           e == d*x + b*z - c*y
           f == d*y - a*z + c*x
           g == d*z + a*y - b*x
           h == -(a*x) - b*y - c*z
<1>1. /\ a \in Int /\ b \in Int /\ c \in Int /\ d \in Int
      /\ x \in Int /\ y \in Int /\ z \in Int
  BY QuaternionParts, VectorParts
<1> HIDE DEF a, b, c, d, x, y, z
<1>2. h*(-a) + e*d + f*(-c) - g*(-b) =
        (n - 2*(b*b + c*c))*x + 2*(a*b - c*d)*y + 2*(a*c + b*d)*z
  BY <1>1
<1>3. h*(-b) - e*(-c) + f*d + g*(-a) =
        2*(a*b + c*d)*x + (n - 2*(a*a + c*c))*y + 2*(b*c - a*d)*z
  BY <1>1
<1>4. h*(-c) + e*(-b) - f*(-a) + g*d =
        2*(a*c - b*d)*x + 2*(b*c + a*d)*y + (n - 2*(a*a + b*b))*z
  BY <1>1
<1> QED
  BY <1>2, <1>3, <1>4 DEF Apply, Entries, Vector, Turned, a, b, c, d, x, y, z

-----------------------------------------------------------------------------
(* Rotations.                                                              *)

\* Rotating by the quaternion product is applying the rotation matrix, times
\* the same scale (geometry.py:244-255, 395-415): positions and covariances
\* are turned by the same rotation.
THEOREM RotateIsMatrix ==
  ASSUME NEW q \in Quaternions, NEW v \in Vectors, Norm2(q) # 0
  PROVE  Rotate(v, q) = Apply(RotationMatrix(q), v)
BY RotateParts, MatrixParts, ApplyParts

LEMMA RotateType ==
  ASSUME NEW q \in Quaternions, NEW v \in Vectors
  PROVE  Rotate(v, q) \in Vectors
<1> DEFINE a == q.x  b == q.y  c == q.z  d == q.w  x == v.x  y == v.y  z == v.z
           e == d*x + b*z - c*y
           f == d*y - a*z + c*x
           g == d*z + a*y - b*x
           h == -(a*x) - b*y - c*z
<1>1. /\ a \in Int /\ b \in Int /\ c \in Int /\ d \in Int
      /\ x \in Int /\ y \in Int /\ z \in Int
  BY QuaternionParts, VectorParts
<1>2. e \in Int /\ f \in Int /\ g \in Int /\ h \in Int
  BY <1>1
<1> HIDE DEF e, f, g, h
<1>3. Vector(h*(-a) + e*d + f*(-c) - g*(-b),
             h*(-b) - e*(-c) + f*d + g*(-a),
             h*(-c) + e*(-b) - f*(-a) + g*d) \in Vectors
  BY <1>1, <1>2 DEF Vector, Vectors
<1> QED
  BY <1>3, RotateParts DEF Turned, e, f, g, h

LEMMA RotateDifference ==
  ASSUME NEW q \in Quaternions, NEW u \in Vectors, NEW v \in Vectors, NEW t \in Vectors
  PROVE  /\ Minus(u, v) \in Vectors
         /\ Minus(Plus(Rotate(u, q), t), Plus(Rotate(v, q), t)) = Rotate(Minus(u, v), q)
<1>1. Minus(u, v) \in Vectors
  BY VectorParts DEF Minus, Vectors
<1>2. Minus(Plus(Rotate(u, q), t), Plus(Rotate(v, q), t)) = Minus(Rotate(u, q), Rotate(v, q))
  BY RotateType, VectorParts DEF Minus, Plus
<1>3. Minus(Rotate(u, q), Rotate(v, q)) = Rotate(Minus(u, v), q)
  <2> DEFINE a == q.x  b == q.y  c == q.z  d == q.w
             x == u.x  y == u.y  z == u.z  k == v.x  l == v.y  m == v.z
  <2>1. /\ a \in Int /\ b \in Int /\ c \in Int /\ d \in Int
        /\ x \in Int /\ y \in Int /\ z \in Int /\ k \in Int /\ l \in Int /\ m \in Int
    BY QuaternionParts, VectorParts
  <2> HIDE DEF a, b, c, d, x, y, z, k, l, m
  <2>2. Minus(Turned(a, b, c, d, x, y, z), Turned(a, b, c, d, k, l, m)) =
          Turned(a, b, c, d, x - k, y - l, z - m)
    BY <2>1 DEF Minus, Turned, Vector
  <2> QED
    BY <1>1, <2>2, RotateParts DEF Minus, a, b, c, d, x, y, z, k, l, m
<1> QED
  BY <1>1, <1>2, <1>3

LEMMA RotateLength ==
  ASSUME NEW q \in Quaternions, NEW v \in Vectors
  PROVE  Dot(Rotate(v, q), Rotate(v, q)) = Norm2(q) * Norm2(q) * Dot(v, v)
<1> DEFINE a == q.x  b == q.y  c == q.z  d == q.w  x == v.x  y == v.y  z == v.z
<1>1. /\ a \in Int /\ b \in Int /\ c \in Int /\ d \in Int
      /\ x \in Int /\ y \in Int /\ z \in Int
  BY QuaternionParts, VectorParts
<1> HIDE DEF a, b, c, d, x, y, z
<1>2. Dot(Turned(a, b, c, d, x, y, z), Turned(a, b, c, d, x, y, z)) =
        (a*a + b*b + c*c + d*d) * (a*a + b*b + c*c + d*d) * (x*x + y*y + z*z)
  BY <1>1 DEF Dot, Turned, Vector
<1> QED
  BY <1>2, RotateParts DEF Norm2, Dot, a, b, c, d, x, y, z

\* Lifting to the target frame is rigid, however the camera is turned: two
\* poses are as far apart in the target frame, where they are counted in units
\* of 1 / Norm2(q), as in the camera's (perception/node.py:449-460).
THEOREM LiftIsRigid ==
  ASSUME NEW q \in Quaternions,
         NEW u \in Vectors, NEW v \in Vectors, NEW t \in Vectors
  PROVE  Apart2(Plus(Rotate(u, q), t), Plus(Rotate(v, q), t)) =
           Norm2(q) * Norm2(q) * Apart2(u, v)
<1>1. Minus(u, v) \in Vectors
  BY RotateDifference
<1>2. Dot(Rotate(Minus(u, v), q), Rotate(Minus(u, v), q)) =
        Norm2(q) * Norm2(q) * Dot(Minus(u, v), Minus(u, v))
  BY <1>1, RotateLength
<1> QED
  BY <1>2, RotateDifference DEF Apart2

LEMMA MultiplyType ==
  ASSUME NEW p \in Quaternions, NEW q \in Quaternions
  PROVE  Multiply(p, q) \in Quaternions /\ Conjugate(q) \in Quaternions
BY QuaternionParts DEF Multiply, Conjugate, Quaternions

LEMMA MultiplyAssociates ==
  ASSUME NEW p \in Quaternions, NEW q \in Quaternions, NEW r \in Quaternions
  PROVE  Multiply(Multiply(p, q), r) = Multiply(p, Multiply(q, r))
BY QuaternionParts DEF Multiply

LEMMA ConjugateOfProduct ==
  ASSUME NEW p \in Quaternions, NEW q \in Quaternions
  PROVE  Conjugate(Multiply(p, q)) = Multiply(Conjugate(q), Conjugate(p))
BY QuaternionParts DEF Multiply, Conjugate

Pure(v)       == Quaternion(v.x, v.y, v.z, 0)
Sandwich(p, q) == Multiply(Multiply(q, p), Conjugate(q))

\* A product around a pure quaternion is pure, so that rotating loses nothing
\* when it drops the last part.
LEMMA SandwichIsPure ==
  ASSUME NEW q \in Quaternions, NEW v \in Vectors
  PROVE  /\ Pure(v) \in Quaternions
         /\ Sandwich(Pure(v), q) = Pure(Rotate(v, q))
<1>1. Pure(v) \in Quaternions
  BY VectorParts DEF Pure, Quaternion, Quaternions
<1>2. Sandwich(Pure(v), q) \in Quaternions
  BY <1>1, MultiplyType DEF Sandwich
<1>3. Sandwich(Pure(v), q).w = 0
  BY QuaternionParts, VectorParts DEF Sandwich, Pure, Quaternion, Multiply, Conjugate
<1>4. Rotate(v, q) = Vector(Sandwich(Pure(v), q).x, Sandwich(Pure(v), q).y, Sandwich(Pure(v), q).z)
  BY Zenon DEF Rotate, Sandwich, Pure, Quaternion, Vector
<1>5. Pure(Rotate(v, q)) =
        Quaternion(Sandwich(Pure(v), q).x, Sandwich(Pure(v), q).y, Sandwich(Pure(v), q).z, 0)
  BY <1>4 DEF Pure, Vector, Quaternion
<1> QED
  BY <1>1, <1>2, <1>3, <1>5, QuaternionParts

\* Two rotations one after the other are the rotation by the product in the
\* order in which the node multiplies: a pose that is lifted with its
\* orientation multiplied from the left turns as one body
\* (perception/node.py:449-460).
THEOREM RotationsCompose ==
  ASSUME NEW p \in Quaternions, NEW q \in Quaternions, NEW v \in Vectors
  PROVE  Rotate(Rotate(v, q), p) = Rotate(v, Multiply(p, q))
<1>1. Multiply(p, q) \in Quaternions /\ Rotate(v, q) \in Vectors /\ Pure(v) \in Quaternions
  BY MultiplyType, RotateType, SandwichIsPure
<1>2. Sandwich(Sandwich(Pure(v), q), p) = Sandwich(Pure(v), Multiply(p, q))
  <2> DEFINE u == Pure(v)  cp == Conjugate(p)  cq == Conjugate(q)
  <2>1. cp \in Quaternions /\ cq \in Quaternions /\ u \in Quaternions
    BY <1>1, MultiplyType
  <2>2. Multiply(q, u) \in Quaternions /\ Multiply(cq, cp) \in Quaternions
        /\ Multiply(Multiply(q, u), cq) \in Quaternions
    BY <2>1, MultiplyType
  <2> HIDE DEF u, cp, cq
  <2>3. Multiply(p, Multiply(Multiply(q, u), cq)) = Multiply(Multiply(p, Multiply(q, u)), cq)
    BY <2>1, <2>2, MultiplyAssociates
  <2>4. Multiply(p, Multiply(q, u)) = Multiply(Multiply(p, q), u)
    BY <2>1, MultiplyAssociates
  <2>5. Multiply(Multiply(p, q), u) \in Quaternions
    BY <1>1, <2>1, MultiplyType
  <2>6. Multiply(Multiply(Multiply(Multiply(p, q), u), cq), cp) =
          Multiply(Multiply(Multiply(p, q), u), Multiply(cq, cp))
    BY <2>1, <2>5, MultiplyAssociates
  <2>7. Conjugate(Multiply(p, q)) = Multiply(cq, cp)
    BY ConjugateOfProduct DEF cp, cq
  <2> QED
    BY <2>3, <2>4, <2>6, <2>7 DEF Sandwich, u, cp, cq
<1>3. Pure(Rotate(Rotate(v, q), p)) = Pure(Rotate(v, Multiply(p, q)))
  BY <1>1, <1>2, SandwichIsPure
<1>4. Rotate(Rotate(v, q), p) \in Vectors /\ Rotate(v, Multiply(p, q)) \in Vectors
  BY <1>1, RotateType
<1> QED
  BY <1>3, <1>4 DEF Pure, Quaternion, Vectors

\* What a displacement of the points contributes to the covariance: its outer
\* product.
Outer(u, v) == FromRows(Times(u.x, v), Times(u.y, v), Times(u.z, v))

IsMatrix(m) ==
  /\ m.xx \in Int /\ m.xy \in Int /\ m.xz \in Int
  /\ m.yx \in Int /\ m.yy \in Int /\ m.yz \in Int
  /\ m.zx \in Int /\ m.zy \in Int /\ m.zz \in Int

LEMMA RowsAreRotated ==
  ASSUME NEW m, NEW r \in Vectors, NEW s \in Vectors, NEW t \in Vectors
  PROVE  RotateRows(m, FromRows(r, s, t)) = FromRows(Apply(m, r), Apply(m, s), Apply(m, t))
<1> DEFINE b == FromRows(r, s, t)
<1>1. /\ b.xx = r.x /\ b.xy = r.y /\ b.xz = r.z
      /\ b.yx = s.x /\ b.yy = s.y /\ b.yz = s.z
      /\ b.zx = t.x /\ b.zy = t.y /\ b.zz = t.z
  BY DEF FromRows
<1> HIDE DEF b
<1>2. /\ [x |-> b.xx, y |-> b.xy, z |-> b.xz] = r
      /\ [x |-> b.yx, y |-> b.yy, z |-> b.yz] = s
      /\ [x |-> b.zx, y |-> b.zy, z |-> b.zz] = t
  BY <1>1, VectorParts DEF Vector
<1>3. RotateRows(m, b) = FromRows(Apply(m, r), Apply(m, s), Apply(m, t))
  BY <1>2, Zenon DEF RotateRows
<1> QED
  BY <1>3 DEF b

LEMMA ApplyIsLinear ==
  ASSUME NEW m, IsMatrix(m), NEW c \in Int, NEW v \in Vectors
  PROVE  /\ Apply(m, v) \in Vectors
         /\ Apply(m, Times(c, v)) = Times(c, Apply(m, v))
         /\ Times(c, v) \in Vectors
<1> DEFINE k == v.x  l == v.y  n == v.z
<1>1. v = Vector(k, l, n) /\ k \in Int /\ l \in Int /\ n \in Int
  BY VectorParts
<1>2. Times(c, v) = Vector(c * k, c * l, c * n)
  BY DEF Times, Vector
<1>3. /\ m.xx * (c * k) + m.xy * (c * l) + m.xz * (c * n) = c * (m.xx * k + m.xy * l + m.xz * n)
      /\ m.yx * (c * k) + m.yy * (c * l) + m.yz * (c * n) = c * (m.yx * k + m.yy * l + m.yz * n)
      /\ m.zx * (c * k) + m.zy * (c * l) + m.zz * (c * n) = c * (m.zx * k + m.zy * l + m.zz * n)
  <2> HIDE DEF k, l, n
  <2> QED
    BY <1>1 DEF IsMatrix
<1>4. /\ c * k \in Int /\ c * l \in Int /\ c * n \in Int
      /\ m.xx * k + m.xy * l + m.xz * n \in Int
      /\ m.yx * k + m.yy * l + m.yz * n \in Int
      /\ m.zx * k + m.zy * l + m.zz * n \in Int
  BY <1>1 DEF IsMatrix
<1> HIDE DEF k, l, n
<1>5. Apply(m, v) = Vector(m.xx * k + m.xy * l + m.xz * n,
                           m.yx * k + m.yy * l + m.yz * n,
                           m.zx * k + m.zy * l + m.zz * n)
  BY <1>1 DEF Apply, Vector
<1>6. Apply(m, Times(c, v)) = Times(c, Apply(m, v))
  BY <1>2, <1>3, <1>5 DEF Apply, Times, Vector
<1> QED
  BY <1>2, <1>4, <1>5, <1>6 DEF Vector, Vectors

LEMMA OuterTransposed ==
  ASSUME NEW u \in Vectors, NEW v \in Vectors
  PROVE  Transposed(Outer(u, v)) = Outer(v, u)
<1> DEFINE o == Outer(u, v)
<1>1. /\ o.xx = v.x * u.x /\ o.yx = v.x * u.y /\ o.zx = v.x * u.z
      /\ o.xy = v.y * u.x /\ o.yy = v.y * u.y /\ o.zy = v.y * u.z
      /\ o.xz = v.z * u.x /\ o.yz = v.z * u.y /\ o.zz = v.z * u.z
  BY VectorParts DEF Outer, Times, FromRows
<1> HIDE DEF o
<1>2. Transposed(o) = FromRows(Times(v.x, u), Times(v.y, u), Times(v.z, u))
  BY <1>1, Zenon DEF Transposed, Times
<1>3. Outer(v, u) = FromRows(Times(v.x, u), Times(v.y, u), Times(v.z, u))
  BY Zenon DEF Outer
<1>4. Transposed(o) = Outer(v, u)
  BY <1>2, <1>3, Zenon
<1> QED
  BY <1>4 DEF o

LEMMA OuterRotated ==
  ASSUME NEW m, IsMatrix(m), NEW u \in Vectors, NEW v \in Vectors
  PROVE  RotateRows(m, Outer(u, v)) = Outer(u, Apply(m, v))
<1>1. /\ Times(u.x, v) \in Vectors /\ Times(u.y, v) \in Vectors /\ Times(u.z, v) \in Vectors
      /\ Apply(m, Times(u.x, v)) = Times(u.x, Apply(m, v))
      /\ Apply(m, Times(u.y, v)) = Times(u.y, Apply(m, v))
      /\ Apply(m, Times(u.z, v)) = Times(u.z, Apply(m, v))
  BY VectorParts, ApplyIsLinear
<1>2. /\ Outer(u, v) = FromRows(Times(u.x, v), Times(u.y, v), Times(u.z, v))
      /\ Outer(u, Apply(m, v)) =
           FromRows(Times(u.x, Apply(m, v)), Times(u.y, Apply(m, v)), Times(u.z, Apply(m, v)))
  BY Zenon DEF Outer
<1> DEFINE r == Times(u.x, v)  s == Times(u.y, v)  t == Times(u.z, v)
<1> HIDE DEF r, s, t
<1>3. RotateRows(m, FromRows(r, s, t)) = FromRows(Apply(m, r), Apply(m, s), Apply(m, t))
  BY <1>1, RowsAreRotated DEF r, s, t
<1> QED
  BY <1>1, <1>2, <1>3, Zenon DEF r, s, t

\* The covariance turns with the points: turning the outer product of two
\* displacements is taking the outer product of the turned displacements.
\* Every block of a covariance is a sum of such products
\* (geometry.py:405-415).
THEOREM CovarianceFollowsPoints ==
  ASSUME NEW q \in Quaternions, Norm2(q) # 0, NEW u \in Vectors, NEW v \in Vectors
  PROVE  RotateBlock(Outer(u, v), q) = Outer(Rotate(u, q), Rotate(v, q))
<1> DEFINE m == RotationMatrix(q)  s == Rotate(v, q)  t == Rotate(u, q)
<1>1. IsMatrix(m)
  BY MatrixParts, QuaternionParts DEF Entries, IsMatrix
<1>2. t = Apply(m, u) /\ s = Apply(m, v) /\ s \in Vectors /\ t \in Vectors
  BY RotateIsMatrix, RotateType
<1>3. RotateBlock(Outer(u, v), q) = Transposed(RotateRows(m, Transposed(RotateRows(m, Outer(u, v)))))
  BY Zenon DEF RotateBlock
<1> HIDE DEF m, s, t
<1>4. RotateRows(m, Outer(u, v)) = Outer(u, s)
  BY <1>1, <1>2, OuterRotated
<1>5. RotateRows(m, Outer(s, u)) = Outer(s, t)
  BY <1>1, <1>2, OuterRotated
<1>6. Transposed(Outer(u, s)) = Outer(s, u) /\ Transposed(Outer(s, t)) = Outer(t, s)
  BY <1>2, OuterTransposed
<1>7. RotateBlock(Outer(u, v), q) = Outer(t, s)
  BY <1>3, <1>4, <1>5, <1>6, Zenon
<1> QED
  BY <1>7 DEF s, t

-----------------------------------------------------------------------------
(* From a matrix back to a quaternion.                                     *)

Scaled(k, q) == [x |-> k * q.x, y |-> k * q.y, z |-> k * q.z, w |-> k * q.w]

\* rotation_matrix_to_quaternion_xyzw undoes quaternion_to_rotation_matrix:
\* whichever of its four branches is taken, the result has the direction of
\* the quaternion or the opposite one, which is the same rotation, and is not
\* zero, so that no branch divides by zero (geometry.py:199-255).
THEOREM QuaternionSurvives ==
  ASSUME NEW q \in Quaternions, Norm2(q) # 0
  PROVE  \E k \in Int \ {0} : QuaternionOf(RotationMatrix(q)) = Scaled(k, q)
<1> DEFINE a == q.x  b == q.y  c == q.z  d == q.w  m == Entries(a, b, c, d)
           n == a*a + b*b + c*c + d*d
<1>1. a \in Int /\ b \in Int /\ c \in Int /\ d \in Int
  BY QuaternionParts
<1>2. RotationMatrix(q) = m /\ n # 0
  BY MatrixParts DEF Norm2
<1> HIDE DEF a, b, c, d
<1>3. /\ Trace(m) = 4*(d*d) - n
      /\ m.xx - m.yy = 2*(a*a) - 2*(b*b)
      /\ m.xx - m.zz = 2*(a*a) - 2*(c*c)
      /\ m.yy - m.zz = 2*(b*b) - 2*(c*c)
  BY <1>1 DEF Trace, Entries
<1>4. /\ m.zy - m.yz = (4*d)*a /\ m.xz - m.zx = (4*d)*b /\ m.yx - m.xy = (4*d)*c
      /\ Trace(m) + m.scale = (4*d)*d
  BY <1>1 DEF Trace, Entries
<1>5. /\ m.scale + m.xx - m.yy - m.zz = (4*a)*a /\ m.xy + m.yx = (4*a)*b
      /\ m.xz + m.zx = (4*a)*c /\ m.zy - m.yz = (4*a)*d
  BY <1>1 DEF Entries
<1>6. /\ m.xy + m.yx = (4*b)*a /\ m.scale + m.yy - m.xx - m.zz = (4*b)*b
      /\ m.yz + m.zy = (4*b)*c /\ m.xz - m.zx = (4*b)*d
  BY <1>1 DEF Entries
<1>7. /\ m.xz + m.zx = (4*c)*a /\ m.yz + m.zy = (4*c)*b
      /\ m.scale + m.zz - m.xx - m.yy = (4*c)*c /\ m.yx - m.xy = (4*c)*d
  BY <1>1 DEF Entries
<1>8. /\ n = a*a + b*b + c*c + d*d
      /\ a*a \in Nat /\ b*b \in Nat /\ c*c \in Nat /\ d*d \in Nat
      /\ (a = 0 => a*a = 0) /\ (b = 0 => b*b = 0) /\ (c = 0 => c*c = 0) /\ (d = 0 => d*d = 0)
  BY <1>1
<1>9. /\ m.xx - m.yy \in Int /\ m.xx - m.zz \in Int /\ m.yy - m.zz \in Int
      /\ m.xx \in Int /\ m.yy \in Int /\ m.zz \in Int
  BY <1>1 DEF Entries
<1> DEFINE r == QuaternionOf(m)
<1> HIDE DEF m, n
<1>a. CASE Trace(m) > 0
  <2>1. 4*d \in Int \ {0}
    BY <1>1, <1>2, <1>3, <1>8, <1>a
  <2>2. r = Scaled(4*d, q)
    BY <1>4, <1>a DEF QuaternionOf, Scaled, a, b, c, d
  <2> QED
    BY <1>2, <2>1, <2>2
<1>b. CASE ~(Trace(m) > 0) /\ m.xx >= m.yy /\ m.xx >= m.zz
  <2>1. 4*a \in Int \ {0}
    BY <1>1, <1>2, <1>3, <1>8, <1>9, <1>b
  <2>2. r = Scaled(4*a, q)
    BY <1>5, <1>b DEF QuaternionOf, Scaled, a, b, c, d
  <2> QED
    BY <1>2, <2>1, <2>2
<1>c. CASE ~(Trace(m) > 0) /\ ~(m.xx >= m.yy /\ m.xx >= m.zz) /\ m.yy >= m.zz
  <2>1. 4*b \in Int \ {0}
    BY <1>1, <1>2, <1>3, <1>8, <1>9, <1>c
  <2>2. r = Scaled(4*b, q)
    BY <1>6, <1>c DEF QuaternionOf, Scaled, a, b, c, d
  <2> QED
    BY <1>2, <2>1, <2>2
<1>d. CASE ~(Trace(m) > 0) /\ ~(m.xx >= m.yy /\ m.xx >= m.zz) /\ ~(m.yy >= m.zz)
  <2>1. 4*c \in Int \ {0}
    BY <1>1, <1>2, <1>3, <1>8, <1>9, <1>d
  <2>2. r = Scaled(4*c, q)
    BY <1>7, <1>d DEF QuaternionOf, Scaled, a, b, c, d
  <2> QED
    BY <1>2, <2>1, <2>2
<1> QED
  BY <1>a, <1>b, <1>c, <1>d

-----------------------------------------------------------------------------
(* The axes of a point cloud.                                              *)

LEMMA OrientedIsSigned ==
  ASSUME NEW v \in Vectors
  PROVE  /\ Oriented(v) \in Vectors /\ Negated(v) \in Vectors
         /\ Oriented(v) = v \/ Oriented(v) = Negated(v)
BY VectorParts DEF Oriented, Negated, Vectors

LEMMA NegatedDeterminant ==
  ASSUME NEW a \in Vectors, NEW b \in Vectors, NEW c \in Vectors
  PROVE  /\ Determinant(a, b, c) \in Int
         /\ Determinant(Negated(a), b, c) = -Determinant(a, b, c)
         /\ Determinant(a, Negated(b), c) = -Determinant(a, b, c)
         /\ Determinant(a, b, Negated(c)) = -Determinant(a, b, c)
BY VectorParts DEF Determinant, Negated

\* Whatever signs the eigenvectors come with, the axes that are returned are
\* right-handed, so they are a rotation (geometry.py:258-276).
THEOREM AxesAreRightHanded ==
  ASSUME NEW a \in Vectors, NEW b \in Vectors, NEW c \in Vectors, Determinant(a, b, c) # 0
  PROVE  Determinant(Oriented(a), Oriented(b), ThirdAxis(a, b, c)) > 0
<1> DEFINE e == Oriented(a)  f == Oriented(b)  g == Oriented(c)
<1>1. /\ e \in Vectors /\ f \in Vectors /\ g \in Vectors
      /\ e = a \/ e = Negated(a)
      /\ f = b \/ f = Negated(b)
      /\ g = c \/ g = Negated(c)
  BY OrientedIsSigned
<1> HIDE DEF e, f, g
<1>2. /\ Determinant(a, b, c) \in Int
      /\ Determinant(Negated(a), b, c) = -Determinant(a, b, c)
  BY NegatedDeterminant
<1>3. Determinant(e, b, c) \in Int /\ Determinant(e, b, c) # 0
  BY <1>1, <1>2
<1>4. Determinant(e, Negated(b), c) = -Determinant(e, b, c)
  BY <1>1, NegatedDeterminant
<1>5. Determinant(e, f, c) \in Int /\ Determinant(e, f, c) # 0
  BY <1>1, <1>3, <1>4
<1>6. Determinant(e, f, Negated(c)) = -Determinant(e, f, c)
  BY <1>1, NegatedDeterminant
<1>7. Determinant(e, f, g) \in Int /\ Determinant(e, f, g) # 0
  BY <1>1, <1>5, <1>6
<1>8. Determinant(e, f, Negated(g)) = -Determinant(e, f, g)
  BY <1>1, NegatedDeterminant
<1>9. ThirdAxis(a, b, c) = IF Determinant(e, f, g) < 0 THEN Negated(g) ELSE g
  BY DEF ThirdAxis, e, f, g
<1>10. Determinant(e, f, ThirdAxis(a, b, c)) > 0
  BY <1>7, <1>8, <1>9
<1> QED
  BY <1>10 DEF e, f

\* And they do not depend on those signs: an object at rest does not turn
\* over between two frames because the eigenvectors changed their signs
\* (geometry.py:268-275).
THEOREM AxesIgnoreSigns ==
  ASSUME NEW v \in Vectors, Dominant(v) # 0
  PROVE  Oriented(Negated(v)) = Oriented(v)
<1> DEFINE x == v.x  y == v.y  z == v.z  u == Negated(v)
<1>1. /\ x \in Int /\ y \in Int /\ z \in Int /\ v = Vector(x, y, z)
      /\ u = Vector(-x, -y, -z)
  BY VectorParts DEF Negated, Vector
<1>2. /\ Magnitude(-x) = Magnitude(x) /\ Magnitude(-y) = Magnitude(y)
      /\ Magnitude(-z) = Magnitude(z)
  BY <1>1 DEF Magnitude
<1>3. u.x = -x /\ u.y = -y /\ u.z = -z
  BY <1>1 DEF Vector
<1>4. Dominant(v) \in Int
  BY <1>1 DEF Dominant
<1>5. Dominant(u) = -Dominant(v)
  BY <1>1, <1>2, <1>3 DEF Dominant
<1>6. Negated(u) = v
  BY <1>1, <1>3 DEF Negated, Vector
<1> QED
  BY <1>4, <1>5, <1>6 DEF Oriented

-----------------------------------------------------------------------------
(* Order statistics.                                                       *)

Readings(pixels, z, top) == IsFiniteSet(pixels) /\ \A p \in pixels : z[p] \in 0..top

AtMost(pixels, z, v) == {p \in pixels : z[p] <= v}
Below(pixels, z, v)  == {p \in pixels : z[p] < v}

LEMMA SubsetCardinality ==
  ASSUME NEW S, IsFiniteSet(S), NEW T, T \subseteq S
  PROVE  /\ IsFiniteSet(T) /\ Cardinality(T) \in Nat /\ Cardinality(S) \in Nat
         /\ Cardinality(T) <= Cardinality(S)
BY FS_Subset, FS_CardinalityType

LEMMA CountsAreFinite ==
  ASSUME NEW pixels, IsFiniteSet(pixels), NEW z, NEW v
  PROVE  /\ Cardinality(AtMost(pixels, z, v)) \in Nat
         /\ Cardinality(Below(pixels, z, v)) \in Nat
         /\ Cardinality(pixels) \in Nat
<1>1. AtMost(pixels, z, v) \subseteq pixels /\ Below(pixels, z, v) \subseteq pixels
  BY DEF AtMost, Below
<1> QED
  BY <1>1, SubsetCardinality

LEMMA LeastNatural ==
  ASSUME NEW T, T \subseteq Nat, T # {}
  PROVE  \E v \in T : \A w \in T : v <= w
<1>1. PICK v \in T : \A w \in T : ~ (<<w, v>> \in OpToRel(<, Nat))
  BY WFMin, NatLessThanWellFounded, Zenon
<1>2. \A w \in T : ~(w < v)
  BY <1>1 DEF OpToRel
<1> QED
  BY <1>2

\* Every rank is taken by a reading.
LEMMA RankedExists ==
  ASSUME NEW pixels, NEW z, NEW top \in Nat, Readings(pixels, z, top),
         NEW k \in Nat, 0 < k, k <= Cardinality(pixels)
  PROVE  /\ Ranked(pixels, z, k) \in {z[p] : p \in pixels}
         /\ IsRanked(pixels, z, k, Ranked(pixels, z, k))
<1> DEFINE T == {v \in Nat : k <= Cardinality(AtMost(pixels, z, v))}
<1>1. AtMost(pixels, z, top) = pixels
  BY DEF AtMost, Readings
<1>2. top \in T
  BY <1>1
<1>3. PICK v \in T : \A w \in T : v <= w
  BY <1>2, LeastNatural
<1>4. v \in Nat /\ k <= Cardinality(AtMost(pixels, z, v))
  BY <1>3
<1>5. Cardinality(Below(pixels, z, v)) < k
  <2>1. CASE v = 0
    <3>1. Below(pixels, z, v) = {}
      BY <2>1 DEF Below, Readings
    <3> QED
      BY <3>1, FS_EmptySet
  <2>2. CASE v # 0
    <3>1. v - 1 \in Nat /\ v - 1 \notin T
      BY <1>3, <1>4, <2>2
    <3>2. Below(pixels, z, v) = AtMost(pixels, z, v - 1)
      BY <1>4 DEF Below, AtMost, Readings
    <3>3. ~(k <= Cardinality(AtMost(pixels, z, v - 1)))
      BY <3>1
    <3>4. Cardinality(AtMost(pixels, z, v - 1)) \in Nat
      BY CountsAreFinite DEF Readings
    <3> QED
      BY <3>2, <3>3, <3>4
  <2> QED
    BY <2>1, <2>2
<1>6. IsRanked(pixels, z, k, v)
  BY <1>4, <1>5 DEF IsRanked, Below, AtMost
<1>7. v \in {z[p] : p \in pixels}
  <2>1. Below(pixels, z, v) # AtMost(pixels, z, v)
    <3>1. Cardinality(Below(pixels, z, v)) \in Nat
      BY CountsAreFinite DEF Readings
    <3> QED
      BY <1>4, <1>5, <3>1
  <2>2. \E p \in pixels : z[p] <= v /\ ~(z[p] < v)
    BY <2>1 DEF Below, AtMost, Readings
  <2> QED
    BY <1>4, <2>2 DEF Readings
<1> QED
  BY <1>6, <1>7 DEF Ranked

LEMMA RankedType ==
  ASSUME NEW pixels, NEW z, NEW top \in Nat, Readings(pixels, z, top),
         NEW k \in Nat, 0 < k, k <= Cardinality(pixels)
  PROVE  Ranked(pixels, z, k) \in 0..top
BY RankedExists DEF Readings

\* A rank above those that the readings outside can take is not below a.
LEMMA RankedAbove ==
  ASSUME NEW pixels, NEW z, NEW top \in Nat, Readings(pixels, z, top),
         NEW k \in Nat, 0 < k, k <= Cardinality(pixels),
         NEW a \in Nat, NEW inside, inside \subseteq pixels,
         \A p \in inside : a <= z[p],
         Cardinality(pixels) - Cardinality(inside) < k
  PROVE  a <= Ranked(pixels, z, k)
<1> DEFINE v == Ranked(pixels, z, k)
<1>1. v \in Nat /\ IsRanked(pixels, z, k, v) /\ IsFiniteSet(pixels)
  BY RankedExists, RankedType DEF Readings
<1> HIDE DEF v
<1>2. k <= Cardinality(AtMost(pixels, z, v))
  BY <1>1 DEF IsRanked, AtMost
<1>3. SUFFICES ASSUME v < a PROVE FALSE
  BY <1>1 DEF v
<1>4. AtMost(pixels, z, v) \subseteq pixels \ inside
  BY <1>1, <1>3 DEF AtMost, Readings
<1>5. /\ IsFiniteSet(pixels \ inside)
      /\ Cardinality(pixels \ inside) = Cardinality(pixels) - Cardinality(pixels \cap inside)
  BY <1>1, FS_Difference
<1>6. pixels \cap inside = inside
  OBVIOUS
<1>7. Cardinality(pixels \ inside) = Cardinality(pixels) - Cardinality(inside)
  BY <1>5, <1>6, Zenon
<1>8. /\ Cardinality(AtMost(pixels, z, v)) <= Cardinality(pixels \ inside)
      /\ Cardinality(AtMost(pixels, z, v)) \in Nat
      /\ Cardinality(pixels \ inside) \in Nat
  BY <1>4, <1>5, SubsetCardinality
<1>9. Cardinality(pixels \ inside) < k
  BY <1>7
<1> QED
  BY <1>2, <1>8, <1>9

\* A rank that the readings inside leave to no other is not above b.
LEMMA RankedBelow ==
  ASSUME NEW pixels, NEW z, NEW top \in Nat, Readings(pixels, z, top),
         NEW k \in Nat, 0 < k, k <= Cardinality(pixels),
         NEW b \in Nat, NEW inside, inside \subseteq pixels,
         \A p \in inside : z[p] <= b,
         k <= Cardinality(inside)
  PROVE  Ranked(pixels, z, k) <= b
<1> DEFINE v == Ranked(pixels, z, k)
<1>1. v \in Nat /\ IsRanked(pixels, z, k, v) /\ IsFiniteSet(pixels)
  BY RankedExists, RankedType DEF Readings
<1> HIDE DEF v
<1>2. Cardinality(Below(pixels, z, v)) < k
  BY <1>1 DEF IsRanked, Below
<1>3. SUFFICES ASSUME b < v PROVE FALSE
  BY <1>1 DEF v
<1>4. inside \subseteq Below(pixels, z, v) /\ Below(pixels, z, v) \subseteq pixels
  BY <1>1, <1>3 DEF Below, Readings
<1>5. IsFiniteSet(Below(pixels, z, v))
  BY <1>1, <1>4, SubsetCardinality
<1>6. /\ Cardinality(inside) <= Cardinality(Below(pixels, z, v))
      /\ Cardinality(inside) \in Nat
      /\ Cardinality(Below(pixels, z, v)) \in Nat
  BY <1>4, <1>5, SubsetCardinality
<1> QED
  BY <1>2, <1>6

\* The median is where more than half of the readings are.
THEOREM MedianInside ==
  ASSUME NEW pixels, NEW z, NEW top \in Nat, Readings(pixels, z, top),
         NEW a \in Nat, NEW b \in Nat, NEW inside, inside \subseteq pixels,
         \A p \in inside : z[p] \in a..b,
         2 * Cardinality(inside) > Cardinality(pixels)
  PROVE  MedianTwice(pixels, z) \in (2 * a)..(2 * b)
<1> DEFINE n == Cardinality(pixels)  i == Cardinality(inside)
<1>1. n \in Nat /\ i \in Nat /\ i <= n
  BY SubsetCardinality DEF Readings
<1> HIDE DEF n, i
<1>2. n < 2 * i
  BY DEF n, i
<1>3. /\ (n + 1) \div 2 \in Nat /\ 0 < (n + 1) \div 2 /\ (n + 1) \div 2 <= n
      /\ n - i < (n + 1) \div 2 /\ (n + 1) \div 2 <= i
  BY <1>1, <1>2
<1>4. /\ n \div 2 + 1 \in Nat /\ 0 < n \div 2 + 1 /\ n \div 2 + 1 <= n
      /\ n - i < n \div 2 + 1 /\ n \div 2 + 1 <= i
  BY <1>1, <1>2
<1>0. \A p \in inside : a <= z[p] /\ z[p] <= b
  OBVIOUS
<1>5. Ranked(pixels, z, (n + 1) \div 2) \in a..b
  BY <1>0, <1>3, RankedAbove, RankedBelow, RankedType DEF n, i
<1>6. Ranked(pixels, z, n \div 2 + 1) \in a..b
  BY <1>0, <1>4, RankedAbove, RankedBelow, RankedType DEF n, i
<1>7. MedianTwice(pixels, z) =
        Ranked(pixels, z, (n + 1) \div 2) + Ranked(pixels, z, n \div 2 + 1)
  BY DEF MedianTwice, n
<1> QED
  BY <1>5, <1>6, <1>7

LEMMA RankedMonotone ==
  ASSUME NEW pixels, NEW z, NEW top \in Nat, Readings(pixels, z, top),
         NEW k \in Nat, 0 < k, NEW l \in Nat, k <= l, l <= Cardinality(pixels)
  PROVE  Ranked(pixels, z, k) <= Ranked(pixels, z, l)
<1> DEFINE v == Ranked(pixels, z, l)
<1>1. Cardinality(pixels) \in Nat /\ k <= Cardinality(pixels) /\ 0 < l
  BY CountsAreFinite DEF Readings
<1>2. v \in Nat /\ IsRanked(pixels, z, l, v)
  BY <1>1, RankedExists, RankedType
<1>3. l <= Cardinality(AtMost(pixels, z, v)) /\ Cardinality(AtMost(pixels, z, v)) \in Nat
  BY <1>2, CountsAreFinite DEF IsRanked, AtMost, Readings
<1> HIDE DEF v
<1>4. AtMost(pixels, z, v) \subseteq pixels /\ \A p \in AtMost(pixels, z, v) : z[p] <= v
  BY DEF AtMost
<1>5. Ranked(pixels, z, k) <= v
  BY <1>1, <1>2, <1>3, <1>4, RankedBelow
<1> QED
  BY <1>5 DEF v

LEMMA MedianType ==
  ASSUME NEW pixels, NEW z, NEW top \in Nat, Readings(pixels, z, top), pixels # {}
  PROVE  MedianTwice(pixels, z) \in 0..(2 * top)
<1>1. Cardinality(pixels) \in Nat /\ Cardinality(pixels) # 0
  BY FS_CardinalityType, FS_EmptySet DEF Readings
<1>2. 2 * Cardinality(pixels) > Cardinality(pixels)
  BY <1>1
<1>3. MedianTwice(pixels, z) \in (2 * 0)..(2 * top)
  BY <1>2, MedianInside DEF Readings
<1> QED
  BY <1>3

LEMMA OffCenterType ==
  ASSUME NEW pixels, NEW z, NEW top \in Nat, Readings(pixels, z, top), pixels # {}
  PROVE  /\ Readings(pixels, OffCenterTwice(pixels, z), 2 * top)
         /\ Readings(pixels, DeviationFourfold(pixels, z), 4 * top)
<1>1. MedianTwice(pixels, z) \in 0..(2 * top)
  BY MedianType
<1>2. \A p \in pixels : OffCenterTwice(pixels, z)[p] = Magnitude(2 * z[p] - MedianTwice(pixels, z))
  BY DEF OffCenterTwice
<1>3. Readings(pixels, OffCenterTwice(pixels, z), 2 * top)
  BY <1>1, <1>2 DEF Magnitude, Readings
<1> DEFINE off == OffCenterTwice(pixels, z)
<1> HIDE DEF off
<1>4. MedianTwice(pixels, off) \in 0..(2 * (2 * top))
  BY <1>3, MedianType DEF off
<1>5. \A p \in pixels : DeviationFourfold(pixels, z)[p] = Magnitude(2 * off[p] - MedianTwice(pixels, off))
  BY DEF DeviationFourfold, off
<1>6. Readings(pixels, off, 2 * top)
  BY <1>3 DEF off
<1>7. Readings(pixels, DeviationFourfold(pixels, z), 4 * top)
  BY <1>4, <1>5, <1>6 DEF Magnitude, Readings
<1> QED
  BY <1>3, <1>7

\* robust_filter_points keeps at least half of the points: those that are not
\* farther from the center than the median are never dropped
\* (geometry.py:175-182).
THEOREM FilterKeepsHalf ==
  ASSUME NEW pixels, NEW z, NEW top \in Nat, Readings(pixels, z, top), NEW floor \in Nat
  PROVE  /\ Filtered(pixels, z, floor) \subseteq pixels
         /\ 2 * Cardinality(Filtered(pixels, z, floor)) >= Cardinality(pixels)
<1> DEFINE off  == OffCenterTwice(pixels, z)
           n    == Cardinality(pixels)
           kept == WithinRadius(pixels, z, floor)
           low  == Ranked(pixels, off, (n + 1) \div 2)
           high == Ranked(pixels, off, n \div 2 + 1)
           mad  == MedianTwice(pixels, DeviationFourfold(pixels, z))
<1>1. n \in Nat /\ kept \subseteq pixels
  BY FS_CardinalityType DEF Readings, WithinRadius
<1>2. Filtered(pixels, z, floor) = IF n < 4 \/ Cardinality(kept) < 3 THEN pixels ELSE kept
  BY DEF Filtered
<1>3. CASE n < 4 \/ Cardinality(kept) < 3
  <2>1. Filtered(pixels, z, floor) = pixels
    BY <1>2, <1>3
  <2> QED
    BY <1>1, <2>1
<1>4. CASE ~(n < 4 \/ Cardinality(kept) < 3)
  <2>1. pixels # {}
    BY <1>4, FS_EmptySet
  <2>2. Readings(pixels, off, 2 * top) /\ mad \in Nat
    BY <2>1, OffCenterType, MedianType
  <2> HIDE DEF mad, off
  <2>3. /\ (n + 1) \div 2 \in Nat /\ 0 < (n + 1) \div 2 /\ (n + 1) \div 2 <= n
        /\ n \div 2 + 1 \in Nat /\ n \div 2 + 1 <= n /\ (n + 1) \div 2 <= n \div 2 + 1
        /\ 2 * ((n + 1) \div 2) >= n
    BY <1>1, <1>4
  <2>4. low \in Nat /\ high \in Nat /\ low <= high
    BY <2>2, <2>3, RankedType, RankedMonotone
  <2>5. IsRanked(pixels, off, (n + 1) \div 2, low)
    BY <2>2, <2>3, RankedExists
  <2>6. MedianTwice(pixels, off) = low + high
    BY DEF MedianTwice
  <2>7. kept = {p \in pixels : \/ 10000 * (4 * off[p] - 2 * MedianTwice(pixels, off)) <= 66717 * mad
                               \/ off[p] <= 2 * floor}
    BY DEF WithinRadius, off, mad
  <2> HIDE DEF low, high, kept, n
  <2>8. AtMost(pixels, off, low) \subseteq kept
    <3>1. SUFFICES ASSUME NEW p \in pixels, off[p] <= low
                   PROVE  10000 * (4 * off[p] - 2 * MedianTwice(pixels, off)) <= 66717 * mad
      BY <2>7 DEF AtMost
    <3>2. off[p] \in Nat
      BY <2>2 DEF Readings
    <3> QED
      BY <2>2, <2>4, <2>6, <3>1, <3>2
  <2>9. (n + 1) \div 2 <= Cardinality(AtMost(pixels, off, low))
    BY <2>5 DEF IsRanked, AtMost
  <2>10. /\ Cardinality(AtMost(pixels, off, low)) <= Cardinality(kept)
         /\ Cardinality(AtMost(pixels, off, low)) \in Nat
         /\ Cardinality(kept) \in Nat
    <3>1. IsFiniteSet(kept)
      BY <1>1, SubsetCardinality DEF Readings
    <3> QED
      BY <2>8, <3>1, SubsetCardinality
  <2>11. 2 * Cardinality(kept) >= n
    BY <1>1, <2>3, <2>9, <2>10
  <2>12. Filtered(pixels, z, floor) = kept
    BY <1>2, <1>4
  <2> QED
    BY <1>1, <2>11, <2>12 DEF n
<1> QED
  BY <1>3, <1>4

\* When fewer than a quarter of the points are not the object's, the median
\* of those that the filter keeps, which is the position, lies among the
\* object's own readings (geometry.py:158-182, 279-287).
THEOREM FilteredMedianInside ==
  ASSUME NEW pixels, NEW z, NEW top \in Nat, Readings(pixels, z, top), NEW floor \in Nat,
         NEW own, 4 * Cardinality(pixels \ own) < Cardinality(pixels),
         NEW a \in Nat, NEW b \in Nat, \A p \in own : z[p] \in a..b
  PROVE  MedianTwice(Filtered(pixels, z, floor), z) \in (2 * a)..(2 * b)
<1> DEFINE F == Filtered(pixels, z, floor)
<1>1. F \subseteq pixels /\ 2 * Cardinality(F) >= Cardinality(pixels)
  BY FilterKeepsHalf
<1> HIDE DEF F
<1>2. IsFiniteSet(pixels) /\ IsFiniteSet(pixels \ own)
  BY FS_Difference DEF Readings
<1>3. IsFiniteSet(F) /\ Cardinality(F) \in Nat /\ Cardinality(pixels) \in Nat
  BY <1>1, <1>2, SubsetCardinality
<1>4. /\ F \ own \subseteq pixels \ own
      /\ Cardinality(F \ own) <= Cardinality(pixels \ own)
      /\ Cardinality(F \ own) \in Nat /\ Cardinality(pixels \ own) \in Nat
  BY <1>1, <1>2, SubsetCardinality
<1>5. /\ Cardinality(F \ own) = Cardinality(F) - Cardinality(F \cap own)
      /\ Cardinality(F \cap own) \in Nat
  BY <1>3, FS_Difference, FS_Intersection, FS_CardinalityType
<1>6. 2 * Cardinality(F \cap own) > Cardinality(F)
  BY <1>1, <1>3, <1>4, <1>5
<1>7. Readings(F, z, top)
  BY <1>1, <1>3 DEF Readings
<1>8. F \cap own \subseteq F /\ \A p \in F \cap own : z[p] \in a..b
  OBVIOUS
<1>9. MedianTwice(F, z) \in (2 * a)..(2 * b)
  BY <1>6, <1>7, <1>8, MedianInside
<1> QED
  BY <1>9 DEF F

\* The depth band cuts the object out of its mask: it keeps all of an object
\* that is nearer than the rest of the mask by more than the band, not
\* thicker than the band and more than a tenth of the mask, and nothing else
\* (geometry.py:140-145).
THEOREM BandKeepsObject ==
  ASSUME NEW z, NEW maxDepth, NEW band \in Nat, band > 0, NEW top \in Nat,
         Readings(Reachable(z, maxDepth), z, top),
         NEW own, own \subseteq Reachable(z, maxDepth), own # {},
         10 * (Cardinality(own) - 1) >= Cardinality(Reachable(z, maxDepth)) - 1,
         NEW a \in Nat, NEW b \in Nat, b - a <= band,
         \A p \in own : z[p] \in a..b,
         \A p \in Reachable(z, maxDepth) \ own : z[p] > b + band
  PROVE  Gated(z, maxDepth, band) = own
<1> DEFINE pixels == Reachable(z, maxDepth)
           n      == Cardinality(pixels)
           i      == Cardinality(own)
           rank   == (n - 1) \div 10 + 1
           rest   == (n - 1) % 10
           next   == IF rank < n THEN rank + 1 ELSE n
           near   == TenthPercentileTenfold(pixels, z)
<1>1. pixels # {} /\ IsFiniteSet(pixels) /\ \A p \in pixels : z[p] \in Nat
  BY DEF Readings
<1>2. n \in Nat /\ i \in Nat /\ i <= n /\ i # 0
  <2>1. n \in Nat /\ i \in Nat /\ i <= n /\ IsFiniteSet(own)
    BY <1>1, SubsetCardinality
  <2> QED
    BY <2>1, FS_EmptySet
<1>3. near = (10 - rest) * Ranked(pixels, z, rank) + rest * Ranked(pixels, z, next)
  BY DEF TenthPercentileTenfold
<1>4. Gated(z, maxDepth, band) = {p \in pixels : Magnitude(10 * z[p] - near) <= 10 * band}
  BY <1>1 DEF Gated
<1>5. 10 * (i - 1) >= n - 1
  OBVIOUS
<1>6. Readings(pixels, z, top)
  OBVIOUS
<1>7. \A p \in own : z[p] \in a..b
  OBVIOUS
<1>8. \A p \in pixels \ own : z[p] > b + band
  OBVIOUS
<1>9. own \subseteq pixels
  OBVIOUS
<1>10. PICK p \in own : a <= b
  BY <1>7
<1> HIDE DEF pixels, n, i, near
<1>11. /\ rank \in Nat /\ 0 < rank /\ rank <= n /\ rank <= i
       /\ next \in Nat /\ 0 < next /\ next <= n
       /\ rest \in 0..9 /\ (rest # 0 => next <= i)
  BY <1>2, <1>5
<1> DEFINE low == Ranked(pixels, z, rank)  high == Ranked(pixels, z, next)
<1> HIDE DEF rank, next, rest
<1>12. \A k \in Nat : 0 < k /\ k <= n => low \in Nat /\ Ranked(pixels, z, k) \in Nat
  BY <1>6, <1>11, RankedType DEF n
<1>13. \A k \in Nat : 0 < k /\ k <= n => a <= Ranked(pixels, z, k)
  <2>1. \A q \in pixels : a <= z[q]
    BY <1>1, <1>7, <1>8, <1>10 DEF pixels
  <2>2. pixels \subseteq pixels /\ \A k \in Nat : 0 < k => n - n < k
    BY <1>2
  <2> QED
    BY <1>6, <2>1, <2>2, RankedAbove DEF n
<1>14. \A k \in Nat : 0 < k /\ k <= i => Ranked(pixels, z, k) <= b
  <2>1. \A q \in own : z[q] <= b
    BY <1>7
  <2>2. \A k \in Nat : k <= i => k <= n
    BY <1>2
  <2> QED
    BY <1>6, <1>9, <2>1, <2>2, RankedBelow DEF n, i
<1>15. /\ low \in Nat /\ high \in Nat /\ a <= low /\ low <= b
       /\ a <= high /\ (rest # 0 => high <= b)
  BY <1>11, <1>12, <1>13, <1>14
<1> HIDE DEF low, high
<1>16. near \in Nat /\ 10 * a <= near /\ near <= 10 * b
  <2>1. near = (10 - rest) * low + rest * high
    BY <1>3 DEF low, high
  <2>2. CASE rest = 0
    BY <1>15, <2>1, <2>2
  <2>3. rest = 0 \/ rest = 1 \/ rest = 2 \/ rest = 3 \/ rest = 4 \/ rest = 5
        \/ rest = 6 \/ rest = 7 \/ rest = 8 \/ rest = 9
    BY <1>11
  <2> QED
    BY <1>15, <2>1, <2>2, <2>3
<1>17. \A q \in own : Magnitude(10 * z[q] - near) <= 10 * band
  BY <1>7, <1>16 DEF Magnitude
<1>18. \A q \in pixels \ own : ~(Magnitude(10 * z[q] - near) <= 10 * band)
  BY <1>1, <1>8, <1>16 DEF Magnitude, pixels
<1> QED
  BY <1>4, <1>9, <1>17, <1>18

=============================================================================
