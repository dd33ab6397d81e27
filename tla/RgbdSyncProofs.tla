--------------------------- MODULE RgbdSyncProofs ---------------------------
(***************************************************************************)
(* Proofs, for every window, queue size and range of stamps, of the safety *)
(* properties of RgbdSyncProperties.                                       *)
(***************************************************************************)
EXTENDS RgbdSyncProperties, SequenceTheorems, WellFoundedInduction, TLAPS

-----------------------------------------------------------------------------
(* A best pair exists.                                                     *)

LEMMA LeastNatural ==
  ASSUME NEW T \in SUBSET Nat, T # {}
  PROVE  \E x \in T : \A y \in T : x <= y
<1> DEFINE R == OpToRel(<, Nat)
<1>1. IsWellFoundedOn(R, Nat)
  BY NatLessThanWellFounded
<1>2. PICK x \in T : \A y \in T : <<y, x>> \notin R
  <2> HIDE DEF R
  <2> QED
    BY <1>1, WFMin
<1>3. \A y \in T : ~ (y < x)
  BY <1>2 DEF OpToRel
<1>4. QED
  BY <1>3

Queues == Seq(Stamps)

LEMMA QueueElements ==
  ASSUME NEW queue \in Queues, NEW i \in 1..Len(queue)
  PROVE  queue[i] \in Stamps /\ queue[i] \in Nat
BY RgbdSyncAssumption DEF Queues, Stamps

LEMMA DistanceType ==
  ASSUME NEW s \in Nat, NEW t \in Nat
  PROVE  Distance(s, t) \in Nat
BY DEF Distance

IsLeast(f, I, J, i, j) ==
  \A m \in I, n \in J :
    \/ f[i][j] < f[m][n]
    \/ f[i][j] = f[m][n] /\ (i < m \/ (i = m /\ j <= n))

\* A table of natural numbers has a least entry in the order of (entry, row,
\* column).
LEMMA LeastEntry ==
  ASSUME NEW I \in SUBSET Nat, NEW J \in SUBSET Nat, I # {}, J # {},
         NEW f \in [I -> [J -> Nat]]
  PROVE  \E i \in I, j \in J : IsLeast(f, I, J, i, j)
<1>0. \A i \in I, j \in J : f[i][j] \in Nat
  OBVIOUS
<1>1. PICK d \in {e \in Nat : \E i \in I, j \in J : f[i][j] = e} :
        \A e \in {e \in Nat : \E i \in I, j \in J : f[i][j] = e} : d <= e
  <2> DEFINE T == {e \in Nat : \E i \in I, j \in J : f[i][j] = e}
  <2>1. T \in SUBSET Nat /\ T # {}
    BY <1>0
  <2> HIDE DEF T
  <2>2. \E d \in T : \A e \in T : d <= e
    BY <2>1, LeastNatural
  <2>3. QED
    BY <2>2 DEF T
<1>2. PICK i \in I : /\ \E j \in J : f[i][j] = d
                     /\ \A m \in I : (\E j \in J : f[m][j] = d) => i <= m
  <2> DEFINE T == {m \in I : \E j \in J : f[m][j] = d}
  <2>1. T \in SUBSET Nat /\ T # {}
    BY <1>1
  <2> HIDE DEF T
  <2>2. \E m \in T : \A n \in T : m <= n
    BY <2>1, LeastNatural
  <2>3. QED
    BY <2>2 DEF T
<1>3. PICK j \in J : /\ f[i][j] = d
                     /\ \A n \in J : f[i][n] = d => j <= n
  <2> DEFINE T == {n \in J : f[i][n] = d}
  <2>1. T \in SUBSET Nat /\ T # {}
    BY <1>2
  <2> HIDE DEF T
  <2>2. \E m \in T : \A n \in T : m <= n
    BY <2>1, LeastNatural
  <2>3. QED
    BY <2>2 DEF T
<1>4. ASSUME NEW m \in I, NEW n \in J
      PROVE  \/ f[i][j] < f[m][n]
             \/ f[i][j] = f[m][n] /\ (i < m \/ (i = m /\ j <= n))
  <2>1. d <= f[m][n] /\ d \in Nat /\ f[m][n] \in Nat
    BY <1>1
  <2>2. f[m][n] = d => i <= m /\ (i = m => j <= n)
    BY <1>2, <1>3
  <2>3. QED
    BY <2>1, <2>2, <1>3
<1>5. QED
  BY <1>4 DEF IsLeast

\* Whenever both queues hold a frame, one pair is the best.
LEMMA BestExists ==
  ASSUME NEW rgbs \in Queues, NEW depths \in Queues,
         NEW k \in 1..Len(rgbs), NEW l \in 1..Len(depths)
  PROVE  \E i \in 1..Len(rgbs), j \in 1..Len(depths) : IsBest(rgbs, depths, i, j)
<1> DEFINE I == 1..Len(rgbs)
           J == 1..Len(depths)
           f == [i \in I |-> [j \in J |-> Distance(rgbs[i], depths[j])]]
<1>1. I \in SUBSET Nat /\ J \in SUBSET Nat /\ I # {} /\ J # {}
  BY DEF Queues
<1>2. \A i \in I, j \in J : f[i][j] = Distance(rgbs[i], depths[j])
  OBVIOUS
<1>3. f \in [I -> [J -> Nat]]
  BY QueueElements, DistanceType
<1>4. \E i \in I, j \in J : IsLeast(f, I, J, i, j)
  <2> HIDE DEF I, J, f
  <2> QED
    BY <1>1, <1>3, LeastEntry
<1>5. QED
  BY <1>2, <1>4 DEF IsLeast, IsBest

\* What the best pair cannot reach, no pair can: if no pair matches, all are
\* apart.
LEMMA NoMatchMeansApart ==
  ASSUME NEW rgbs \in Queues, NEW depths \in Queues,
         ~ \E i \in 1..Len(rgbs), j \in 1..Len(depths) : Matches(rgbs, depths, i, j)
  PROVE  \A k \in 1..Len(rgbs), l \in 1..Len(depths) :
           Distance(rgbs[k], depths[l]) > MaxDelta
<1> SUFFICES ASSUME NEW k \in 1..Len(rgbs), NEW l \in 1..Len(depths)
             PROVE  Distance(rgbs[k], depths[l]) > MaxDelta
  OBVIOUS
<1>1. PICK i \in 1..Len(rgbs), j \in 1..Len(depths) : IsBest(rgbs, depths, i, j)
  BY BestExists
<1>2. /\ Distance(rgbs[i], depths[j]) \in Nat
      /\ Distance(rgbs[k], depths[l]) \in Nat
  BY QueueElements, DistanceType
<1>3. \/ Distance(rgbs[i], depths[j]) < Distance(rgbs[k], depths[l])
      \/ Distance(rgbs[i], depths[j]) = Distance(rgbs[k], depths[l])
  BY <1>1 DEF IsBest
<1>4. ~ (Distance(rgbs[i], depths[j]) <= MaxDelta)
  BY <1>1 DEF Matches
<1>5. QED
  BY <1>2, <1>3, <1>4, RgbdSyncAssumption

-----------------------------------------------------------------------------
(* Queues.                                                                 *)

LEMMA PushType ==
  ASSUME NEW queue \in Queues, Len(queue) <= QueueSize, NEW stamp \in Stamps
  PROVE  LET new == Push(queue, stamp)
         IN  /\ new \in Queues /\ new # <<>> /\ Len(new) <= QueueSize
             /\ new[Len(new)] = stamp
             /\ \E o \in {0, 1} : /\ Len(new) = Len(queue) + 1 - o
                                  /\ \A i \in 1..Len(new) - 1 : new[i] = queue[i + o]
<1>1. CASE Len(queue) < QueueSize
  BY <1>1, AppendProperties, RgbdSyncAssumption DEF Push, Queues
<1>2. CASE ~ (Len(queue) < QueueSize)
  <2>1. queue # <<>> /\ Len(queue) \in Nat
    BY <1>2, RgbdSyncAssumption, EmptySeq DEF Queues
  <2>2. /\ Tail(queue) \in Seq(Stamps) /\ Len(Tail(queue)) = Len(queue) - 1
        /\ \A i \in 1..Len(Tail(queue)) : Tail(queue)[i] = queue[i + 1]
    BY <2>1, HeadTailProperties DEF Queues
  <2>3. Push(queue, stamp) = Append(Tail(queue), stamp)
    BY <1>2 DEF Push
  <2>4. QED
    BY <2>1, <2>2, <2>3, AppendProperties, RgbdSyncAssumption DEF Queues
<1>3. QED
  BY <1>1, <1>2

LEMMA DropThroughType ==
  ASSUME NEW queue \in Queues, NEW i \in 1..Len(queue)
  PROVE  LET left == DropThrough(queue, i)
         IN  /\ left \in Queues /\ Len(left) = Len(queue) - i
             /\ \A k \in 1..Len(left) : left[k] = queue[i + k]
<1>1. \A k \in i + 1 .. Len(queue) : queue[k] \in Stamps
  BY DEF Queues
<1>2. Len(queue) \in Nat
  BY DEF Queues
<1>3. QED
  BY <1>1, <1>2, SubSeqProperties DEF DropThrough, Queues

-----------------------------------------------------------------------------
(* Types.                                                                  *)

LEMMA MatchType ==
  ASSUME TypeOK,
         NEW rgbs \in Queues, Len(rgbs) <= QueueSize,
         NEW depths \in Queues, Len(depths) <= QueueSize,
         Match(rgbs, depths)
  PROVE  /\ rgbQueue' \in Queues /\ Len(rgbQueue') <= QueueSize
         /\ depthQueue' \in Queues /\ Len(depthQueue') <= QueueSize
         /\ syncedRgb' \in Stamps \cup {NoStamp}
         /\ syncedDepth' \in Stamps \cup {NoStamp}
         /\ syncedRgb' = NoStamp <=> syncedDepth' = NoStamp
<1>1. ASSUME NEW i \in 1..Len(rgbs), NEW j \in 1..Len(depths), Matched(rgbs, depths, i, j)
      PROVE  /\ rgbQueue' \in Queues /\ Len(rgbQueue') <= QueueSize
             /\ depthQueue' \in Queues /\ Len(depthQueue') <= QueueSize
             /\ syncedRgb' \in Stamps /\ syncedDepth' \in Stamps
  <2>1. Len(rgbs) \in Nat /\ Len(depths) \in Nat
    BY DEF Queues
  <2>2. rgbQueue' \in Queues /\ Len(rgbQueue') <= QueueSize
    BY <1>1, <2>1, DropThroughType, RgbdSyncAssumption DEF Matched
  <2>3. depthQueue' \in Queues /\ Len(depthQueue') <= QueueSize
    BY <1>1, <2>1, DropThroughType, RgbdSyncAssumption DEF Matched
  <2>4. syncedRgb' \in Stamps /\ syncedDepth' \in Stamps
    BY <1>1, QueueElements DEF Matched
  <2>5. QED
    BY <2>2, <2>3, <2>4
<1>2. NoStamp \notin Stamps
  BY RgbdSyncAssumption DEF Stamps, NoStamp
<1>3. CASE Unmatched(rgbs, depths)
  BY <1>3 DEF Unmatched, syncedVars, TypeOK
<1>4. QED
  BY <1>1, <1>2, <1>3 DEF Match

LEMMA TypeStep == TypeOK /\ [Next]_vars => TypeOK'
<1> SUFFICES ASSUME TypeOK, [Next]_vars PROVE TypeOK'
  OBVIOUS
<1>0. Next => ordered' \in BOOLEAN /\ steady' \in BOOLEAN
  BY Zenon DEF Next, OnRgb, OnDepth
<1>1. ASSUME NEW stamp \in Stamps, OnRgb(stamp) PROVE TypeOK'
  <2>1. ordered' \in BOOLEAN /\ steady' \in BOOLEAN
    BY <1>0, <1>1 DEF Next
  <2>2. /\ rgbQueue \in Queues /\ Len(rgbQueue) <= QueueSize
        /\ depthQueue \in Queues /\ Len(depthQueue) <= QueueSize
    BY DEF TypeOK, Queues
  <2>3. Match(Push(rgbQueue, stamp), depthQueue) /\ rgb' = stamp /\ depth' = depth
    BY <1>1 DEF OnRgb
  <2>4. Push(rgbQueue, stamp) \in Queues /\ Len(Push(rgbQueue, stamp)) <= QueueSize
    BY <2>2, PushType
  <2>5. QED
    BY <2>1, <2>2, <2>3, <2>4, MatchType DEF TypeOK, Queues
<1>2. ASSUME NEW stamp \in Stamps, OnDepth(stamp) PROVE TypeOK'
  <2>1. ordered' \in BOOLEAN /\ steady' \in BOOLEAN
    BY <1>0, <1>2 DEF Next
  <2>2. /\ rgbQueue \in Queues /\ Len(rgbQueue) <= QueueSize
        /\ depthQueue \in Queues /\ Len(depthQueue) <= QueueSize
    BY DEF TypeOK, Queues
  <2>3. Match(rgbQueue, Push(depthQueue, stamp)) /\ depth' = stamp /\ rgb' = rgb
    BY <1>2 DEF OnDepth
  <2>4. Push(depthQueue, stamp) \in Queues /\ Len(Push(depthQueue, stamp)) <= QueueSize
    BY <2>2, PushType
  <2>5. QED
    BY <2>1, <2>2, <2>3, <2>4, MatchType DEF TypeOK, Queues
<1>3. CASE UNCHANGED vars
  BY <1>3 DEF vars, queueVars, syncedVars, TypeOK
<1>4. QED
  BY <1>1, <1>2, <1>3 DEF Next

LEMMA TypeInit == Init => TypeOK
BY RgbdSyncAssumption, EmptySeq DEF Init, TypeOK, NoStamp

\* The queues never grow past their size and hold stamps; color and depth are
\* synchronized together.
THEOREM TypeCorrect == Spec => []TypeOK
BY TypeInit, TypeStep, PTL DEF Spec

-----------------------------------------------------------------------------
(* No missed match.  Only the frame that has just arrived can have a       *)
(* partner; if it is taken, its whole queue is, for it is the last there.  *)

LEMMA MatchLeavesApart ==
  ASSUME NEW rgbs \in Queues, NEW depths \in Queues, Match(rgbs, depths),
         \/ \A k \in 1..Len(rgbs) - 1, l \in 1..Len(depths) :
              Distance(rgbs[k], depths[l]) > MaxDelta
         \/ \A k \in 1..Len(rgbs), l \in 1..Len(depths) - 1 :
              Distance(rgbs[k], depths[l]) > MaxDelta
  PROVE  NoMatchableLeft'
<1>1. Len(rgbs) \in Nat /\ Len(depths) \in Nat
  BY DEF Queues
<1>2. ASSUME NEW i \in 1..Len(rgbs), NEW j \in 1..Len(depths),
             Matches(rgbs, depths, i, j), Matched(rgbs, depths, i, j)
      PROVE  NoMatchableLeft'
  <2>1. Distance(rgbs[i], depths[j]) <= MaxDelta /\ Distance(rgbs[i], depths[j]) \in Nat
    BY <1>2, QueueElements, DistanceType DEF Matches
  <2>2. ~ (Distance(rgbs[i], depths[j]) > MaxDelta)
    BY <2>1, RgbdSyncAssumption
  <2>3. i = Len(rgbs) \/ j = Len(depths)
    BY <1>1, <2>2
  <2>4. Len(rgbQueue') = 0 \/ Len(depthQueue') = 0
    BY <1>1, <1>2, <2>3, DropThroughType DEF Matched
  <2>5. QED
    BY <2>4 DEF NoMatchableLeft
<1>3. CASE Unmatched(rgbs, depths) /\ ~ \E i \in 1..Len(rgbs), j \in 1..Len(depths) : Matches(rgbs, depths, i, j)
  BY <1>3, NoMatchMeansApart DEF Unmatched, NoMatchableLeft
<1>4. QED
  BY <1>2, <1>3 DEF Match

LEMMA ApartStep == TypeOK /\ NoMatchableLeft /\ [Next]_vars => NoMatchableLeft'
<1> SUFFICES ASSUME TypeOK, NoMatchableLeft, [Next]_vars PROVE NoMatchableLeft'
  OBVIOUS
<1>0. /\ rgbQueue \in Queues /\ depthQueue \in Queues
      /\ Len(rgbQueue) \in Nat /\ Len(depthQueue) \in Nat
  BY DEF TypeOK, Queues
<1>1. ASSUME NEW stamp \in Stamps, OnRgb(stamp) PROVE NoMatchableLeft'
  <2> DEFINE rgbs == Push(rgbQueue, stamp)
  <2>1. PICK o \in {0, 1} : /\ Len(rgbs) = Len(rgbQueue) + 1 - o
                            /\ \A i \in 1..Len(rgbs) - 1 : rgbs[i] = rgbQueue[i + o]
    BY <1>0, PushType DEF TypeOK
  <2>2. rgbs \in Queues
    BY <1>0, PushType DEF TypeOK
  <2>3. Match(rgbs, depthQueue)
    BY <1>1 DEF OnRgb
  <2> HIDE DEF rgbs
  <2>4. \A k \in 1..Len(rgbs) - 1, l \in 1..Len(depthQueue) :
          Distance(rgbs[k], depthQueue[l]) > MaxDelta
    BY <1>0, <2>1 DEF NoMatchableLeft
  <2>5. QED
    BY <1>0, <2>2, <2>3, <2>4, MatchLeavesApart
<1>2. ASSUME NEW stamp \in Stamps, OnDepth(stamp) PROVE NoMatchableLeft'
  <2> DEFINE depths == Push(depthQueue, stamp)
  <2>1. PICK o \in {0, 1} : /\ Len(depths) = Len(depthQueue) + 1 - o
                            /\ \A i \in 1..Len(depths) - 1 : depths[i] = depthQueue[i + o]
    BY <1>0, PushType DEF TypeOK
  <2>2. depths \in Queues
    BY <1>0, PushType DEF TypeOK
  <2>3. Match(rgbQueue, depths)
    BY <1>2 DEF OnDepth
  <2> HIDE DEF depths
  <2>4. \A k \in 1..Len(rgbQueue), l \in 1..Len(depths) - 1 :
          Distance(rgbQueue[k], depths[l]) > MaxDelta
    BY <1>0, <2>1 DEF NoMatchableLeft
  <2>5. QED
    BY <1>0, <2>2, <2>3, <2>4, MatchLeavesApart
<1>3. CASE UNCHANGED vars
  BY <1>3 DEF vars, queueVars, NoMatchableLeft
<1>4. QED
  BY <1>1, <1>2, <1>3 DEF Next

\* Two frames that wait in the queues are never within the window.
THEOREM NoMatchableLeftHolds == Spec => []NoMatchableLeft
<1>1. Init => NoMatchableLeft
  BY DEF Init, NoMatchableLeft
<1>2. QED
  BY <1>1, ApartStep, TypeCorrect, PTL DEF Spec

-----------------------------------------------------------------------------
(* Pairs are made at once.  What waits is apart, so a pair that matches has *)
(* the new frame in it, and is the best one of those with the new frame.   *)

LEMMA SideBySide ==
  ASSUME NEW s \in Nat, NEW t \in Nat
  PROVE  Distance(s, t) = Distance(t, s)
BY DEF Distance

LEMMA NewColorMatches ==
  ASSUME NEW rgbs \in Queues, NEW depths \in Queues, Match(rgbs, depths),
         \A k \in 1..Len(rgbs) - 1, l \in 1..Len(depths) : Distance(rgbs[k], depths[l]) > MaxDelta,
         syncedVars' # syncedVars
  PROVE  syncedRgb' = rgbs[Len(rgbs)] /\ IsNearest(syncedDepth', rgbs[Len(rgbs)], depths)
<1>1. PICK i \in 1..Len(rgbs), j \in 1..Len(depths) :
        Matches(rgbs, depths, i, j) /\ Matched(rgbs, depths, i, j)
  BY DEF Match, Unmatched
<1>2. Len(rgbs) \in Nat /\ Distance(rgbs[i], depths[j]) \in Nat
  <2>1. Len(rgbs) \in Nat
    BY DEF Queues
  <2>2. QED
    BY <2>1, QueueElements, DistanceType
<1>3. i = Len(rgbs)
  <2>1. ~ (Distance(rgbs[i], depths[j]) > MaxDelta)
    BY <1>1, <1>2, RgbdSyncAssumption DEF Matches
  <2>2. QED
    BY <1>2, <2>1
<1>4. \A l \in 1..Len(depths) : Distance(rgbs[i], depths[j]) <= Distance(rgbs[i], depths[l])
  <2>1. \A l \in 1..Len(depths) : Distance(rgbs[i], depths[l]) \in Nat
    BY QueueElements, DistanceType
  <2>2. QED
    BY <1>1, <2>1 DEF Matches, IsBest
<1>5. QED
  BY <1>1, <1>3, <1>4 DEF Matched, IsNearest

LEMMA NewDepthMatches ==
  ASSUME NEW rgbs \in Queues, NEW depths \in Queues, Match(rgbs, depths),
         \A k \in 1..Len(rgbs), l \in 1..Len(depths) - 1 : Distance(rgbs[k], depths[l]) > MaxDelta,
         syncedVars' # syncedVars
  PROVE  syncedDepth' = depths[Len(depths)] /\ IsNearest(syncedRgb', depths[Len(depths)], rgbs)
<1>1. PICK i \in 1..Len(rgbs), j \in 1..Len(depths) :
        Matches(rgbs, depths, i, j) /\ Matched(rgbs, depths, i, j)
  BY DEF Match, Unmatched
<1>2. Len(depths) \in Nat /\ Distance(rgbs[i], depths[j]) \in Nat
  <2>1. Len(depths) \in Nat
    BY DEF Queues
  <2>2. QED
    BY <2>1, QueueElements, DistanceType
<1>3. j = Len(depths)
  <2>1. ~ (Distance(rgbs[i], depths[j]) > MaxDelta)
    BY <1>1, <1>2, RgbdSyncAssumption DEF Matches
  <2>2. QED
    BY <1>2, <2>1
<1>4. \A k \in 1..Len(rgbs) : Distance(depths[j], rgbs[i]) <= Distance(depths[j], rgbs[k])
  <2>1. \A k \in 1..Len(rgbs) : /\ Distance(rgbs[k], depths[j]) \in Nat
                                /\ Distance(rgbs[k], depths[j]) = Distance(depths[j], rgbs[k])
    BY QueueElements, DistanceType, SideBySide
  <2>2. \A k \in 1..Len(rgbs) : Distance(rgbs[i], depths[j]) <= Distance(rgbs[k], depths[j])
    BY <1>1, <2>1 DEF Matches, IsBest
  <2>3. QED
    BY <2>1, <2>2
<1>5. QED
  BY <1>1, <1>3, <1>4 DEF Matched, IsNearest

\* A new frame is paired in its own callback, with the nearest frame waiting.
THEOREM PairsAtOnceHolds == Spec => PairsAtOnce
<1> DEFINE AtOnce ==
      syncedVars' # syncedVars =>
        \A stamp \in Stamps \cap {rgb', depth'} :
         /\ OnRgb(stamp) => syncedRgb' = stamp /\ IsNearest(syncedDepth', stamp, depthQueue)
         /\ OnDepth(stamp) => syncedDepth' = stamp /\ IsNearest(syncedRgb', stamp, rgbQueue)
<1>1. ASSUME TypeOK, NoMatchableLeft PROVE AtOnce
  <2>0. /\ rgbQueue \in Queues /\ depthQueue \in Queues
        /\ Len(rgbQueue) \in Nat /\ Len(depthQueue) \in Nat
    BY <1>1 DEF TypeOK, Queues
  <2>1. ASSUME NEW stamp \in Stamps, OnRgb(stamp), syncedVars' # syncedVars
        PROVE  syncedRgb' = stamp /\ IsNearest(syncedDepth', stamp, depthQueue)
    <3> DEFINE rgbs == Push(rgbQueue, stamp)
    <3>1. PICK o \in {0, 1} : /\ Len(rgbs) = Len(rgbQueue) + 1 - o
                              /\ \A i \in 1..Len(rgbs) - 1 : rgbs[i] = rgbQueue[i + o]
      BY <1>1, <2>0, PushType DEF TypeOK
    <3>2. rgbs \in Queues /\ rgbs[Len(rgbs)] = stamp
      BY <1>1, <2>0, PushType DEF TypeOK
    <3>3. Match(rgbs, depthQueue)
      BY <2>1 DEF OnRgb
    <3> HIDE DEF rgbs
    <3>4. \A k \in 1..Len(rgbs) - 1, l \in 1..Len(depthQueue) :
            Distance(rgbs[k], depthQueue[l]) > MaxDelta
      BY <1>1, <2>0, <3>1 DEF NoMatchableLeft
    <3>5. QED
      BY <2>0, <2>1, <3>2, <3>3, <3>4, NewColorMatches
  <2>2. ASSUME NEW stamp \in Stamps, OnDepth(stamp), syncedVars' # syncedVars
        PROVE  syncedDepth' = stamp /\ IsNearest(syncedRgb', stamp, rgbQueue)
    <3> DEFINE depths == Push(depthQueue, stamp)
    <3>1. PICK o \in {0, 1} : /\ Len(depths) = Len(depthQueue) + 1 - o
                              /\ \A i \in 1..Len(depths) - 1 : depths[i] = depthQueue[i + o]
      BY <1>1, <2>0, PushType DEF TypeOK
    <3>2. depths \in Queues /\ depths[Len(depths)] = stamp
      BY <1>1, <2>0, PushType DEF TypeOK
    <3>3. Match(rgbQueue, depths)
      BY <2>2 DEF OnDepth
    <3> HIDE DEF depths
    <3>4. \A k \in 1..Len(rgbQueue), l \in 1..Len(depths) - 1 :
            Distance(rgbQueue[k], depths[l]) > MaxDelta
      BY <1>1, <2>0, <3>1 DEF NoMatchableLeft
    <3>5. QED
      BY <2>0, <2>2, <3>2, <3>3, <3>4, NewDepthMatches
  <2>3. QED
    BY <2>1, <2>2
<1>2. TypeOK /\ NoMatchableLeft => [AtOnce]_vars
  BY <1>1
<1>3. QED
  BY <1>2, TypeCorrect, NoMatchableLeftHolds, PTL DEF PairsAtOnce

-----------------------------------------------------------------------------
(* The pair in use is within the window.                                   *)

SyncedIsClose ==
  syncedRgb # NoStamp => Distance(syncedRgb, syncedDepth) <= MaxDelta

LEMMA MatchIsClose ==
  ASSUME SyncedIsClose, NEW rgbs, NEW depths, Match(rgbs, depths)
  PROVE  SyncedIsClose'
BY DEF SyncedIsClose, Match, Matched, Matches, Unmatched, syncedVars

LEMMA CloseStep == SyncedIsClose /\ [Next]_vars => SyncedIsClose'
<1> SUFFICES ASSUME SyncedIsClose, [Next]_vars PROVE SyncedIsClose'
  OBVIOUS
<1>1. CASE Next
  BY <1>1, MatchIsClose DEF Next, OnRgb, OnDepth
<1>2. CASE UNCHANGED vars
  BY <1>2 DEF vars, syncedVars, SyncedIsClose
<1>3. QED
  BY <1>1, <1>2

\* The second check of the window, in _synchronized_depth, never refuses a
\* depth image: its warning cannot appear (node.py:386-413).  Perception.tla
\* rests on it.
NeverDesynchronized == ~Desynchronized

LEMMA NeverDesynchronizedHolds == Spec => []NeverDesynchronized
<1>1. Init => SyncedIsClose
  BY DEF Init, SyncedIsClose
<1>2. TypeOK /\ SyncedIsClose => NeverDesynchronized
  <2> SUFFICES ASSUME TypeOK, SyncedIsClose, syncedDepth # NoStamp, SnapshotRgb # NoStamp
               PROVE  ~ (Distance(SnapshotRgb, syncedDepth) > MaxDelta)
    BY DEF NeverDesynchronized, Desynchronized
  <2>1. syncedRgb \in Nat /\ syncedDepth \in Nat /\ SnapshotRgb = syncedRgb
    BY RgbdSyncAssumption DEF TypeOK, Stamps, SnapshotRgb
  <2>2. Distance(syncedRgb, syncedDepth) \in Nat
    BY <2>1, DistanceType
  <2>3. QED
    BY <2>1, <2>2, RgbdSyncAssumption DEF SyncedIsClose, TypeOK
<1>3. QED
  BY <1>1, <1>2, CloseStep, TypeCorrect, PTL DEF Spec

-----------------------------------------------------------------------------
(* Ordered streams.  Each queue is sorted, between the synchronized frame  *)
(* and the newest one.                                                     *)

InOrder(queue, newest, synced) ==
  /\ \A k, l \in 1..Len(queue) : k <= l => queue[k] <= queue[l]
  /\ \A k \in 1..Len(queue) : synced <= queue[k] /\ queue[k] <= newest
  /\ synced <= newest

OrderInv ==
  ordered => InOrder(rgbQueue, rgb, syncedRgb) /\ InOrder(depthQueue, depth, syncedDepth)

LEMMA PushInOrder ==
  ASSUME NEW queue \in Queues, Len(queue) <= QueueSize,
         NEW newest \in Stamps \cup {NoStamp}, NEW synced \in Stamps \cup {NoStamp},
         InOrder(queue, newest, synced), NEW stamp \in Stamps, newest <= stamp
  PROVE  InOrder(Push(queue, stamp), stamp, synced)
<1> DEFINE new == Push(queue, stamp)
<1>1. new \in Queues /\ new[Len(new)] = stamp
  BY PushType
<1>2. PICK o \in {0, 1} : /\ Len(new) = Len(queue) + 1 - o
                          /\ \A i \in 1..Len(new) - 1 : new[i] = queue[i + o]
  BY PushType
<1> HIDE DEF new
<1>3. Len(new) \in Nat /\ Len(queue) \in Nat
  BY <1>1 DEF Queues
<1>4. /\ stamp \in Int /\ newest \in Int /\ synced \in Int
      /\ \A i \in 1..Len(queue) : queue[i] \in Int
  BY QueueElements, RgbdSyncAssumption DEF Stamps, NoStamp
<1>5. synced <= stamp
  BY <1>4 DEF InOrder
<1>6. \A k \in 1..Len(new) : synced <= new[k] /\ new[k] <= stamp
  <2> SUFFICES ASSUME NEW k \in 1..Len(new) PROVE synced <= new[k] /\ new[k] <= stamp
    OBVIOUS
  <2>1. CASE k = Len(new)
    BY <1>1, <1>4, <1>5, <2>1
  <2>2. CASE k # Len(new)
    <3>1. k + o \in 1..Len(queue) /\ new[k] = queue[k + o]
      BY <1>2, <1>3, <2>2
    <3>2. synced <= queue[k + o] /\ queue[k + o] <= newest /\ queue[k + o] \in Int
      BY <3>1, <1>4 DEF InOrder
    <3>3. QED
      BY <3>1, <3>2, <1>4
  <2>3. QED
    BY <2>1, <2>2
<1>7. \A k, l \in 1..Len(new) : k <= l => new[k] <= new[l]
  <2> SUFFICES ASSUME NEW k \in 1..Len(new), NEW l \in 1..Len(new), k <= l
               PROVE  new[k] <= new[l]
    OBVIOUS
  <2>1. CASE l = Len(new)
    BY <1>1, <1>6, <2>1
  <2>2. CASE l # Len(new)
    <3>1. k + o \in 1..Len(queue) /\ l + o \in 1..Len(queue) /\ k + o <= l + o
      BY <1>2, <1>3, <2>2
    <3>2. new[k] = queue[k + o] /\ new[l] = queue[l + o]
      BY <1>2, <1>3, <2>2
    <3>3. QED
      BY <3>1, <3>2 DEF InOrder
  <2>3. QED
    BY <2>1, <2>2
<1>8. QED
  BY <1>5, <1>6, <1>7 DEF InOrder, new

LEMMA DropInOrder ==
  ASSUME NEW queue \in Queues, NEW newest \in Stamps \cup {NoStamp},
         NEW synced \in Stamps \cup {NoStamp}, InOrder(queue, newest, synced),
         NEW i \in 1..Len(queue)
  PROVE  InOrder(DropThrough(queue, i), newest, queue[i]) /\ synced <= queue[i]
<1> DEFINE left == DropThrough(queue, i)
<1>1. Len(left) = Len(queue) - i /\ \A k \in 1..Len(left) : left[k] = queue[i + k]
  BY DropThroughType
<1>2. Len(queue) \in Nat
  BY DEF Queues
<1> HIDE DEF left
<1>3. \A k \in 1..Len(left) : i + k \in 1..Len(queue) /\ i <= i + k
  BY <1>1, <1>2
<1>4. \A k \in 1..Len(left) : queue[i] <= left[k] /\ left[k] <= newest
  BY <1>1, <1>3 DEF InOrder
<1>5. \A k, l \in 1..Len(left) : k <= l => left[k] <= left[l]
  <2> SUFFICES ASSUME NEW k \in 1..Len(left), NEW l \in 1..Len(left), k <= l
               PROVE  left[k] <= left[l]
    OBVIOUS
  <2>1. i + k <= i + l
    BY <1>1, <1>2
  <2>2. QED
    BY <1>1, <1>3, <2>1 DEF InOrder
<1>6. QED
  BY <1>4, <1>5 DEF InOrder, left

LEMMA MatchInOrder ==
  ASSUME NEW rgbs \in Queues, NEW depths \in Queues, Match(rgbs, depths),
         NEW r \in Stamps \cup {NoStamp}, NEW d \in Stamps \cup {NoStamp},
         syncedRgb \in Stamps \cup {NoStamp}, syncedDepth \in Stamps \cup {NoStamp},
         InOrder(rgbs, r, syncedRgb), InOrder(depths, d, syncedDepth)
  PROVE  /\ InOrder(rgbQueue', r, syncedRgb') /\ InOrder(depthQueue', d, syncedDepth')
         /\ syncedRgb <= syncedRgb' /\ syncedDepth <= syncedDepth'
<1>1. CASE \E i \in 1..Len(rgbs), j \in 1..Len(depths) : Matched(rgbs, depths, i, j)
  BY <1>1, DropInOrder DEF Matched
<1>2. CASE Unmatched(rgbs, depths)
  <2>1. syncedRgb \in Int /\ syncedDepth \in Int
    BY RgbdSyncAssumption DEF Stamps, NoStamp
  <2>2. QED
    BY <1>2, <2>1 DEF Unmatched, syncedVars
<1>3. QED
  BY <1>1, <1>2 DEF Match

LEMMA OrderStep ==
  ASSUME TypeOK, OrderInv, [Next]_vars, ordered'
  PROVE  OrderInv' /\ syncedRgb <= syncedRgb' /\ syncedDepth <= syncedDepth'
<1>1. rgbQueue \in Queues /\ depthQueue \in Queues
  BY DEF TypeOK, Queues
<1>2. ASSUME NEW stamp \in Stamps, OnRgb(stamp)
      PROVE  OrderInv' /\ syncedRgb <= syncedRgb' /\ syncedDepth <= syncedDepth'
  <2>1. ordered /\ rgb' = stamp /\ depth' = depth /\ rgb <= stamp
    BY <1>2 DEF OnRgb
  <2>2. InOrder(Push(rgbQueue, stamp), stamp, syncedRgb) /\ Push(rgbQueue, stamp) \in Queues
    BY <1>1, <2>1, PushInOrder, PushType DEF TypeOK, OrderInv
  <2>3. QED
    BY <1>1, <1>2, <2>1, <2>2, MatchInOrder DEF OnRgb, TypeOK, OrderInv
<1>3. ASSUME NEW stamp \in Stamps, OnDepth(stamp)
      PROVE  OrderInv' /\ syncedRgb <= syncedRgb' /\ syncedDepth <= syncedDepth'
  <2>1. ordered /\ depth' = stamp /\ rgb' = rgb /\ depth <= stamp
    BY <1>3 DEF OnDepth
  <2>2. InOrder(Push(depthQueue, stamp), stamp, syncedDepth) /\ Push(depthQueue, stamp) \in Queues
    BY <1>1, <2>1, PushInOrder, PushType DEF TypeOK, OrderInv
  <2>3. QED
    BY <1>1, <1>3, <2>1, <2>2, MatchInOrder DEF OnDepth, TypeOK, OrderInv
<1>4. CASE UNCHANGED vars
  BY <1>4, RgbdSyncAssumption DEF vars, queueVars, syncedVars, OrderInv, TypeOK, Stamps, NoStamp
<1>5. QED
  BY <1>2, <1>3, <1>4 DEF Next

\* As long as the streams are in order, neither frame of the pair in use is
\* replaced by an older one.
THEOREM PairsMoveForwardHolds == Spec => PairsMoveForward
<1>1. Init => TypeOK /\ OrderInv
  BY TypeInit DEF Init, OrderInv, InOrder, NoStamp
<1>2. TypeOK /\ OrderInv /\ [Next]_vars => TypeOK' /\ OrderInv'
  BY TypeStep, OrderStep DEF OrderInv
<1>3. TypeOK /\ OrderInv /\ [Next]_vars
      => [ordered' => syncedRgb' >= syncedRgb /\ syncedDepth' >= syncedDepth]_vars
  <2> SUFFICES ASSUME TypeOK, TypeOK', OrderInv, [Next]_vars, ordered'
               PROVE  syncedRgb' >= syncedRgb /\ syncedDepth' >= syncedDepth
    BY TypeStep
  <2>1. /\ syncedRgb \in Int /\ syncedRgb' \in Int
        /\ syncedDepth \in Int /\ syncedDepth' \in Int
    BY RgbdSyncAssumption DEF TypeOK, Stamps, NoStamp
  <2>2. QED
    BY <2>1, OrderStep
<1>4. QED
  BY <1>1, <1>2, <1>3, PTL DEF Spec, PairsMoveForward

-----------------------------------------------------------------------------
(* A steady camera.  One of the queues is empty, and the other one holds   *)
(* the frames whose partners are not there yet.                            *)

RgbStamp(n) == (n - 1) * Period

DepthStamp(n) == RgbStamp(n) + MaxDelta

IsSteady(r, d) ==
  LET m == IF r < d THEN r ELSE d
  IN  /\ r \in Nat /\ d \in Nat /\ r - d <= QueueSize /\ d - r <= QueueSize
      /\ Len(rgbQueue) = r - m
      /\ \A k \in 1..Len(rgbQueue) : rgbQueue[k] = RgbStamp(m + k)
      /\ Len(depthQueue) = d - m
      /\ \A k \in 1..Len(depthQueue) : depthQueue[k] = DepthStamp(m + k)
      /\ m > 0 => syncedRgb = RgbStamp(m) /\ syncedDepth = DepthStamp(m)

SteadyInv == steady => IsSteady(Count(rgb), Count(depth))

LEMMA PeriodType == Period \in Nat /\ Period > MaxDelta /\ Period > 0
BY RgbdSyncAssumption DEF Period

LEMMA NextPeriod ==
  ASSUME NEW k \in Nat, NEW n \in Nat, k < n
  PROVE  k * Period + Period <= n * Period
<1>1. PICK e \in Nat : n = k + 1 + e
  <2>1. n - k - 1 \in Nat /\ n = k + 1 + (n - k - 1)
    OBVIOUS
  <2>2. QED
    BY <2>1
<1>2. e * Period \in Nat
  BY PeriodType
<1>3. n * Period = k * Period + Period + e * Period
  BY <1>1, PeriodType
<1>4. k * Period \in Nat
  BY PeriodType
<1>5. QED
  BY <1>2, <1>3, <1>4, PeriodType

LEMMA CountOfMultiple ==
  ASSUME NEW k \in Nat, NEW e \in Nat, e < Period
  PROVE  Count(k * Period + e) = k + 1
<1>1. k * Period \in Nat
  BY PeriodType
<1>2. (k * Period + e) \div Period = k
  <2>1. \A q \in Nat, a \in Nat, n \in Nat, p \in Nat :
          a = q * p /\ p > 0 /\ a <= n /\ n < a + p => n \div p = q
    BY SMTT(60)
  <2>2. k * Period <= k * Period + e /\ k * Period + e < k * Period + Period
    BY <1>1, PeriodType
  <2>3. k * Period + e \in Nat
    BY <1>1
  <2>4. PICK a \in Nat : a = k * Period
    BY <1>1
  <2>5. a <= a + e /\ a + e < a + Period /\ a + e \in Nat
    BY <2>2, <2>3, <2>4
  <2>6. (a + e) \div Period = k
    BY <2>1, <2>4, <2>5, PeriodType
  <2>7. QED
    BY <2>4, <2>6
<1>3. QED
  BY <1>1, <1>2 DEF Count, NoStamp

\* A steady frame that finds its partner waiting is matched with it.
LEMMA PartnersMatch ==
  ASSUME NEW rgbs \in Queues, NEW depths \in Queues, Match(rgbs, depths),
         1 <= Len(rgbs), 1 <= Len(depths),
         Distance(rgbs[1], depths[1]) <= MaxDelta,
         \A i \in 1..Len(rgbs), j \in 1..Len(depths) :
           Distance(rgbs[i], depths[j]) <= MaxDelta => i = 1 /\ j = 1
  PROVE  Matched(rgbs, depths, 1, 1)
<1>1. 1 \in 1..Len(rgbs) /\ 1 \in 1..Len(depths)
  BY DEF Queues
<1>2. Distance(rgbs[1], depths[1]) \in Nat
  BY <1>1, QueueElements, DistanceType
<1>3. \E i \in 1..Len(rgbs), j \in 1..Len(depths) : Matches(rgbs, depths, i, j)
  <2> SUFFICES ASSUME ~ \E i \in 1..Len(rgbs), j \in 1..Len(depths) : Matches(rgbs, depths, i, j)
               PROVE  FALSE
    OBVIOUS
  <2>1. Distance(rgbs[1], depths[1]) > MaxDelta
    BY <1>1, NoMatchMeansApart
  <2>2. QED
    BY <1>2, <2>1, RgbdSyncAssumption
<1>4. QED
  BY <1>3 DEF Match, Matches

LEMMA SteadyRgbStep ==
  ASSUME TypeOK, NEW r \in Nat, NEW d \in Nat, IsSteady(r, d), r - d < QueueSize,
         NEW stamp \in Stamps, stamp = r * Period, Match(Push(rgbQueue, stamp), depthQueue)
  PROVE  IsSteady(r + 1, d)'
<1> DEFINE rgbs == Push(rgbQueue, stamp)
<1>0. /\ rgbQueue \in Queues /\ Len(rgbQueue) <= QueueSize /\ Len(rgbQueue) \in Nat
      /\ depthQueue \in Queues /\ Len(depthQueue) \in Nat
  BY DEF TypeOK, Queues
<1>1. CASE d <= r
  <2>1. Len(rgbQueue) = r - d /\ Len(depthQueue) = 0
    BY <1>1 DEF IsSteady
  <2>2. rgbs = Append(rgbQueue, stamp)
    BY <2>1 DEF Push
  <2>3. /\ Len(rgbs) = r + 1 - d /\ rgbs[r + 1 - d] = stamp
        /\ \A k \in 1..(r - d) : rgbs[k] = rgbQueue[k]
    BY <1>0, <2>1, <2>2, AppendProperties DEF Queues
  <2>4. Unmatched(rgbs, depthQueue)
    BY <2>1 DEF Match
  <2> HIDE DEF rgbs
  <2>5. \A k \in 1..(r + 1 - d) : rgbs[k] = RgbStamp(d + k)
    <3> SUFFICES ASSUME NEW k \in 1..(r + 1 - d) PROVE rgbs[k] = RgbStamp(d + k)
      OBVIOUS
    <3>1. CASE k = r + 1 - d
      <4>1. d + k - 1 = r
        BY <3>1
      <4>2. QED
        BY <2>3, <3>1, <4>1 DEF RgbStamp
    <3>2. CASE k # r + 1 - d
      <4>1. k \in 1..Len(rgbQueue) /\ k \in 1..(r - d)
        BY <2>1, <3>2
      <4>2. rgbQueue[k] = RgbStamp(d + k)
        BY <1>1, <4>1 DEF IsSteady
      <4>3. QED
        BY <2>3, <4>1, <4>2
    <3>3. QED
      BY <3>1, <3>2
  <2>6. d > 0 => syncedRgb = RgbStamp(d) /\ syncedDepth = DepthStamp(d)
    BY <1>1 DEF IsSteady
  <2>7. /\ rgbQueue' = rgbs /\ depthQueue' = depthQueue
        /\ syncedRgb' = syncedRgb /\ syncedDepth' = syncedDepth
    BY <2>4 DEF Unmatched, syncedVars
  <2>8. /\ r + 1 \in Nat /\ d \in Nat /\ ~ (r + 1 < d)
        /\ r + 1 - d <= QueueSize /\ d - (r + 1) <= QueueSize
    BY <1>1, RgbdSyncAssumption
  <2>9. QED
    BY <2>1, <2>3, <2>5, <2>6, <2>7, <2>8 DEF IsSteady, RgbStamp, DepthStamp
<1>2. CASE r < d
  <2>1. /\ Len(rgbQueue) = 0 /\ Len(depthQueue) = d - r
        /\ \A k \in 1..Len(depthQueue) : depthQueue[k] = DepthStamp(r + k)
        /\ d - r <= QueueSize
    BY <1>2 DEF IsSteady
  <2>2. rgbs = Append(rgbQueue, stamp)
    BY <2>1, RgbdSyncAssumption DEF Push
  <2>3. rgbs \in Queues /\ Len(rgbs) = 1 /\ rgbs[1] = stamp
    <3>1. /\ Append(rgbQueue, stamp) \in Seq(Stamps)
          /\ Len(Append(rgbQueue, stamp)) = Len(rgbQueue) + 1
          /\ Append(rgbQueue, stamp)[Len(rgbQueue) + 1] = stamp
      BY <1>0, AppendProperties DEF Queues
    <3>2. Len(rgbQueue) + 1 = 1
      BY <2>1
    <3> HIDE DEF rgbs
    <3>3. Len(rgbs) = 1 /\ rgbs[1] = stamp
      BY <2>2, <3>1, <3>2, Zenon
    <3>4. rgbs \in Queues
      BY <2>2, <3>1, Zenon DEF Queues
    <3>5. QED
      BY <3>3, <3>4
  <2> HIDE DEF rgbs
  <2>4. stamp \in Nat
    BY RgbdSyncAssumption DEF Stamps
  <2>5. Distance(rgbs[1], depthQueue[1]) <= MaxDelta /\ depthQueue[1] = stamp + MaxDelta
    <3>1. depthQueue[1] = DepthStamp(r + 1)
      BY <1>2, <2>1
    <3>2. DepthStamp(r + 1) = stamp + MaxDelta
      BY DEF DepthStamp, RgbStamp
    <3>3. QED
      BY <2>3, <2>4, <3>1, <3>2, RgbdSyncAssumption DEF Distance
  <2>6. ASSUME NEW i \in 1..Len(rgbs), NEW j \in 1..Len(depthQueue),
               Distance(rgbs[i], depthQueue[j]) <= MaxDelta
        PROVE  i = 1 /\ j = 1
    <3>1. i = 1 /\ rgbs[i] = stamp
      BY <2>3
    <3>2. depthQueue[j] = (r + j - 1) * Period + MaxDelta
      BY <2>1 DEF DepthStamp, RgbStamp
    <3>3. CASE j # 1
      <4>1. r + j - 1 \in Nat /\ r < r + j - 1
        BY <3>3
      <4>2. stamp + Period <= (r + j - 1) * Period
        BY <4>1, NextPeriod
      <4>3. (r + j - 1) * Period \in Nat
        BY <4>1, PeriodType
      <4>4. Distance(stamp, depthQueue[j]) > MaxDelta
        BY <2>4, <3>2, <4>2, <4>3, PeriodType, RgbdSyncAssumption DEF Distance
      <4>5. depthQueue[j] \in Nat
        BY <3>2, <4>3, RgbdSyncAssumption
      <4>6. Distance(stamp, depthQueue[j]) \in Nat
        BY <2>4, <4>5, DistanceType
      <4>7. QED
        BY <2>6, <3>1, <4>4, <4>6, RgbdSyncAssumption
    <3>4. QED
      BY <3>1, <3>3
  <2>7. Matched(rgbs, depthQueue, 1, 1)
    <3>1. Match(rgbs, depthQueue) /\ 1 <= Len(rgbs) /\ 1 <= Len(depthQueue)
      BY <1>2, <2>1, <2>3 DEF rgbs
    <3>2. QED
      BY <1>0, <2>3, <2>5, <2>6, <3>1, PartnersMatch
  <2>8. 1 \in 1..Len(rgbs) /\ 1 \in 1..Len(depthQueue)
    BY <1>2, <2>1, <2>3
  <2>9. /\ Len(rgbQueue') = 0 /\ Len(depthQueue') = d - (r + 1)
        /\ \A k \in 1..Len(depthQueue') : depthQueue'[k] = depthQueue[1 + k]
        /\ syncedRgb' = stamp /\ syncedDepth' = stamp + MaxDelta
    <3>1. /\ rgbQueue' = DropThrough(rgbs, 1) /\ depthQueue' = DropThrough(depthQueue, 1)
          /\ syncedRgb' = rgbs[1] /\ syncedDepth' = depthQueue[1]
      BY <2>7 DEF Matched
    <3>2. Len(rgbQueue') = Len(rgbs) - 1
      BY <2>3, <2>8, <3>1, DropThroughType
    <3>3. /\ Len(depthQueue') = Len(depthQueue) - 1
          /\ \A k \in 1..Len(depthQueue') : depthQueue'[k] = depthQueue[1 + k]
      BY <1>0, <2>8, <3>1, DropThroughType
    <3>4. QED
      BY <2>1, <2>3, <2>5, <3>1, <3>2, <3>3
  <2>10. \A k \in 1..Len(depthQueue') : depthQueue'[k] = DepthStamp(r + 1 + k)
    <3> SUFFICES ASSUME NEW k \in 1..Len(depthQueue')
                 PROVE  depthQueue'[k] = DepthStamp(r + 1 + k)
      OBVIOUS
    <3>1. 1 + k \in 1..Len(depthQueue)
      BY <2>1, <2>9
    <3>2. r + (1 + k) = r + 1 + k
      BY <3>1
    <3>3. QED
      BY <2>1, <2>9, <3>1, <3>2
  <2>11. RgbStamp(r + 1) = stamp /\ DepthStamp(r + 1) = stamp + MaxDelta
    BY DEF RgbStamp, DepthStamp
  <2>12. (IF r + 1 < d THEN r + 1 ELSE d) = r + 1 /\ r + 1 \in Nat
         /\ r + 1 - d <= QueueSize /\ d - (r + 1) <= QueueSize /\ r + 1 - (r + 1) = 0
    BY <1>2, <2>1, RgbdSyncAssumption
  <2>13. \A k \in 1..Len(rgbQueue') : FALSE
    BY <2>9
  <2>14. QED
    BY <2>9, <2>10, <2>11, <2>12, <2>13 DEF IsSteady, RgbStamp, DepthStamp
<1>3. QED
  BY <1>1, <1>2

LEMMA SteadyDepthStep ==
  ASSUME TypeOK, NEW r \in Nat, NEW d \in Nat, IsSteady(r, d), d - r < QueueSize,
         NEW stamp \in Stamps, stamp = d * Period + MaxDelta,
         Match(rgbQueue, Push(depthQueue, stamp))
  PROVE  IsSteady(r, d + 1)'
<1> DEFINE depths == Push(depthQueue, stamp)
<1>0. /\ rgbQueue \in Queues /\ Len(rgbQueue) \in Nat
      /\ depthQueue \in Queues /\ Len(depthQueue) <= QueueSize /\ Len(depthQueue) \in Nat
  BY DEF TypeOK, Queues
<1>1. CASE r <= d
  <2>0. (IF r < d THEN r ELSE d) = r
    BY <1>1
  <2>1. Len(depthQueue) = d - r /\ Len(rgbQueue) = 0
    BY <2>0 DEF IsSteady
  <2>2. depths = Append(depthQueue, stamp)
    BY <2>1 DEF Push
  <2>3. /\ Len(depths) = d + 1 - r /\ depths[d + 1 - r] = stamp
        /\ \A k \in 1..(d - r) : depths[k] = depthQueue[k]
    BY <1>0, <2>1, <2>2, AppendProperties DEF Queues
  <2>4. Unmatched(rgbQueue, depths)
    BY <2>1 DEF Match
  <2> HIDE DEF depths
  <2>5. \A k \in 1..(d + 1 - r) : depths[k] = DepthStamp(r + k)
    <3> SUFFICES ASSUME NEW k \in 1..(d + 1 - r) PROVE depths[k] = DepthStamp(r + k)
      OBVIOUS
    <3>1. CASE k = d + 1 - r
      <4>1. r + k - 1 = d
        BY <3>1
      <4>2. QED
        BY <2>3, <3>1, <4>1 DEF RgbStamp, DepthStamp
    <3>2. CASE k # d + 1 - r
      <4>1. k \in 1..Len(depthQueue) /\ k \in 1..(d - r)
        BY <2>1, <3>2
      <4>2. depthQueue[k] = DepthStamp(r + k)
        BY <2>0, <4>1 DEF IsSteady
      <4>3. QED
        BY <2>3, <4>1, <4>2
    <3>3. QED
      BY <3>1, <3>2
  <2>6. r > 0 => syncedRgb = RgbStamp(r) /\ syncedDepth = DepthStamp(r)
    BY <2>0 DEF IsSteady
  <2>7. /\ rgbQueue' = rgbQueue /\ depthQueue' = depths
        /\ syncedRgb' = syncedRgb /\ syncedDepth' = syncedDepth
    BY <2>4 DEF Unmatched, syncedVars
  <2>8. /\ r \in Nat /\ d + 1 \in Nat /\ r < d + 1
        /\ r - (d + 1) <= QueueSize /\ d + 1 - r <= QueueSize
    BY <1>1, RgbdSyncAssumption
  <2>9. QED
    BY <2>1, <2>3, <2>5, <2>6, <2>7, <2>8 DEF IsSteady, RgbStamp, DepthStamp
<1>2. CASE d < r
  <2>0. (IF r < d THEN r ELSE d) = d
    BY <1>2
  <2>1. /\ Len(depthQueue) = 0 /\ Len(rgbQueue) = r - d
        /\ \A k \in 1..Len(rgbQueue) : rgbQueue[k] = RgbStamp(d + k)
        /\ r - d <= QueueSize
    BY <2>0 DEF IsSteady
  <2>2. depths = Append(depthQueue, stamp)
    BY <2>1, RgbdSyncAssumption DEF Push
  <2>3. depths \in Queues /\ Len(depths) = 1 /\ depths[1] = stamp
    <3>1. /\ Append(depthQueue, stamp) \in Seq(Stamps)
          /\ Len(Append(depthQueue, stamp)) = Len(depthQueue) + 1
          /\ Append(depthQueue, stamp)[Len(depthQueue) + 1] = stamp
      BY <1>0, AppendProperties DEF Queues
    <3>2. Len(depthQueue) + 1 = 1
      BY <2>1
    <3> HIDE DEF depths
    <3>3. Len(depths) = 1 /\ depths[1] = stamp
      BY <2>2, <3>1, <3>2, Zenon
    <3>4. depths \in Queues
      BY <2>2, <3>1, Zenon DEF Queues
    <3>5. QED
      BY <3>3, <3>4
  <2> HIDE DEF depths
  <2>4. d * Period \in Nat /\ stamp \in Nat
    BY PeriodType, RgbdSyncAssumption
  <2>5. Distance(rgbQueue[1], depths[1]) <= MaxDelta /\ rgbQueue[1] = d * Period
    <3>1. rgbQueue[1] = RgbStamp(d + 1)
      BY <1>2, <2>1
    <3>2. RgbStamp(d + 1) = d * Period
      BY DEF RgbStamp
    <3>3. QED
      BY <2>3, <2>4, <3>1, <3>2, RgbdSyncAssumption DEF Distance
  <2>6. ASSUME NEW i \in 1..Len(rgbQueue), NEW j \in 1..Len(depths),
               Distance(rgbQueue[i], depths[j]) <= MaxDelta
        PROVE  i = 1 /\ j = 1
    <3>1. j = 1 /\ depths[j] = stamp
      BY <2>3
    <3>2. rgbQueue[i] = (d + i - 1) * Period
      BY <2>1 DEF RgbStamp
    <3>3. CASE i # 1
      <4>1. d + i - 1 \in Nat /\ d < d + i - 1
        BY <3>3
      <4>2. d * Period + Period <= (d + i - 1) * Period
        BY <4>1, NextPeriod
      <4>3. (d + i - 1) * Period \in Nat
        BY <4>1, PeriodType
      <4>4. Distance(rgbQueue[i], stamp) > MaxDelta
        BY <2>4, <3>2, <4>2, <4>3, PeriodType, RgbdSyncAssumption DEF Distance, Period
      <4>5. Distance(rgbQueue[i], stamp) \in Nat
        BY <2>4, <3>2, <4>3, DistanceType
      <4>6. QED
        BY <2>6, <3>1, <4>4, <4>5, RgbdSyncAssumption
    <3>4. QED
      BY <3>1, <3>3
  <2>7. Matched(rgbQueue, depths, 1, 1)
    <3>1. Match(rgbQueue, depths) /\ 1 <= Len(rgbQueue) /\ 1 <= Len(depths)
      BY <1>2, <2>1, <2>3 DEF depths
    <3>2. QED
      BY <1>0, <2>3, <2>5, <2>6, <3>1, PartnersMatch
  <2>8. 1 \in 1..Len(rgbQueue) /\ 1 \in 1..Len(depths)
    BY <1>2, <2>1, <2>3
  <2>9. /\ Len(depthQueue') = 0 /\ Len(rgbQueue') = r - (d + 1)
        /\ \A k \in 1..Len(rgbQueue') : rgbQueue'[k] = rgbQueue[1 + k]
        /\ syncedRgb' = d * Period /\ syncedDepth' = stamp
    <3>1. /\ rgbQueue' = DropThrough(rgbQueue, 1) /\ depthQueue' = DropThrough(depths, 1)
          /\ syncedRgb' = rgbQueue[1] /\ syncedDepth' = depths[1]
      BY <2>7 DEF Matched
    <3>2. Len(depthQueue') = Len(depths) - 1
      BY <2>3, <2>8, <3>1, DropThroughType
    <3>3. /\ Len(rgbQueue') = Len(rgbQueue) - 1
          /\ \A k \in 1..Len(rgbQueue') : rgbQueue'[k] = rgbQueue[1 + k]
      BY <1>0, <2>8, <3>1, DropThroughType
    <3>4. QED
      BY <2>1, <2>3, <2>5, <3>1, <3>2, <3>3
  <2>10. \A k \in 1..Len(rgbQueue') : rgbQueue'[k] = RgbStamp(d + 1 + k)
    <3> SUFFICES ASSUME NEW k \in 1..Len(rgbQueue')
                 PROVE  rgbQueue'[k] = RgbStamp(d + 1 + k)
      OBVIOUS
    <3>1. 1 + k \in 1..Len(rgbQueue)
      BY <2>1, <2>9
    <3>2. d + (1 + k) = d + 1 + k
      BY <3>1
    <3>3. QED
      BY <2>1, <2>9, <3>1, <3>2
  <2>11. RgbStamp(d + 1) = d * Period /\ DepthStamp(d + 1) = stamp
    BY DEF RgbStamp, DepthStamp
  <2>12. (IF r < d + 1 THEN r ELSE d + 1) = d + 1 /\ d + 1 \in Nat
         /\ r - (d + 1) <= QueueSize /\ d + 1 - r <= QueueSize /\ d + 1 - (d + 1) = 0
    BY <1>2, <2>1, RgbdSyncAssumption
  <2>13. \A k \in 1..Len(depthQueue') : FALSE
    BY <2>9
  <2>14. QED
    BY <2>9, <2>10, <2>11, <2>12, <2>13 DEF IsSteady, RgbStamp, DepthStamp
<1>3. QED
  BY <1>1, <1>2

LEMMA SteadyStep == TypeOK /\ SteadyInv /\ [Next]_vars => SteadyInv'
<1> SUFFICES ASSUME TypeOK, SteadyInv, [Next]_vars, steady' PROVE IsSteady(Count(rgb), Count(depth))'
  BY DEF SteadyInv
<1>1. ASSUME NEW stamp \in Stamps, OnRgb(stamp)
      PROVE  IsSteady(Count(rgb), Count(depth))'
  <2>1. /\ steady /\ stamp = Count(rgb) * Period
        /\ Count(rgb) - Count(depth) < QueueSize
        /\ rgb' = stamp /\ depth' = depth /\ Match(Push(rgbQueue, stamp), depthQueue)
    BY <1>1 DEF OnRgb, SteadyRgb
  <2>2. PICK r \in Nat, d \in Nat : r = Count(rgb) /\ d = Count(depth) /\ IsSteady(r, d)
    BY <2>1 DEF SteadyInv, IsSteady
  <2>3. IsSteady(r + 1, d)'
    BY <2>1, <2>2, SteadyRgbStep
  <2>4. Count(rgb)' = r + 1
    <3>1. r * Period \in Nat
      BY <2>2, PeriodType
    <3>2. Count(r * Period + 0) = r + 1
      BY <2>2, PeriodType, RgbdSyncAssumption, CountOfMultiple
    <3>3. r * Period + 0 = stamp
      BY <2>1, <2>2, <3>1
    <3>4. Count(rgb)' = Count(stamp)
      BY <2>1 DEF Count, NoStamp, Period
    <3>5. QED
      BY <3>2, <3>3, <3>4
  <2>5. Count(depth)' = d
    BY <2>1, <2>2 DEF Count, NoStamp, Period
  <2>6. QED
    BY <2>3, <2>4, <2>5
<1>2. ASSUME NEW stamp \in Stamps, OnDepth(stamp)
      PROVE  IsSteady(Count(rgb), Count(depth))'
  <2>1. /\ steady /\ stamp = Count(depth) * Period + MaxDelta
        /\ Count(depth) - Count(rgb) < QueueSize
        /\ depth' = stamp /\ rgb' = rgb /\ Match(rgbQueue, Push(depthQueue, stamp))
    BY <1>2 DEF OnDepth, SteadyDepth
  <2>2. PICK r \in Nat, d \in Nat : r = Count(rgb) /\ d = Count(depth) /\ IsSteady(r, d)
    BY <2>1 DEF SteadyInv, IsSteady
  <2>3. IsSteady(r, d + 1)'
    BY <2>1, <2>2, SteadyDepthStep
  <2>4. Count(depth)' = d + 1
    <3>1. d * Period \in Nat
      BY <2>2, PeriodType
    <3>2. Count(d * Period + MaxDelta) = d + 1
      BY <2>2, PeriodType, RgbdSyncAssumption, CountOfMultiple
    <3>3. d * Period + MaxDelta = stamp
      BY <2>1, <2>2, <3>1
    <3>4. Count(depth)' = Count(stamp)
      BY <2>1 DEF Count, NoStamp, Period
    <3>5. QED
      BY <3>2, <3>3, <3>4
  <2>5. Count(rgb)' = r
    BY <2>1, <2>2 DEF Count, NoStamp, Period
  <2>6. QED
    BY <2>3, <2>4, <2>5
<1>3. CASE UNCHANGED vars
  BY <1>3 DEF vars, queueVars, syncedVars, SteadyInv, IsSteady, Count, RgbStamp, DepthStamp, NoStamp, Period
<1>4. QED
  BY <1>1, <1>2, <1>3 DEF Next

\* A steady camera loses no pair.
THEOREM NoPairMissedHolds == Spec => []NoPairMissed
<1>1. Init => SteadyInv
  BY EmptySeq, RgbdSyncAssumption DEF Init, SteadyInv, IsSteady, Count
<1>2. SteadyInv => NoPairMissed
  BY DEF SteadyInv, IsSteady, NoPairMissed, RgbStamp, DepthStamp
<1>3. QED
  BY <1>1, <1>2, SteadyStep, TypeCorrect, PTL DEF Spec

=============================================================================
