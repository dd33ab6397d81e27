------------------------------ MODULE RgbdSync ------------------------------
(***************************************************************************)
(* One camera of the perception node: the ApproximateRgbdSynchronizer of   *)
(* perception/synchronization.py and the _CameraCache that the callbacks   *)
(* of perception/node.py keep next to it.  Each callback holds the node's  *)
(* lock for all it does here, so it is one action.                         *)
(*                                                                         *)
(* A frame is its stamp.  A frame that cannot be decoded changes nothing   *)
(* and is left out; so are intrinsics and frame ids, which the last        *)
(* message sets and which do not take part in the matching.                *)
(***************************************************************************)
EXTENDS Integers, Sequences

CONSTANTS MaxStamp,   \* bound: the largest stamp considered
          MaxDelta,   \* max_delta_s
          QueueSize   \* queue_size

ASSUME RgbdSyncAssumption ==
  /\ MaxStamp \in Nat
  /\ MaxDelta \in Nat
  /\ QueueSize \in Nat \ {0}

VARIABLES rgbQueue,     \* self._rgb, oldest first
          depthQueue,   \* self._depth, oldest first
          rgb,          \* cache.rgb: the last color frame received
          depth,        \* cache.depth: the last depth frame received
          syncedRgb,    \* cache.synced_rgb
          syncedDepth,  \* cache.synced_depth
          ordered,      \* ghost: each stream came in the order of its stamps
          steady        \* ghost: all frames were those of a steady camera

queueVars  == <<rgbQueue, depthQueue>>
syncedVars == <<syncedRgb, syncedDepth>>
vars == <<queueVars, rgb, depth, syncedVars, ordered, steady>>

Stamps  == 0..MaxStamp
NoStamp == -1

Init ==
  /\ rgbQueue = <<>>
  /\ depthQueue = <<>>
  /\ rgb = NoStamp
  /\ depth = NoStamp
  /\ syncedRgb = NoStamp
  /\ syncedDepth = NoStamp
  /\ ordered = TRUE
  /\ steady = TRUE

\* Mutant: the queue holds one entry less.
PushShort(queue, stamp) ==
  IF Len(queue) + 1 < QueueSize THEN Append(queue, stamp) ELSE <<stamp>>

\* Mutant: a deque without maxlen.
PushUnbounded(queue, stamp) == Append(queue, stamp)

\* deque(maxlen=queue_size): a full queue drops its oldest entry.
Push(queue, stamp) ==
  IF Len(queue) < QueueSize THEN Append(queue, stamp) ELSE Append(Tail(queue), stamp)

Distance(s, t) == IF s < t THEN t - s ELSE s - t

\* The pair of the color frame at i and the depth frame at j precedes every
\* other pair in the order of (distance, i, j).
IsBest(rgbs, depths, i, j) ==
  \A k \in 1..Len(rgbs), l \in 1..Len(depths) :
    LET best  == Distance(rgbs[i], depths[j])
        other == Distance(rgbs[k], depths[l])
    IN  \/ best < other
        \/ best = other /\ (i < k \/ (i = k /\ j <= l))

\* Mutant: a pair at exactly max_delta is refused.
MatchesStrictly(rgbs, depths, i, j) ==
  IsBest(rgbs, depths, i, j) /\ Distance(rgbs[i], depths[j]) < MaxDelta

\* Mutant: the first pair within the window, not the best one.
MatchesFirst(rgbs, depths, i, j) ==
  /\ Distance(rgbs[i], depths[j]) <= MaxDelta
  /\ \A k \in 1..Len(rgbs), l \in 1..Len(depths) :
       Distance(rgbs[k], depths[l]) <= MaxDelta => i < k \/ (i = k /\ j <= l)

\* The best pair, if it is within the window.
Matches(rgbs, depths, i, j) ==
  IsBest(rgbs, depths, i, j) /\ Distance(rgbs[i], depths[j]) <= MaxDelta

\* What is left of a queue once its entry at i is taken: popleft i times.
DropThrough(queue, i) == SubSeq(queue, i + 1, Len(queue))

\* Mutant: the frames are taken, the older ones before them stay.
MatchedAlone(rgbs, depths, i, j) ==
  /\ syncedRgb' = rgbs[i]
  /\ syncedDepth' = depths[j]
  /\ rgbQueue' = SubSeq(rgbs, 1, i - 1) \o SubSeq(rgbs, i + 1, Len(rgbs))
  /\ depthQueue' = SubSeq(depths, 1, j - 1) \o SubSeq(depths, j + 1, Len(depths))

Matched(rgbs, depths, i, j) ==
  /\ syncedRgb' = rgbs[i]
  /\ syncedDepth' = depths[j]
  /\ rgbQueue' = DropThrough(rgbs, i)
  /\ depthQueue' = DropThrough(depths, j)

Unmatched(rgbs, depths) ==
  /\ rgbQueue' = rgbs
  /\ depthQueue' = depths
  /\ UNCHANGED syncedVars

\* _match, then _store_synchronized.
Match(rgbs, depths) ==
  \/ \E i \in 1..Len(rgbs), j \in 1..Len(depths) :
       Matches(rgbs, depths, i, j) /\ Matched(rgbs, depths, i, j)
  \/ /\ ~ \E i \in 1..Len(rgbs), j \in 1..Len(depths) : Matches(rgbs, depths, i, j)
     /\ Unmatched(rgbs, depths)

\* A steady camera: a depth frame belongs to each color frame, as late as the
\* window allows, and neither stream is more than a queue ahead of the other.
Period == 2 * MaxDelta + 1

\* Number of frames of a steady stream up to the one with this stamp.
Count(stamp) == IF stamp = NoStamp THEN 0 ELSE stamp \div Period + 1

SteadyRgb(stamp) ==
  stamp = Count(rgb) * Period /\ Count(rgb) - Count(depth) < QueueSize

SteadyDepth(stamp) ==
  stamp = Count(depth) * Period + MaxDelta /\ Count(depth) - Count(rgb) < QueueSize

OnRgb(stamp) ==
  /\ rgb' = stamp
  /\ ordered' = (ordered /\ rgb <= stamp)
  /\ steady' = (steady /\ SteadyRgb(stamp))
  /\ Match(Push(rgbQueue, stamp), depthQueue)
  /\ UNCHANGED depth

OnDepth(stamp) ==
  /\ depth' = stamp
  /\ ordered' = (ordered /\ depth <= stamp)
  /\ steady' = (steady /\ SteadyDepth(stamp))
  /\ Match(rgbQueue, Push(depthQueue, stamp))
  /\ UNCHANGED rgb

Next == \E stamp \in Stamps : OnRgb(stamp) \/ OnDepth(stamp)

Spec == Init /\ [][Next]_vars

-----------------------------------------------------------------------------
(* _snapshot and _synchronized_depth: what a publication makes of a camera. *)

SnapshotRgb == IF syncedRgb # NoStamp THEN syncedRgb ELSE rgb

\* The check against max_sync_delta_s that adds the desynchronized warning.
Desynchronized ==
  /\ SnapshotRgb # NoStamp /\ syncedDepth # NoStamp
  /\ Distance(SnapshotRgb, syncedDepth) > MaxDelta

DepthUsed == SnapshotRgb # NoStamp /\ syncedDepth # NoStamp /\ ~Desynchronized

=============================================================================
