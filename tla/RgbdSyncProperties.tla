------------------------- MODULE RgbdSyncProperties -------------------------
(***************************************************************************)
(* What one camera's synchronizer must do.                                 *)
(***************************************************************************)
EXTENDS RgbdSync

\* Bounded queues of stamps; a color frame was synchronized exactly when a
\* depth frame was.
TypeOK ==
  /\ rgbQueue \in Seq(Stamps) /\ Len(rgbQueue) <= QueueSize
  /\ depthQueue \in Seq(Stamps) /\ Len(depthQueue) <= QueueSize
  /\ rgb \in Stamps \cup {NoStamp}
  /\ depth \in Stamps \cup {NoStamp}
  /\ syncedRgb \in Stamps \cup {NoStamp}
  /\ syncedDepth \in Stamps \cup {NoStamp}
  /\ syncedRgb = NoStamp <=> syncedDepth = NoStamp
  /\ ordered \in BOOLEAN /\ steady \in BOOLEAN

\* No missed match: two frames that are waiting in the queues are never
\* within the window of each other, whatever the order in which frames
\* arrive, are matched and are dropped (synchronization.py:47-72, which looks
\* for one pair only, and only when a frame arrives).
NoMatchableLeft ==
  \A i \in 1..Len(rgbQueue), j \in 1..Len(depthQueue) :
    Distance(rgbQueue[i], depthQueue[j]) > MaxDelta

\* As long as each stream delivers its frames in the order of their stamps,
\* the pair in use never goes back in time: neither of its frames is replaced
\* by an older one (synchronization.py:62-65 drops what is older than the
\* frames it takes).  The callbacks are reentrant, so that order is up to the
\* executor.
PairsMoveForward ==
  [][ordered' => syncedRgb' >= syncedRgb /\ syncedDepth' >= syncedDepth]_vars

\* s waits in the queue, and nothing there is nearer to stamp.
IsNearest(s, stamp, queue) ==
  /\ \E k \in 1..Len(queue) : s = queue[k]
  /\ \A k \in 1..Len(queue) : Distance(stamp, s) <= Distance(stamp, queue[k])

\* A pair is made in the callback that brings its second frame, and of that
\* frame and the nearest one that waits for it; no pair is found late or of two
\* frames that waited already, although _match compares all that waits with
\* all (synchronization.py:47-72).
PairsAtOnce ==
  [][syncedVars' # syncedVars =>
       \A stamp \in Stamps \cap {rgb', depth'} :
         /\ OnRgb(stamp) => syncedRgb' = stamp /\ IsNearest(syncedDepth', stamp, depthQueue)
         /\ OnDepth(stamp) => syncedDepth' = stamp /\ IsNearest(syncedRgb', stamp, rgbQueue)]_vars

\* A steady camera loses no pair: the last color frame whose depth frame has
\* arrived too, and that depth frame, are the pair in use
\* (synchronization.py:47-72).
NoPairMissed ==
  LET pairs == IF Count(rgb) < Count(depth) THEN Count(rgb) ELSE Count(depth)
  IN  steady /\ pairs > 0 => /\ syncedRgb = (pairs - 1) * Period
                             /\ syncedDepth = syncedRgb + MaxDelta

=============================================================================
