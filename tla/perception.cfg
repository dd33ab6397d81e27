SPECIFICATION FairSpec
CONSTANTS
  Cameras = {"front", "wrist"}
  Registered = TRUE
  AssociationDistance = 1
  MinConfirmations = 2
  MaxLostAge = 0
  MaxTime = 1
  MaxPlace = 2
  MaxTrack = 2
INVARIANT TypeOK
PROPERTY PoseIsObserved
PROPERTY ConfirmedPoseNeverJumps
PROPERTY ImplementsObject
PROPERTY ConfirmedEventually
