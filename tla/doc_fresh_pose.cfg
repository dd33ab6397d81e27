SPECIFICATION Spec
CONSTANTS
  Cameras = {"front", "wrist"}
  Registered = TRUE
  AssociationDistance = 0
  MinConfirmations = 1
  MaxLostAge = 0
  MaxTime = 2
  MaxPlace = 0
  MaxTrack = 1
INVARIANT DocFreshPoseIsRecent
