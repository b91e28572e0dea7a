CONSTANTS
  Size = 3
  IDs <- MCIDs
  MaxPushes = 7
SPECIFICATION Spec
INVARIANTS
  TypeOK
  SnapshotIsWindow
  ResumeHasNoGap
  ResumeHasNoRepeat
