CONSTANTS
  Images = {i1, i2, i3}
  None = None
  MaxFrames = 4

SPECIFICATION Spec

INVARIANT FrameTypeOK
INVARIANT NothingInUse
INVARIANT ShowsTheFrame
PROPERTY FramesGoOn
