SPECIFICATION Spec
CONSTANTS
  Default = "XWINDOWS"
  DeviceLists <- EachDevice
  MaxFrames = 6
  Cases = {"limits"}
CHECK_DEADLOCK FALSE
INVARIANTS
  FramingResumes
