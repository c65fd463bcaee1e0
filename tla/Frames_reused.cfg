SPECIFICATION Spec
CONSTANTS
  Default = "XWINDOWS"
  DeviceLists <- EachDevice
  MaxFrames = 6
  Cases = {"reuse"}
CHECK_DEADLOCK FALSE
PROPERTIES
  FramesStay
