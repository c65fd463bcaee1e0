SPECIFICATION Spec
CONSTANTS
  Default = "XWINDOWS"
  DeviceLists <- EachDevice
  MaxFrames = 6
  Cases = {"both"}
CHECK_DEADLOCK FALSE
INVARIANTS
  DevicesAsAsked
