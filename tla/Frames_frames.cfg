SPECIFICATION Spec
CONSTANTS
  Default = "XWINDOWS"
  DeviceLists <- EachDevice
  MaxFrames = 6
  Cases = {}
CHECK_DEADLOCK FALSE
INVARIANTS
  TypeOK
  FramesHaveFiles
  FramingResumes
  DevicesAsAsked
  PrintsItsFrame
PROPERTIES
  FramesStay
