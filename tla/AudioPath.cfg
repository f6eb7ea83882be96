CONSTANTS
  Base = 4
  P = 3
  Q = 2
  Channels = 2
  Frames = 2
  Size = 5
  Noise = {100}
  Blur = 1
  InFrames = 2
  StreamFrames = 6
  Period = 3
  Drivers = {"alsa", "ao", "al", "dsound", "oss", "porta", "pulse", "roarvs", "muroar"}
SPECIFICATION Spec
INVARIANTS
  ReadsInside
  KeepsTheInput
  KeepsTime
  DeviceHears
