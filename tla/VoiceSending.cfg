SPECIFICATION MCSpec
CONSTANTS
  Workers = {w1, w2}
  NoThread = NoThread
  GuiThread = GuiThread
  Faults = {"unlink", "stop", "hangup"}
  MaxFrames = 2
  mic = mic
  voice = voice
  file = file
  io = io
  Callback = Callback
  Nobody = Nobody
INVARIANTS
  FramesInOrder
  OnlyRegisteredTouched
  CallbackFits
  HardwareServes
PROPERTIES
  EveryFrameSent
  DeviceCloses
CHECK_DEADLOCK FALSE
