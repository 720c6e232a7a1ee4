\* One scale, one loss of the device, and everything that can be on the screen.
SPECIFICATION DeviceSpec
CONSTANTS
  Sizes <- MCSizes
  FrameSizes <- MCFrameSizes
  Preallocated <- MCPreallocated
  DpiThreshold = 4
  WidthThreshold = 6
  HeightThreshold = 3
  Dpis = {2}
  Native = "Landscape"
  Overlays = {"menu", "box", "browser", "about", "cursor", "fps", "loading"}
  MaxDevices = 2
INVARIANT DrawnOnItsDevice
CHECK_DEADLOCK FALSE
