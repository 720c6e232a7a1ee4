SPECIFICATION DeviceSpec
CONSTANTS
  Sizes <- MCSizes
  FrameSizes <- MCFrameSizes
  Preallocated <- MCPreallocated
  DpiThreshold = 4
  WidthThreshold = 6
  HeightThreshold = 3
  Dpis = {2, 6}
  Native = "Portrait"
  Overlays = {"loading"}
  MaxDevices = 2
INVARIANTS DeviceSound TargetFollowsWindow PictureFits
