CONSTANTS
 MaxTime = 13
 MaxOps = 3
 MaxEdits = 3
 News = {"DXCC", "Call"}
 Backs = {"CQ", "StandardCall"}
 Hides = {"Asia"}
 Palette = {"red", "blue"}
 OptionSets <- TwoLoads
 RigTypes <- FourRigs
 CatPtt = {"Icom", "Hrd", "Omni"}
 Indirect = {"Omni"}
 Mic = {"Icom"}
 FirstRig = "Icom"
 Serial = {"S1", "S2"}
 Network = {"N1"}
 Usb = {}
 SavedRigs <- ThreeRigs
 Devices = {"a", "b", "c"}
 Channels = {"left", "right"}
 Fields = {"call", "server"}
 Values = {1, 2}
 Default = 1
 Announced = {"server"}
 Macros = {"x", "y"}
 MaxMacros = 2
 PowerBands = {1, 2}
 PowerModes = {"JT9", "JT9+JT65"}
 Levels = {5, 9}
 Dials <- SixDials
 Turned = {113}
 Offsets = {3, 9, 12}
 StartFreq = 0
 Span = 10
 Fmin = 8
 Top65 = 10
 LastUsed = TRUE
SPECIFICATION MCSpec
INVARIANTS ClockTrue PagesTrue
PROPERTIES SettingsKept SignalTrue LogKept
CHECK_DEADLOCK FALSE
