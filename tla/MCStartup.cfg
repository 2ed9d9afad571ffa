SPECIFICATION SetupSpec
CONSTANTS
  NoConfig = NoConfig
  Unset = Unset
  NoDir = NoDir
  NoFile = NoFile
  Files = {f1, f2, f3}
  ClassNames = {"a", "b"}
  Existing = {"default", "other"}
  ConfigMaps <- MCConfigMaps
  Pods = {w1, w2}
  Runtimes = {"", "containerd", "crio"}
  MaxEdits = 2
SYMMETRY Symmetry
INVARIANTS
  AppliedUnlessCrossed
