\* Two clients and a setting besides the defaults.
SPECIFICATION Spec
CONSTANTS
  Settings = {default, warm}
  Default = default
  Clients = {wifi, ble}
INVARIANTS TypeOK NeverSavesZeroes
PROPERTY LastingSettingIsSaved
