\* The configuration the repository builds: sdkconfig leaves
\* CONFIG_BOOTLOADER_APP_ROLLBACK_ENABLE unset.
SPECIFICATION Spec
CONSTANTS
  RollbackEnabled = FALSE
  BootFailureLimit = 3
PROPERTY BrokenFirmwareIsRolledBack
