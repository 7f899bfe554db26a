SPECIFICATION PerCpuSpec
CONSTANTS
  Cpus = {c1, c2}
  Platforms <- MCPlatforms
  Firmwares <- MCFirmwares
INVARIANTS
  PerCpuTypeOK
  VmxOperationBacked
  RegionHeldIffEnabled
PROPERTY
  FeatureControlRespected
\* Both CPUs can have taken a fault in the hypervisor: nothing runs then.
CHECK_DEADLOCK FALSE
