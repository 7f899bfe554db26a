SPECIFICATION Spec
CONSTANTS
  Cpus = {c1, c2}
  Platforms <- MCPlatforms
  Firmwares <- MCFirmwares
  Vcpus = {v1, v2}
  NoVmcs = NoVmcs
  NoCpu = NoCpu
INVARIANTS
  TypeOK
  LifecycleInv
  VmcsOnOneCpu
  GuestRunsOnItsOwnVmcs
  EntryPanicOnlyAfterFailEntry
  FreedVmcsInactive
  NoVmcsActiveOutsideVmx
PROPERTY
  ResidencySpec
\* A panic on every CPU stops the hypervisor.
SYMMETRY MCSymmetry
CHECK_DEADLOCK FALSE
