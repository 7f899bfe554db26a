SPECIFICATION Spec
CONSTANTS
  Ports <- MCPorts
  Msrs <- MCMsrs
  IoRanges <- MCIoRanges
  ApicOffsets <- MCApicOffsets
INVARIANTS
  IoInterceptExact
  MsrInterceptExact
\* A panic stops the hypervisor.
CHECK_DEADLOCK FALSE
