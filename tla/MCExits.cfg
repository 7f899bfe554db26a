SPECIFICATION Spec
CONSTANTS
  Instructions <- MCInstructions
  Events <- MCEvents
  Registers <- MCRegisters
  Rejected <- MCRejected
  HostCpuid <- MCHostCpuid
INVARIANTS
  ResumesOnBoundary
  AnswerMatchesExit
PROPERTIES
  ExactlyOnce
  ApicMsrMovesEdxEax
\* A panic, SystemDown and FailEntry stop the vCPU.
CHECK_DEADLOCK FALSE
