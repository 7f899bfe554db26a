SPECIFICATION Spec
CONSTANTS
  Irqs <- MCIrqs
  Exceptions <- MCExceptions
  NoErr = NoErr
  StaleErr = StaleErr
  NmiBlockers <- StiBlocksNmi
  MaxEvents = 3
INVARIANTS
  EventsTypeOK
  FailEntryOnlyForNmi
  BlockedInterruptArmsWindow
  EntryPanicCauses
PROPERTIES
  FifoSpec
  LossIsReported
\* A panic stops the hypervisor.
CHECK_DEADLOCK FALSE
