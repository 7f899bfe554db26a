SPECIFICATION FairSpec
CONSTANTS
  Irqs <- LiveIrqs
  Exceptions <- LiveExceptions
  NoErr = NoErr
  StaleErr = StaleErr
  NmiBlockers <- StiIgnoredByNmi
  MaxEvents = 3
PROPERTIES
  EventsLeaveQueue
  SpuriousWindowCloses
