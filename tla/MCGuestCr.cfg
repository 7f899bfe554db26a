SPECIFICATION Spec
CONSTANTS
  Cr0Bits <- MCCr0Bits
  Cr4Bits <- MCCr4Bits
  CR0_FIXED0 <- MCCr0Fixed0
  CR0_FIXED1 <- MCCr0Fixed1
  CR4_FIXED0 <- MCCr4Fixed0
  CR4_FIXED1 <- MCCr4Fixed1
  Cr0Values <- MCCr0Values
  Cr4Values <- MCCr4Values
  ENTRY_CTLS <- MCEntryCtls
INVARIANTS
  GuestReadsWhatItWrote
  FixedBitsHeld
  CrAccessNeverPanics
  FailEntryCauses
  PageWalkIsGuests
  LegalWriteFailures
\* After a failed VM entry nothing changes.
CHECK_DEADLOCK FALSE
