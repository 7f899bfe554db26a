SPECIFICATION ControlsSpec
CONSTANTS
  Processors <- MCProcessors
  Capability <- MCCapability
  Default <- MCDefault
  Features <- MCFeatures
  Invept <- MCInvept
INVARIANTS
  ControlsAllowed
  RequiredControls
  DefaultsKept
\* Setup may fail, and then nothing happens.
CHECK_DEADLOCK FALSE
