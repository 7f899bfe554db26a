SPECIFICATION Spec
CONSTANTS
  Host = host
  Vcpus = {v1, v2}
  Places = {p1, p2, p3}
  Nothing = nothing
  Zero <- MCZero
  FrameSizes = {20}
  Indices <- MCIndices
  WriteRegs <- MCWriteRegs
  MaxWrites = 1
SYMMETRY MCSymmetry
INVARIANTS
  SwitchIsBalanced
  OperandIsGuests
PROPERTY
  BanksSpec
