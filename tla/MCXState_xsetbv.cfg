SPECIFICATION Spec
CONSTANTS
  Cpus = {c1, c2}
  Vcpus = {v1, v2}
  Xcr0Values <- MCXcr0Values
  XsetbvArgs <- MCXsetbvArgs
  XssValues <- MCXssValues
  Xcr0Known <- MCKnown
  Xsaves = TRUE
SYMMETRY MCSymmetry
INVARIANTS
  XsetbvSetsGuestXcr
\* A panic stops the hypervisor.
CHECK_DEADLOCK FALSE
