--------------------------- MODULE MCWorldSwitch ---------------------------
(* The world switch of two virtual processors, one of which can move. *)
EXTENDS WorldSwitch, TLC

MCIndices == {4, 16, 257}
MCWriteRegs == {"rax"}
MCZero == <<Nothing, "zero">>
MCSymmetry == Permutations(Places) \cup Permutations(Vcpus)
=============================================================================
