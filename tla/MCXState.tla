------------------------------ MODULE MCXState ------------------------------
(* Two CPUs and two vCPUs for VmxXState. *)
EXTENDS VmxXState, TLC

\* Two hosts' values, and what a guest asks for: AVX, which is valid, and AVX without
\* SSE, which is not.
MCXcr0Values == {{"FPU", "SSE"}, {"FPU", "SSE", "AVX"}}
MCXsetbvArgs == {<<0, {"FPU", "SSE", "AVX"}>>, <<0, {"FPU", "AVX"}>>, <<1, {"FPU"}>>}
MCXssValues == {{}, {"PT"}}
MCKnown == {"FPU", "SSE", "AVX", "BNDREG", "BNDCSR", "OPMASK", "ZMM_HI256", "HI16_ZMM", "PKRU"}

MCSymmetry == Permutations(Cpus) \cup Permutations(Vcpus)
=============================================================================
