------------------------------- MODULE MCVcpu -------------------------------
(* Two CPUs of one or of two VMCS revisions and two vCPUs, for VmxVcpu. *)
EXTENDS VmxVcpu, TLC

MCPlatforms ==
  {[vmx |-> TRUE, xsave |-> TRUE, basic |-> TRUE, rev |-> r,
    cr0 |-> {"PE", "NE", "PG"}, cr0_fixed0 |-> {"PE", "NE", "PG"},
    cr0_fixed1 |-> CrBits, cr4_fixed0 |-> {"VMXE"}, cr4_fixed1 |-> CrBits] :
   r \in Revisions}

MCFirmwares == {{"LOCKED", "OUTSIDE_SMX"}}

\* CPUs and vCPUs are interchangeable: Init gives every CPU every platform.
MCSymmetry == Permutations(Cpus) \cup Permutations(Vcpus)
=============================================================================
