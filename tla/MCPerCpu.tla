------------------------------ MODULE MCPerCpu ------------------------------
(* Two CPUs, each of any of five kinds and any of four firmwares, for VmxPerCpu. *)
EXTENDS VmxPerCpu

\* A processor on which hardware_enable has nothing to object to.
Good ==
  [vmx |-> TRUE, xsave |-> TRUE, basic |-> TRUE, rev |-> "revA",
   cr0 |-> {"PE", "NE", "PG"}, cr0_fixed0 |-> {"PE", "NE", "PG"},
   cr0_fixed1 |-> CrBits, cr4_fixed0 |-> {"VMXE"}, cr4_fixed1 |-> CrBits]

MCPlatforms ==
  {Good,
   [Good EXCEPT !.rev = "revB", !.xsave = FALSE],
   [Good EXCEPT !.vmx = FALSE],
   [Good EXCEPT !.basic = FALSE],
   [Good EXCEPT !.cr0 = {"PE", "PG"}]}

MCFirmwares == {{}, {"reserved"}, {"LOCKED"}, {"LOCKED", "OUTSIDE_SMX"}}
=============================================================================
