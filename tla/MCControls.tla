----------------------------- MODULE MCControls -----------------------------
(* Processors for VmxControls: every combination of what setup can stumble on. *)
EXTENDS VmxControls

\* A processor: how many of RDTSCP and XSAVES/XRSTORS it reports, whether it has the
\* secondary controls UNRESTRICTED_GUEST, RDTSCP and XSAVES_XRSTORS, whether CR3-load
\* exiting is fixed to 1, whether an entry control is, and whether INVEPT works.
MCProcessors ==
  [features : 0..2, unrestricted : BOOLEAN, rdtscp : BOOLEAN, xsaves : BOOLEAN,
   stuck : BOOLEAN, entry : BOOLEAN, invept : BOOLEAN]

If(condition, set) == IF condition THEN set ELSE {}
Cap(zero, one) == [allowed0 |-> zero, allowed1 |-> zero \cup one]

\* "DEFAULT1" is a control of the default1 class the hypervisor does not know,
\* "FIXED1" one that cannot be turned off, "FIXED2" such a one of some processors.
MCCapability(p, f) ==
  IF f = "pin" THEN
    Cap({"FIXED1"}, {"NMI_EXITING", "EXTERNAL_INTERRUPT_EXITING", "VIRTUAL_NMIS"})
  ELSE IF f = "primary" THEN
    Cap({"FIXED1"} \cup If(p.stuck, {"CR3_LOAD_EXITING"}),
        {"USE_IO_BITMAPS", "USE_MSR_BITMAPS", "SECONDARY_CONTROLS", "HLT_EXITING",
         "CR3_LOAD_EXITING", "CR3_STORE_EXITING", "CR8_LOAD_EXITING",
         "CR8_STORE_EXITING", "INTERRUPT_WINDOW", "DEFAULT1"})
  ELSE IF f = "secondary" THEN
    Cap({}, {"ENABLE_EPT"} \cup If(p.unrestricted, {"UNRESTRICTED_GUEST"})
              \cup If(p.rdtscp, {"RDTSCP"}) \cup If(p.xsaves, {"XSAVES_XRSTORS"}))
  ELSE IF f = "exit" THEN
    Cap({"FIXED1"}, {"HOST_ADDRESS_SPACE_SIZE", "ACK_INTERRUPT_ON_EXIT", "SAVE_IA32_PAT",
                     "LOAD_IA32_PAT", "SAVE_IA32_EFER", "LOAD_IA32_EFER", "DEFAULT1"})
  ELSE
    Cap({"FIXED1"} \cup If(p.entry, {"FIXED2"}),
        {"LOAD_IA32_PAT", "LOAD_IA32_EFER", "IA32E_MODE_GUEST", "DEFAULT1"})

MCDefault(p, f) ==
  IF f = "pin" THEN {"FIXED1"}
  ELSE IF f = "primary" THEN {"FIXED1", "DEFAULT1", "CR3_LOAD_EXITING", "CR3_STORE_EXITING"}
  ELSE IF f = "secondary" THEN {}
  ELSE {"FIXED1", "DEFAULT1"}

MCFeatures(p) == If(p.features > 0, {"RDTSCP"}) \cup If(p.features > 1, {"XSAVES_XRSTORS"})
MCInvept(p) == p.invept
=============================================================================
