------------------------------ MODULE MCExits ------------------------------
(* One guest, with every kind of exit, and registers with bits in every slice. *)
EXTENDS VmxExits

Io(port, size, in, string) ==
  [reason |-> "IO_INSTRUCTION", len |-> IF string THEN 2 ELSE 1, port |-> port,
   size |-> size, in |-> in, string |-> string, rep |-> string]

MovToCr(len, cr, gpr) == [reason |-> "CR_ACCESS", len |-> len, cr |-> cr, gpr |-> gpr]

\* Ports 0x604 and 0x3f8, and three instructions with prefixes they do not need.
MCInstructions ==
  {[reason |-> "VMCALL", len |-> 3], [reason |-> "XSETBV", len |-> 3],
   [reason |-> "MSR_READ", len |-> 2], [reason |-> "MSR_WRITE", len |-> 2],
   [reason |-> "INVD", len |-> 2], MovToCr(3, 0, 0), MovToCr(4, 4, 9)}
  \cup {[reason |-> "MSR_WRITE", len |-> 3], [reason |-> "CPUID", len |-> 3, leaf |-> 1],
        MovToCr(15, 4, 0)}
  \cup {[reason |-> "CPUID", len |-> 2, leaf |-> l] : l \in {1, 7, 22, 1073741824, 1073741825}}
  \cup {Io({2, 9, 10}, 2, FALSE, FALSE), Io({2, 9, 10}, 1, FALSE, FALSE),
        Io(3..9, 4, FALSE, FALSE), Io(3..9, 1, TRUE, FALSE), Io(3..9, 1, FALSE, TRUE)}

\* Vector 0xf0.
MCEvents ==
  {[reason |-> r] : r \in {"EXCEPTION_NMI", "INTERRUPT_WINDOW", "EPT_VIOLATION", "TRIPLE_FAULT"}
                             \cup EntryFailures}
  \cup {[reason |-> "EXTERNAL_INTERRUPT", vector |-> 4..7]}

\* 0x808 and 0x83f are x2APIC MSRs, 0xe1 is IA32_UMWAIT_CONTROL, and 0x40000000 is in
\* neither range of the MSR bitmap; 0xc0000080 (EFER) is in one that is not intercepted; 0
\* and 1 are CPUID sub-leaves.
MCRegisters ==
  [rax: {{}, {13}, {0, 20, 40}}, rdx: {{}, {0, 40}},
   rcx: [lo: {0, 1, 2056, 2111, 225, 1073741824, -1073741696}, hi: {FALSE}] \cup [lo: {0, 2056}, hi: {TRUE}]]

MCRejected == {2111}

MCHostCpuid ==
  [leaf \in {1, 7, 22, 1073741824, 1073741825} |->
    [sub \in Int |->
      IF leaf = 1 THEN {<<"ecx", "VMX">>, <<"eax", "7">>, <<"edx", "MCE">>}
      ELSE IF leaf = 7 /\ sub = 0 THEN {<<"ecx", "WAITPKG">>, <<"ecx", "LA57">>}
      ELSE {}]]
=============================================================================
