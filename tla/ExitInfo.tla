------------------------------ MODULE ExitInfo ------------------------------
(***************************************************************************)
(* What the processor stores in the VMCS at a VM exit, and what vmcs.rs    *)
(* makes of it: exit_info, io_exit_info, cr_access_info and                *)
(* interrupt_exit_info (src/vmx/vmcs.rs), with the numbers of              *)
(* src/vmx/definitions.rs.  A field is the set of its 1-bits.              *)
(***************************************************************************)
EXTENDS Integers, Sequences

get_bits(bits, lo, hi) == {b - lo : b \in {x \in bits : lo <= x /\ x < hi}}

\* A field of at most four bits as a number, and a number as bits.
Number(bits) == (IF 0 \in bits THEN 1 ELSE 0) + (IF 1 \in bits THEN 2 ELSE 0)
                  + (IF 2 \in bits THEN 4 ELSE 0) + (IF 3 \in bits THEN 8 ELSE 0)
Bit(b, condition) == IF condition THEN {b} ELSE {}
Bits(n) == Bit(0, n % 2 >= 1) \cup Bit(1, n % 4 >= 2) \cup Bit(2, n % 8 >= 4) \cup Bit(3, n % 16 >= 8)

-----------------------------------------------------------------------------
(* The processor *)

\* Basic exit reasons of the exits that occur.
BasicReason ==
  [EXCEPTION_NMI |-> 0, EXTERNAL_INTERRUPT |-> 1, TRIPLE_FAULT |-> 2, INTERRUPT_WINDOW |-> 7,
   CPUID |-> 10, INVD |-> 13, VMCALL |-> 18, CR_ACCESS |-> 28, IO_INSTRUCTION |-> 30,
   MSR_READ |-> 31, MSR_WRITE |-> 32, INVALID_GUEST_STATE |-> 33, MCE_DURING_VMENTRY |-> 41,
   EPT_VIOLATION |-> 48, XSETBV |-> 55]

\* VM-entry failures, which go through the exit path with bit 31 set.
EntryFailures == {"INVALID_GUEST_STATE", "MCE_DURING_VMENTRY"}

\* EXIT_REASON: bits 0 to 15 as a number, and the 1-bits above them.
ExitReasonField(e) ==
  [basic |-> BasicReason[e.reason], high |-> Bit(31, e.reason \in EntryFailures)]

\* Exit qualification of an I/O instruction: size in bytes, port as bits.
IoQualification(e) ==
  Bits(e.size - 1) \cup Bit(3, e.in) \cup Bit(4, e.string) \cup Bit(5, e.rep)
    \cup {b + 16 : b \in e.port}

\* Exit qualification of MOV to a control register.
CrQualification(e) == Bits(e.cr) \cup {b + 8 : b \in Bits(e.gpr)}

\* Interruption information of an external interrupt: type 0, valid.
InterruptionInfo(e) == e.vector \cup {31}

-----------------------------------------------------------------------------
(* The decoders *)

\* VmxExitReason in the order of its numbers, and the numbers it leaves out.
Unknown == "unknown"
ExitReasons ==
  <<"EXCEPTION_NMI", "EXTERNAL_INTERRUPT", "TRIPLE_FAULT", "INIT", "SIPI", "SMI", "OTHER_SMI",
    "INTERRUPT_WINDOW", "NMI_WINDOW", "TASK_SWITCH", "CPUID", "GETSEC", "HLT", "INVD", "INVLPG",
    "RDPMC", "RDTSC", "RSM", "VMCALL", "VMCLEAR", "VMLAUNCH", "VMPTRLD", "VMPTRST", "VMREAD",
    "VMRESUME", "VMWRITE", "VMOFF", "VMON", "CR_ACCESS", "DR_ACCESS", "IO_INSTRUCTION",
    "MSR_READ", "MSR_WRITE", "INVALID_GUEST_STATE", "MSR_LOAD_FAIL", Unknown,
    "MWAIT_INSTRUCTION", "MONITOR_TRAP_FLAG", Unknown, "MONITOR_INSTRUCTION",
    "PAUSE_INSTRUCTION", "MCE_DURING_VMENTRY", Unknown, "TPR_BELOW_THRESHOLD", "APIC_ACCESS",
    "VIRTUALIZED_EOI", "GDTR_IDTR", "LDTR_TR", "EPT_VIOLATION", "EPT_MISCONFIG", "INVEPT",
    "RDTSCP", "PREEMPTION_TIMER", "INVVPID", "WBINVD", "XSETBV", "APIC_WRITE", "RDRAND",
    "INVPCID", "VMFUNC", "ENCLS", "RDSEED", "PML_FULL", "XSAVES", "XRSTORS", "PCONFIG",
    "SPP_EVENT", "UMWAIT", "TPAUSE", "LOADIWKEY">>

VmxExitReason(n) == IF n \in 0..69 THEN ExitReasons[n + 1] ELSE Unknown

\* The reason a handler is chosen by; Unknown makes exit_info panic.
exit_info(full_reason) ==
  [exit_reason |-> VmxExitReason(full_reason.basic), entry_failure |-> 31 \in full_reason.high]

\* Mutant: the size is taken as the processor encodes it.
IoExitInfoNoPlusOne(q) ==
  [access_size |-> Number(get_bits(q, 0, 3)),
   is_in |-> 3 \in q, is_string |-> 4 \in q, is_repeat |-> 5 \in q, port |-> get_bits(q, 16, 32)]

io_exit_info(q) ==
  [access_size |-> Number(get_bits(q, 0, 3)) + 1,
   is_in |-> 3 \in q, is_string |-> 4 \in q, is_repeat |-> 5 \in q, port |-> get_bits(q, 16, 32)]

cr_access_info(q) ==
  [cr_number |-> Number(get_bits(q, 0, 4)), access_type |-> Number(get_bits(q, 4, 6)),
   gpr |-> Number(get_bits(q, 8, 12))]

interrupt_exit_info(info) == [vector |-> get_bits(info, 0, 8), valid |-> 31 \in info]
=============================================================================
