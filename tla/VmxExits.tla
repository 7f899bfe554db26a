------------------------------ MODULE VmxExits ------------------------------
(***************************************************************************)
(* One vCPU's VM exits (src/vmx/vcpu.rs): inner_run hands an exit to       *)
(* builtin_vmexit_handler, run turns the ones it leaves into the answer    *)
(* the VMM gets, and the VMM runs the vCPU again.  A 64-bit register is    *)
(* the set of its 1-bits; RCX, which selects an MSR or a CPUID sub-leaf,   *)
(* is its low half as a signed number and whether its high half is not     *)
(* zero.                                                                   *)
(* Exits whose control setup_vmcs_control leaves off do not occur.  `exit`  *)
(* is what happened; the handlers go by what ExitInfo reads in the VMCS.   *)
(***************************************************************************)
EXTENDS ExitInfo

CONSTANTS
  Instructions,  \* guest instructions that exit, each with its length `len`
  Events,        \* the other exits: interrupts, faults and failed VM entries
  Registers,     \* records rax, rdx, rcx the guest can have at an exit
  Rejected,      \* x2APIC MSRs whose access EmulatedLocalApic refuses
  HostCpuid      \* what CPUID reports in VMX root operation, by leaf

MsrAccess == {"MSR_READ", "MSR_WRITE"}

\* An opcode has two bytes, or three with the register of MOV to CR; R8 to R15 need a REX
\* prefix, and any instruction may have prefixes that change nothing, up to 15 bytes in
\* all.  A REP prefix counts on string instructions only, and the controls and CR masks of
\* setup_vmcs leave no exit on control registers but MOV to CR0 and CR4.  INVD stands for
\* the instructions that always exit and that run does not know.
OpcodeLength(i) == IF i.reason = "CR_ACCESS" THEN 3 ELSE 2

ASSUME InstructionsAssumption ==
  \A i \in Instructions :
    /\ i.reason \in MsrAccess \cup {"VMCALL", "XSETBV", "INVD", "CR_ACCESS", "CPUID", "IO_INSTRUCTION"}
    /\ i.len \in 1..15
    /\ i.reason \in {"CPUID", "CR_ACCESS"} \cup MsrAccess => i.len >= OpcodeLength(i)
    /\ i.reason = "CR_ACCESS" => /\ i.cr \in {0, 4} /\ i.gpr \in 0..15
                                 /\ i.gpr >= 8 => i.len >= 4
    /\ i.reason = "IO_INSTRUCTION" => /\ i.size \in {1, 2, 4} /\ i.port \subseteq 0..15
                                      /\ i.in \in BOOLEAN /\ i.string \in BOOLEAN
                                      /\ i.rep \in BOOLEAN
                                      /\ i.rep => i.string

\* EXCEPTION_NMI is an NMI or #UD, the one bit of EXCEPTION_BITMAP.
ASSUME EventsAssumption ==
  \A e \in Events :
    /\ e.reason \in {"EXCEPTION_NMI", "INTERRUPT_WINDOW", "EXTERNAL_INTERRUPT", "EPT_VIOLATION",
                     "TRIPLE_FAULT"} \cup EntryFailures
    /\ e.reason = "EXTERNAL_INTERRUPT" => e.vector \subseteq 0..7

GuestRegs == [rax : SUBSET (0..63), rdx : SUBSET (0..63), rcx : [lo : Int, hi : BOOLEAN]]

ASSUME RegistersAssumption == Registers \subseteq GuestRegs

NoInstr == [reason |-> "none"]
NoAnswer == [leaf |-> 0, sub |-> 0, bits |-> {}]
QEMU_EXIT_PORT == {2, 9, 10}             \* 0x604
QEMU_EXIT_MAGIC == {13}                  \* 0x2000
X2APIC == 2048..2303                     \* 0x800..=0x8ff

VARIABLES
  mode,    \* "guest", "exited", "returned" (from run), "panic"
  exit,    \* the last exit
  at,      \* the instruction the guest is at, if it exited and was not got past
  rip,     \* guest RIP, in bytes from where the last exit left it
  regs,    \* guest_regs: rax, rdx, rcx
  answer,  \* the bits in EAX to EDX, if the guest's last instruction was CPUID
  vlapic,  \* the x2APIC register the guest uses
  ret      \* what run returned, until the VMM has seen to it

exitVars == <<mode, exit, at, rip, regs, answer, vlapic, ret>>

ExitTypeOK ==
  /\ mode \in {"guest", "exited", "returned", "panic"}
  /\ exit \in Instructions \cup Events \cup {NoInstr}
  /\ at \in Instructions \cup {NoInstr}
  /\ rip \in 0..15
  /\ regs \in GuestRegs
  /\ vlapic \subseteq 0..63

Low(n, r) == {b \in r : b < n}
High(r) == {b - 32 : b \in {x \in r : x >= 32}}

Init ==
  /\ mode = "guest"
  /\ exit = NoInstr /\ at = NoInstr
  /\ rip = 0
  /\ regs \in Registers
  /\ answer = NoAnswer
  /\ vlapic = {}
  /\ ret = [kind |-> "Nothing"]

-----------------------------------------------------------------------------
(* The guest, up to an exit. *)

\* The two ranges of the MSR bitmap, 0..0x1fff and 0xc0000000..0xc0001fff.
BitmapRanges == 0..8191 \cup -1073741824..-1073733633

\* The MSR bitmap intercepts the x2APIC and IA32_UMWAIT_CONTROL; MSRs out of its
\* ranges always exit.
MsrIntercepted(msr) == msr \in 2048..2111 \/ msr = 225 \/ msr \notin BitmapRanges

\* A new instruction exits, with whatever the guest has in its registers by then.
InstructionExits(i) ==
  /\ mode = "guest"
  /\ at = NoInstr
  /\ regs' \in Registers
  /\ i.reason \in MsrAccess => MsrIntercepted(regs'.rcx.lo)
  /\ exit' = i /\ at' = i
  /\ rip' = 0
  /\ answer' = NoAnswer
  /\ mode' = "exited"
  /\ UNCHANGED <<vlapic, ret>>

\* The instruction that was not got past exits again.
InstructionExitsAgain ==
  /\ mode = "guest"
  /\ at # NoInstr
  /\ exit' = at
  /\ rip' = 0
  /\ mode' = "exited"
  /\ UNCHANGED <<at, regs, answer, vlapic, ret>>

EventExits(e) ==
  /\ mode = "guest"
  /\ exit' = e
  /\ rip' = 0
  /\ mode' = "exited"
  /\ UNCHANGED <<at, regs, answer, vlapic, ret>>

-----------------------------------------------------------------------------
(* inner_run and run *)

\* What inner_run reads from the VMCS.
info == exit_info(ExitReasonField(exit))
reason == info.exit_reason

\* An exit builtin_vmexit_handler deals with; x2APIC MSRs are told by the low half of
\* RCX.
Builtin ==
  \/ reason \in {"INTERRUPT_WINDOW", "XSETBV", "CR_ACCESS", "CPUID"}
  \/ reason \in MsrAccess /\ regs.rcx.lo \in X2APIC

advance_rip(n) == rip' = rip + n

Returns(r) == mode' = "returned" /\ ret' = r

\* A handler fails: inner_run panics.
Panics == mode' = "panic" /\ UNCHANGED <<exit, at, rip, regs, answer, vlapic, ret>>

\* Mutant: the high half of RAX is left in.
ReadEdxRax == regs.rax \cup {b + 32 : b \in Low(32, regs.rdx)}

read_edx_eax == Low(32, regs.rax) \cup {b + 32 : b \in Low(32, regs.rdx)}

write_edx_eax(v) == regs' = [regs EXCEPT !.rax = Low(32, v), !.rdx = High(v)]

HandleInterruptWindow ==
  /\ mode = "exited" /\ reason = "INTERRUPT_WINDOW"
  /\ Returns([kind |-> "Nothing"])
  /\ UNCHANGED <<exit, at, rip, regs, answer, vlapic>>

\* handle_cr: MOV to CR0 or CR4 (VmxGuestCr models what set_cr writes), or a panic.
HandleCr ==
  /\ mode = "exited" /\ reason = "CR_ACCESS"
  /\ LET cr == cr_access_info(CrQualification(exit)) IN
     IF cr.access_type = 0 /\ cr.cr_number \in {0, 4}
       THEN /\ advance_rip(3)
            /\ Returns([kind |-> "Nothing"])
            /\ UNCHANGED <<exit, at, regs, answer, vlapic>>
       ELSE Panics

\* handle_xsetbv refuses every value (VmxXState).
HandleXsetbv ==
  /\ mode = "exited" /\ reason = "XSETBV"
  /\ Panics

\* The registers CPUID ends with; a bit is the register it is in and its name.
cpuid(leaf, rcx) ==
  LET res == HostCpuid[leaf][rcx.lo] IN
  IF leaf = 1 THEN ((res \ {<<"ecx", "VMX">>}) \cup {<<"ecx", "HYPERVISOR">>}) \ {<<"eax", "7">>}
  ELSE IF leaf = 7 /\ rcx = [lo |-> 0, hi |-> FALSE]
  THEN res \ {<<"ecx", "WAITPKG">>, <<"ecx", "LA57">>}
  ELSE IF leaf = 1073741824 THEN {<<"eax", "1">>, <<"eax", "1 << 30">>, <<"ebx ecx edx", "RVMRVMRVMRVM">>}
  ELSE IF leaf = 1073741825 THEN {}
  ELSE IF leaf = 22 /\ ~(\E b \in res : b[1] = "eax") THEN res \cup {<<"eax", "3000 MHz">>}
  ELSE res

\* Mutant: CPUID runs again when the guest resumes.
CpuidStaysPut ==
  /\ mode = "exited" /\ reason = "CPUID"
  /\ answer' = [leaf |-> exit.leaf, sub |-> regs.rcx.lo, bits |-> cpuid(exit.leaf, regs.rcx)]
  /\ regs' = [rax |-> {}, rdx |-> {}, rcx |-> [lo |-> 0, hi |-> FALSE]]
  /\ Returns([kind |-> "Nothing"])
  /\ UNCHANGED <<exit, at, rip, vlapic>>

\* The result replaces all of RAX, RBX, RCX and RDX; `answer` stands for it.
HandleCpuid ==
  /\ mode = "exited" /\ reason = "CPUID"
  /\ answer' = [leaf |-> exit.leaf, sub |-> regs.rcx.lo, bits |-> cpuid(exit.leaf, regs.rcx)]
  /\ regs' = [rax |-> {}, rdx |-> {}, rcx |-> [lo |-> 0, hi |-> FALSE]]
  /\ advance_rip(2)
  /\ Returns([kind |-> "Nothing"])
  /\ UNCHANGED <<exit, at, vlapic>>

\* handle_apic_msr_access, when the device takes the access and when it refuses it.
HandleApicMsr ==
  /\ mode = "exited" /\ reason \in MsrAccess /\ Builtin
  /\ regs.rcx.lo \notin Rejected
  /\ advance_rip(2)
  /\ IF reason = "MSR_WRITE"
     THEN vlapic' = read_edx_eax /\ UNCHANGED regs
     ELSE write_edx_eax(vlapic) /\ UNCHANGED vlapic
  /\ Returns([kind |-> "Nothing"])
  /\ UNCHANGED <<exit, at, answer>>

HandleApicMsrFails ==
  /\ mode = "exited" /\ reason \in MsrAccess /\ Builtin
  /\ regs.rcx.lo \in Rejected
  /\ advance_rip(2)
  /\ mode' = "panic"
  /\ UNCHANGED <<exit, at, regs, answer, vlapic, ret>>

\* VM entry failed: run looks at bit 31 before the reason.
RunFailEntry ==
  /\ mode = "exited" /\ info.entry_failure
  /\ Returns([kind |-> "FailEntry"])
  /\ UNCHANGED <<exit, at, rip, regs, answer, vlapic>>

RunVmcall ==
  /\ mode = "exited" /\ reason = "VMCALL"
  /\ advance_rip(exit.len)
  /\ Returns([kind |-> "Hypercall", nr |-> regs.rax])
  /\ UNCHANGED <<exit, at, regs, answer, vlapic>>

\* What run answers to an I/O instruction.
IoAnswer(io) ==
  LET width == 8 * io.access_size IN
  IF io.is_repeat \/ io.is_string \/ io.access_size \notin {1, 2, 4, 8}
  THEN [kind |-> "Halt"]
  ELSE IF io.is_in THEN [kind |-> "IoRead", port |-> io.port, width |-> width]
  ELSE IF io.port = QEMU_EXIT_PORT /\ width = 16 /\ regs.rax = QEMU_EXIT_MAGIC
  THEN [kind |-> "SystemDown"]
  ELSE [kind |-> "IoWrite", port |-> io.port, width |-> width, data |-> Low(width, regs.rax)]

RunIo ==
  /\ mode = "exited" /\ reason = "IO_INSTRUCTION"
  /\ advance_rip(exit.len)
  /\ Returns(IoAnswer(io_exit_info(IoQualification(exit))))
  /\ UNCHANGED <<exit, at, regs, answer, vlapic>>

\* The assertion is that the interruption information is valid.
RunExternalInterrupt ==
  /\ mode = "exited" /\ reason = "EXTERNAL_INTERRUPT"
  /\ LET int == interrupt_exit_info(InterruptionInfo(exit)) IN
     IF int.valid
       THEN /\ Returns([kind |-> "ExternalInterrupt", vector |-> int.vector])
            /\ UNCHANGED <<exit, at, rip, regs, answer, vlapic>>
       ELSE Panics

\* RIP stays at the instruction, and the address is all of RCX.
RunMsr ==
  /\ mode = "exited" /\ reason \in MsrAccess /\ ~Builtin
  /\ Returns(IF reason = "MSR_READ"
             THEN [kind |-> "SysRegRead", addr |-> regs.rcx]
             ELSE [kind |-> "SysRegWrite", addr |-> regs.rcx, value |-> read_edx_eax])
  /\ UNCHANGED <<exit, at, rip, regs, answer, vlapic>>

\* The last arm of the match in run.
Unsupported ==
  /\ ~Builtin /\ ~info.entry_failure
  /\ reason \notin MsrAccess \cup {"VMCALL", "IO_INSTRUCTION", "EXTERNAL_INTERRUPT"}

\* Mutant: an exit run does not know is skipped.
RunSkipsOther ==
  /\ mode = "exited" /\ Unsupported
  /\ advance_rip(2)
  /\ Returns([kind |-> "Halt"])
  /\ UNCHANGED <<exit, at, regs, answer, vlapic>>

\* Or, before all else, exit_info panics on a reason definitions.rs does not have.
RunOther ==
  /\ mode = "exited" /\ Unsupported
  /\ IF reason = Unknown THEN Panics
     ELSE /\ Returns([kind |-> "Halt"])
          /\ UNCHANGED <<exit, at, rip, regs, answer, vlapic>>

-----------------------------------------------------------------------------
(* The VMM takes the answer and runs the vCPU again. *)

\* It completes IN and RDMSR with set_gpr(0, value) and a hypercall with
\* set_return_value; after SystemDown and FailEntry it stops.
RunAgain ==
  /\ mode = "returned" /\ ret.kind \notin {"SystemDown", "FailEntry"}
  /\ IF ret.kind \in {"IoRead", "SysRegRead", "Hypercall"}
     THEN \E value \in {{}, {0}} : regs' = [regs EXCEPT !.rax = value]
     ELSE UNCHANGED regs
  /\ at' = IF rip = 0 THEN at ELSE NoInstr
  /\ mode' = "guest"
  /\ ret' = [kind |-> "Nothing"]
  /\ UNCHANGED <<exit, rip, answer, vlapic>>

Handle ==
  \/ HandleInterruptWindow \/ HandleCr \/ HandleXsetbv \/ HandleCpuid
  \/ HandleApicMsr \/ HandleApicMsrFails
  \/ RunFailEntry \/ RunVmcall \/ RunIo \/ RunExternalInterrupt \/ RunMsr \/ RunOther

Next ==
  \/ \E i \in Instructions : InstructionExits(i)
  \/ InstructionExitsAgain
  \/ \E e \in Events : EventExits(e)
  \/ Handle
  \/ RunAgain

Spec == Init /\ [][Next]_exitVars

-----------------------------------------------------------------------------
ByInstruction == exit \in Instructions

\* The guest resumes at the start of the instruction that exited or right after it,
\* and at the start if no instruction caused the exit.  The exception: handle_cpuid,
\* handle_cr and handle_apic_msr_access add the length of the bare opcode, so after an
\* instruction with prefixes the guest resumes inside it, never past its end.
ResumesOnBoundary ==
  mode \in {"returned", "guest"} =>
    \/ rip = 0
    \/ ByInstruction /\ rip = exit.len
    \/ /\ ByInstruction /\ exit.reason \in {"CPUID", "CR_ACCESS"} \cup MsrAccess
       /\ rip = OpcodeLength(exit) /\ rip < exit.len

\* "The length in bytes of the instruction whose execution led to the VM exit": RIP is
\* moved by that many bytes, or not at all.
ResumesAfterInstruction ==
  mode \in {"returned", "guest"} => rip = 0 \/ (ByInstruction /\ rip = exit.len)

\* The handlers that emulate an instruction, and the answers that leave it to the VMM.
Emulates == HandleCr \/ HandleCpuid \/ HandleApicMsr
HandedOut == {"IoRead", "IoWrite", "SystemDown", "Hypercall", "SysRegRead", "SysRegWrite"}

CarriedOnce ==
  mode = "exited" /\ mode' = "returned" =>
    LET carried == Emulates \/ ret'.kind \in HandedOut
    IN  /\ carried => ByInstruction
        /\ carried /\ ret'.kind \notin {"SysRegRead", "SysRegWrite"} => rip' # 0
        /\ rip' # 0 => carried \/ (exit.reason = "IO_INSTRUCTION" /\ exit.string)
        /\ regs' # regs \/ vlapic' # vlapic => Emulates

\* An instruction is carried out once: the guest does not come back to one that was
\* emulated or handed to the VMM, gets past no other, and only emulation changes its
\* registers.  Two exceptions: run leaves RIP at an MSR access it hands to the VMM, which
\* exits again at the next run and at every one after it; and string I/O, answered
\* with Halt, is skipped.
ExactlyOnce == [][CarriedOnce]_exitVars

MovesEdxEax ==
  HandleApicMsr =>
    LET moved == IF exit.reason = "MSR_WRITE" THEN regs ELSE regs'
    IN  /\ \A b \in 0..31 : /\ b \in vlapic' <=> b \in moved.rax
                            /\ b + 32 \in vlapic' <=> b \in moved.rdx
        /\ exit.reason = "MSR_READ" => \A b \in 32..63 : b \notin regs'.rax \cup regs'.rdx

\* RDMSR and WRMSR of an x2APIC register move 32 bits in each of EAX and EDX: the rest
\* of RAX and RDX is ignored by one and cleared by the other.
ApicMsrMovesEdxEax == [][MovesEdxEax]_exitVars

\* What run tells the VMM is what happened: the port, width, direction and data of the
\* guest's own IN or OUT, the vector of the interrupt, the value of the MSR; and only
\* XSETBV and a refused x2APIC register make the exit handlers panic.
AnswerMatchesExit ==
  LET is(kind) == ret.kind = kind
      isIo(in) == /\ exit.reason = "IO_INSTRUCTION" /\ exit.in = in /\ ~exit.string
                  /\ ret.port = exit.port /\ ret.width = 8 * exit.size
  IN  /\ is("IoRead") => isIo(TRUE)
      /\ is("IoWrite") => isIo(FALSE) /\ ret.data = {b \in regs.rax : b < 8 * exit.size}
      /\ is("ExternalInterrupt") =>
           exit.reason = "EXTERNAL_INTERRUPT" /\ ret.vector = exit.vector
      /\ is("SysRegWrite") => \A b \in 0..31 : /\ (b \in ret.value) = (b \in regs.rax)
                                               /\ (b + 32 \in ret.value) = (b \in regs.rdx)
      /\ is("FailEntry") <=> mode = "returned" /\ exit.reason \in EntryFailures
      /\ mode = "panic" => \/ exit.reason = "XSETBV"
                           \/ exit.reason \in MsrAccess /\ regs.rcx.lo \in Rejected

\* "clear LA57" and "clear waitpkg" in CPUID leaf 7, sub-leaf 0: a guest never sees the
\* paging mode that get_paging_level does not know.
La57Hidden ==
  answer.leaf = 7 /\ answer.sub = 0 =>
    answer.bits \cap {<<"ecx", "WAITPKG">>, <<"ecx", "LA57">>} = {}
=============================================================================
