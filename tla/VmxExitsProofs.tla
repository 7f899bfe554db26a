--------------------------- MODULE VmxExitsProofs ---------------------------
(***************************************************************************)
(* Proofs about VmxExits, for every set of guest instructions and events   *)
(* that fit what the processor fixes of them, and every register contents. *)
(***************************************************************************)
EXTENDS VmxExits, TLAPS

AllExits == Instructions \cup Events

\* The handler chosen is the one for what happened: the numbers of the processor and
\* those of definitions.rs are the same.
LEMMA ReasonDecoded ==
  ASSUME NEW e \in AllExits
  PROVE  /\ exit_info(ExitReasonField(e)).exit_reason = e.reason
         /\ exit_info(ExitReasonField(e)).entry_failure <=> e.reason \in EntryFailures
<1>1. VmxExitReason(BasicReason[e.reason]) = e.reason
  <2>1. e.reason \in MsrAccess \cup {"VMCALL", "XSETBV", "INVD", "CR_ACCESS", "CPUID",
          "IO_INSTRUCTION", "EXCEPTION_NMI", "INTERRUPT_WINDOW", "EXTERNAL_INTERRUPT",
          "EPT_VIOLATION", "TRIPLE_FAULT"} \cup EntryFailures
    BY InstructionsAssumption, EventsAssumption DEF AllExits
  <2>2. /\ ExitReasons[1] = "EXCEPTION_NMI" /\ ExitReasons[42] = "MCE_DURING_VMENTRY"
        /\ ExitReasons[2] = "EXTERNAL_INTERRUPT" /\ ExitReasons[3] = "TRIPLE_FAULT"
        /\ ExitReasons[8] = "INTERRUPT_WINDOW" /\ ExitReasons[11] = "CPUID"
        /\ ExitReasons[14] = "INVD" /\ ExitReasons[19] = "VMCALL"
        /\ ExitReasons[29] = "CR_ACCESS" /\ ExitReasons[31] = "IO_INSTRUCTION"
        /\ ExitReasons[32] = "MSR_READ" /\ ExitReasons[33] = "MSR_WRITE"
        /\ ExitReasons[34] = "INVALID_GUEST_STATE" /\ ExitReasons[49] = "EPT_VIOLATION"
        /\ ExitReasons[56] = "XSETBV"
    BY DEF ExitReasons
  <2> QED
    BY <2>1, <2>2 DEF VmxExitReason, BasicReason, MsrAccess, EntryFailures
<1>2. 31 \in Bit(31, e.reason \in EntryFailures) <=> e.reason \in EntryFailures
  BY DEF Bit
<1> QED
  BY <1>1, <1>2, Zenon DEF exit_info, ExitReasonField

\* io_exit_info recovers the I/O instruction from its exit qualification.
LEMMA IoDecoded ==
  ASSUME NEW e \in Instructions, e.reason = "IO_INSTRUCTION"
  PROVE  LET io == io_exit_info(IoQualification(e))
         IN  /\ io.access_size = e.size /\ io.port = e.port
             /\ io.is_in = e.in /\ io.is_string = e.string /\ io.is_repeat = e.rep
<1> DEFINE q == IoQualification(e)
<1>0. /\ e.size \in {1, 2, 4} /\ e.port \subseteq 0..15
      /\ e.in \in BOOLEAN /\ e.string \in BOOLEAN /\ e.rep \in BOOLEAN
  BY InstructionsAssumption
<1>1. Bits(e.size - 1) = IF e.size = 1 THEN {} ELSE IF e.size = 2 THEN {0} ELSE {0, 1}
  <2>1. CASE e.size = 1
    BY <2>1 DEF Bits, Bit
  <2>2. CASE e.size = 2
    BY <2>2 DEF Bits, Bit
  <2>3. CASE e.size = 4
    BY <2>3 DEF Bits, Bit
  <2> QED
    BY <1>0, <2>1, <2>2, <2>3
<1>2. /\ 0 \in q <=> e.size # 1
      /\ 1 \in q <=> e.size = 4
      /\ 2 \notin q
      /\ 3 \in q <=> e.in
      /\ 4 \in q <=> e.string
      /\ 5 \in q <=> e.rep
  BY <1>0, <1>1 DEF IoQualification, Bit
<1>3. \A b \in 0..15 : b + 16 \in q <=> b \in e.port
  BY <1>0, <1>1 DEF IoQualification, Bit
<1>4. Number(get_bits(q, 0, 3)) + 1 = e.size
  <2>1. /\ 0 \in get_bits(q, 0, 3) <=> e.size # 1
        /\ 1 \in get_bits(q, 0, 3) <=> e.size = 4
        /\ 2 \notin get_bits(q, 0, 3) /\ 3 \notin get_bits(q, 0, 3)
    BY <1>2 DEF get_bits
  <2> QED
    BY <2>1, <1>0 DEF Number
<1>5. get_bits(q, 16, 32) = e.port
  <2>1. \A x \in q : x \in Int
    BY <1>0, <1>1 DEF IoQualification, Bit
  <2>2. ASSUME NEW b \in get_bits(q, 16, 32) PROVE b \in e.port
    BY <1>3, <2>1, <2>2 DEF get_bits
  <2>3. ASSUME NEW b \in e.port PROVE b \in get_bits(q, 16, 32)
    <3>1. b + 16 \in {x \in q : 16 <= x /\ x < 32} /\ b = (b + 16) - 16
      BY <1>0, <1>3
    <3> QED
      BY <3>1 DEF get_bits
  <2> QED
    BY <2>2, <2>3
<1> QED
  BY <1>0, <1>2, <1>4, <1>5 DEF io_exit_info

\* cr_access_info says MOV to the control register of the instruction.
LEMMA CrDecoded ==
  ASSUME NEW e \in Instructions, e.reason = "CR_ACCESS"
  PROVE  LET cr == cr_access_info(CrQualification(e))
         IN  cr.access_type = 0 /\ cr.cr_number = e.cr
<1> DEFINE q == CrQualification(e)
<1>0. e.cr \in {0, 4} /\ e.gpr \in 0..15
  BY InstructionsAssumption
<1>1. Bits(e.cr) = IF e.cr = 0 THEN {} ELSE {2}
  <2>1. CASE e.cr = 0
    BY <2>1 DEF Bits, Bit
  <2>2. CASE e.cr = 4
    BY <2>2 DEF Bits, Bit
  <2> QED
    BY <1>0, <2>1, <2>2
<1>2. Bits(e.gpr) \subseteq 0..3
  BY DEF Bits, Bit
<1>3. \A x \in q : x \in Int /\ (x < 8 => x = 2 /\ e.cr = 4)
  BY <1>0, <1>1, <1>2 DEF CrQualification
<1>4. 2 \in q <=> e.cr = 4
  BY <1>0, <1>1, <1>2 DEF CrQualification
<1>5. get_bits(q, 4, 6) = {} /\ get_bits(q, 0, 4) = IF e.cr = 4 THEN {2} ELSE {}
  BY <1>3, <1>4 DEF get_bits
<1> QED
  BY <1>0, <1>5 DEF cr_access_info, Number

\* interrupt_exit_info gives the vector of the interrupt, and says it is valid.
LEMMA InterruptDecoded ==
  ASSUME NEW e \in Events, e.reason = "EXTERNAL_INTERRUPT"
  PROVE  LET int == interrupt_exit_info(InterruptionInfo(e))
         IN  int.valid /\ int.vector = e.vector
<1>1. e.vector \subseteq 0..7
  BY EventsAssumption
<1>2. get_bits(e.vector \cup {31}, 0, 8) = e.vector
  BY <1>1 DEF get_bits
<1> QED
  BY <1>2, Zenon DEF interrupt_exit_info, InterruptionInfo

-----------------------------------------------------------------------------
\* An exit leaves RIP at the instruction until a handler moves it, and there is an
\* answer only between the return of run and the next run.
ExitInv ==
  /\ ExitTypeOK
  /\ mode = "exited" => exit \in AllExits /\ rip = 0
  /\ mode # "returned" => ret.kind = "Nothing"
  /\ ResumesOnBoundary
  /\ AnswerMatchesExit

\* What a handler may rely on when it is chosen.
LEMMA Dispatch ==
  ASSUME ExitInv, mode = "exited"
  PROVE  /\ reason = exit.reason /\ rip = 0 /\ exit \in AllExits /\ ret.kind = "Nothing"
         /\ info.entry_failure <=> exit.reason \in EntryFailures
         /\ exit.reason \in MsrAccess \cup {"VMCALL", "XSETBV", "INVD", "CR_ACCESS", "CPUID",
                                            "IO_INSTRUCTION"} => exit \in Instructions
         /\ exit.reason = "EXTERNAL_INTERRUPT" => exit \in Events
         /\ reason # Unknown
<1>1. exit \in AllExits /\ rip = 0 /\ ret.kind = "Nothing"
  BY DEF ExitInv
<1>2. /\ info.exit_reason = exit.reason
      /\ info.entry_failure <=> exit.reason \in EntryFailures
  BY <1>1, ReasonDecoded DEF info
<1>3. /\ exit.reason \in MsrAccess \cup {"VMCALL", "XSETBV", "INVD", "CR_ACCESS", "CPUID",
                                         "IO_INSTRUCTION"} => exit \notin Events
      /\ exit.reason = "EXTERNAL_INTERRUPT" => exit \notin Instructions
      /\ exit.reason # "unknown"
  BY <1>1, InstructionsAssumption, EventsAssumption DEF MsrAccess, AllExits, EntryFailures
<1> QED
  BY <1>1, <1>2, <1>3 DEF reason, AllExits, Unknown

LEMMA BitsOfRegisters ==
  ASSUME NEW r \in GuestRegs
  PROVE  /\ \A x \in SUBSET (0..63) : Low(32, x) \in SUBSET (0..63) /\ High(x) \in SUBSET (0..63)
         /\ Low(32, r.rax) \cup {b + 32 : b \in Low(32, r.rdx)} \in SUBSET (0..63)
<1>1. ASSUME NEW x \in SUBSET (0..63)
      PROVE  /\ Low(32, x) \in SUBSET (0..63) /\ High(x) \in SUBSET (0..63)
             /\ {b + 32 : b \in Low(32, x)} \in SUBSET (0..63)
  <2>1. ASSUME NEW y \in Low(32, x) PROVE y \in 0..31
    BY <2>1 DEF Low
  <2>2. ASSUME NEW y \in High(x) PROVE y \in 0..63
    BY <2>2 DEF High
  <2>3. ASSUME NEW y \in {b + 32 : b \in Low(32, x)} PROVE y \in 0..63
    BY <2>1
  <2> QED
    BY <2>1, <2>2, <2>3
<1>2. r.rax \in SUBSET (0..63) /\ r.rdx \in SUBSET (0..63)
  BY DEF GuestRegs
<1> QED
  BY <1>1, <1>2, SMTT(30)

LEMMA ExitInit == Init => ExitInv
<1> SUFFICES ASSUME Init PROVE ExitInv
  OBVIOUS
<1>1. ExitTypeOK
  BY RegistersAssumption DEF Init, ExitTypeOK
<1> QED
  BY <1>1 DEF Init, ExitInv, ResumesOnBoundary, AnswerMatchesExit

\* A handler that answers Nothing, or nothing the VMM is to carry out.
LEMMA PlainAnswer ==
  ASSUME ExitInv, mode = "exited", mode' = "returned", UNCHANGED exit, ExitTypeOK',
         ret'.kind \in {"Nothing", "Halt", "Hypercall", "SystemDown", "SysRegRead"},
         exit.reason \notin EntryFailures, ResumesOnBoundary'
  PROVE  ExitInv'
BY DEF ExitInv, AnswerMatchesExit

LEMMA ExitStep == ExitInv /\ [Next]_exitVars => ExitInv'
<1> SUFFICES ASSUME ExitInv, [Next]_exitVars PROVE ExitInv'
  OBVIOUS
<1>1. ASSUME NEW i \in Instructions, InstructionExits(i) PROVE ExitInv'
  <2>1. /\ exit' = i /\ at' = i /\ rip' = 0 /\ mode' = "exited" /\ UNCHANGED <<vlapic, ret>>
        /\ regs' \in GuestRegs /\ mode = "guest"
    BY <1>1, RegistersAssumption DEF InstructionExits
  <2>2. ExitTypeOK'
    BY <2>1 DEF ExitInv, ExitTypeOK
  <2> QED
    BY <2>1, <2>2 DEF ExitInv, ResumesOnBoundary, AnswerMatchesExit, AllExits
<1>2. CASE InstructionExitsAgain
  <2>1. /\ exit' = at /\ at # NoInstr /\ rip' = 0 /\ mode' = "exited" /\ mode = "guest"
        /\ UNCHANGED <<at, regs, answer, vlapic, ret>>
    BY <1>2 DEF InstructionExitsAgain
  <2>2. ExitTypeOK' /\ exit' \in AllExits
    BY <2>1 DEF ExitInv, ExitTypeOK, AllExits
  <2> QED
    BY <2>1, <2>2 DEF ExitInv, ResumesOnBoundary, AnswerMatchesExit
<1>3. ASSUME NEW e \in Events, EventExits(e) PROVE ExitInv'
  <2>1. /\ exit' = e /\ rip' = 0 /\ mode' = "exited" /\ mode = "guest"
        /\ UNCHANGED <<at, regs, answer, vlapic, ret>>
    BY <1>3 DEF EventExits
  <2>2. ExitTypeOK' /\ exit' \in AllExits
    BY <2>1 DEF ExitInv, ExitTypeOK, AllExits
  <2> QED
    BY <2>1, <2>2 DEF ExitInv, ResumesOnBoundary, AnswerMatchesExit
<1>4. CASE HandleInterruptWindow
  <2>1. /\ mode = "exited" /\ mode' = "returned" /\ ret'.kind = "Nothing"
        /\ UNCHANGED <<exit, at, rip, regs, answer, vlapic>> /\ reason = "INTERRUPT_WINDOW"
    BY <1>4 DEF HandleInterruptWindow, Returns
  <2>2. ExitTypeOK' /\ ResumesOnBoundary' /\ exit.reason = "INTERRUPT_WINDOW"
    BY <2>1, Dispatch DEF ExitInv, ExitTypeOK, ResumesOnBoundary
  <2> QED
    BY <2>1, <2>2, PlainAnswer DEF EntryFailures
<1>5. CASE HandleCr
  <2>1. mode = "exited" /\ exit.reason = "CR_ACCESS" /\ exit \in Instructions /\ rip = 0
    BY <1>5, Dispatch DEF HandleCr
  <2>2. /\ mode' = "returned" /\ ret'.kind = "Nothing" /\ rip' = 3
        /\ UNCHANGED <<exit, at, regs, answer, vlapic>>
    BY <1>5, <2>1, CrDecoded, InstructionsAssumption DEF HandleCr, Returns, advance_rip
  <2>3. ExitTypeOK'
    BY <2>2 DEF ExitInv, ExitTypeOK
  <2>4. ResumesOnBoundary'
    BY <2>1, <2>2, InstructionsAssumption DEF ResumesOnBoundary, ByInstruction, OpcodeLength,
       MsrAccess
  <2> QED
    BY <2>1, <2>2, <2>3, <2>4, PlainAnswer DEF EntryFailures
<1>6. CASE HandleXsetbv
  <2>1. /\ mode = "exited" /\ exit.reason = "XSETBV" /\ mode' = "panic"
        /\ UNCHANGED <<exit, at, rip, regs, answer, vlapic, ret>>
    BY <1>6, Dispatch DEF HandleXsetbv, Panics
  <2> QED
    BY <2>1 DEF ExitInv, ExitTypeOK, ResumesOnBoundary, AnswerMatchesExit
<1>7. CASE HandleCpuid
  <2>1. mode = "exited" /\ exit.reason = "CPUID" /\ exit \in Instructions /\ rip = 0
    BY <1>7, Dispatch DEF HandleCpuid
  <2>2. /\ mode' = "returned" /\ ret'.kind = "Nothing" /\ rip' = 2
        /\ UNCHANGED <<exit, at, vlapic>>
        /\ regs' = [rax |-> {}, rdx |-> {}, rcx |-> [lo |-> 0, hi |-> FALSE]]
    BY <1>7, <2>1 DEF HandleCpuid, Returns, advance_rip
  <2>3. regs' \in GuestRegs
    BY <2>2 DEF GuestRegs
  <2>4. ExitTypeOK'
    BY <2>2, <2>3 DEF ExitInv, ExitTypeOK
  <2>5. ResumesOnBoundary'
    BY <2>1, <2>2, InstructionsAssumption DEF ResumesOnBoundary, ByInstruction, OpcodeLength,
       MsrAccess
  <2> QED
    BY <2>1, <2>2, <2>4, <2>5, PlainAnswer DEF EntryFailures
<1>8. CASE HandleApicMsr
  <2>1. mode = "exited" /\ exit.reason \in MsrAccess /\ exit \in Instructions /\ rip = 0
    BY <1>8, Dispatch DEF HandleApicMsr
  <2>2. /\ mode' = "returned" /\ ret'.kind = "Nothing" /\ rip' = 2 /\ UNCHANGED <<exit, at>>
        /\ \/ vlapic' = read_edx_eax /\ UNCHANGED regs
           \/ write_edx_eax(vlapic) /\ UNCHANGED vlapic
    BY <1>8, <2>1 DEF HandleApicMsr, Returns, advance_rip
  <2>3. regs \in GuestRegs /\ vlapic \in SUBSET (0..63)
    BY DEF ExitInv, ExitTypeOK
  <2>4. read_edx_eax \in SUBSET (0..63)
    BY <2>3, BitsOfRegisters DEF read_edx_eax
  <2>5. ASSUME write_edx_eax(vlapic) PROVE regs' \in GuestRegs
    <3>1. Low(32, vlapic) \in SUBSET (0..63) /\ High(vlapic) \in SUBSET (0..63)
      BY <2>3, BitsOfRegisters
    <3> QED
      BY <2>3, <2>5, <3>1, Zenon DEF write_edx_eax, GuestRegs
  <2>6. regs' \in GuestRegs /\ vlapic' \in SUBSET (0..63)
    BY <2>2, <2>3, <2>4, <2>5, Zenon
  <2>8. ExitTypeOK'
    BY <2>2, <2>6 DEF ExitInv, ExitTypeOK
  <2>7. ResumesOnBoundary'
    BY <2>1, <2>2, InstructionsAssumption DEF ResumesOnBoundary, ByInstruction, OpcodeLength,
       MsrAccess
  <2> QED
    BY <2>1, <2>2, <2>7, <2>8, PlainAnswer DEF MsrAccess, EntryFailures
<1>9. CASE HandleApicMsrFails
  <2>1. /\ mode = "exited" /\ exit.reason \in MsrAccess /\ mode' = "panic" /\ rip' = 2
        /\ regs.rcx.lo \in Rejected /\ UNCHANGED <<exit, at, regs, answer, vlapic, ret>>
    BY <1>9, Dispatch DEF HandleApicMsrFails, advance_rip
  <2> QED
    BY <2>1 DEF ExitInv, ExitTypeOK, ResumesOnBoundary, AnswerMatchesExit
<1>10. CASE RunFailEntry
  <2>1. /\ mode = "exited" /\ mode' = "returned" /\ ret'.kind = "FailEntry"
        /\ UNCHANGED <<exit, at, rip, regs, answer, vlapic>>
        /\ exit.reason \in EntryFailures /\ rip = 0
    BY <1>10, Dispatch DEF RunFailEntry, Returns
  <2> QED
    BY <2>1 DEF ExitInv, ExitTypeOK, ResumesOnBoundary, AnswerMatchesExit
<1>11. CASE RunVmcall
  <2>1. mode = "exited" /\ exit.reason = "VMCALL" /\ exit \in Instructions /\ rip = 0
    BY <1>11, Dispatch DEF RunVmcall
  <2>2. /\ mode' = "returned" /\ ret'.kind = "Hypercall" /\ rip' = exit.len
        /\ UNCHANGED <<exit, at, regs, answer, vlapic>>
    BY <1>11, <2>1, InstructionsAssumption DEF RunVmcall, Returns, advance_rip
  <2>3. ExitTypeOK' /\ ResumesOnBoundary'
    BY <2>1, <2>2, InstructionsAssumption
       DEF ExitInv, ExitTypeOK, ResumesOnBoundary, ByInstruction
  <2> QED
    BY <2>1, <2>2, <2>3, PlainAnswer DEF EntryFailures
<1>12. CASE RunIo
  <2>1. mode = "exited" /\ exit.reason = "IO_INSTRUCTION" /\ exit \in Instructions /\ rip = 0
    BY <1>12, Dispatch DEF RunIo
  <2> DEFINE io == io_exit_info(IoQualification(exit))
  <2>2. /\ mode' = "returned" /\ ret' = IoAnswer(io) /\ rip' = exit.len
        /\ UNCHANGED <<exit, at, regs, answer, vlapic>>
    BY <1>12, <2>1, InstructionsAssumption DEF RunIo, Returns, advance_rip
  <2>3. ExitTypeOK' /\ ResumesOnBoundary'
    BY <2>1, <2>2, InstructionsAssumption
       DEF ExitInv, ExitTypeOK, ResumesOnBoundary, ByInstruction
  <2>4. /\ io.access_size = exit.size /\ io.port = exit.port
        /\ io.is_in = exit.in /\ io.is_string = exit.string /\ io.is_repeat = exit.rep
    BY <2>1, IoDecoded
  <2>5. CASE ret'.kind \in {"Halt", "SystemDown"}
    BY <2>1, <2>2, <2>3, <2>5, PlainAnswer DEF EntryFailures
  <2>6. CASE ret'.kind \notin {"Halt", "SystemDown"}
    <3> HIDE DEF io
    <3>1. /\ ~exit.string
          /\ \/ exit.in /\ ret' = [kind |-> "IoRead", port |-> exit.port, width |-> 8 * exit.size]
             \/ ~exit.in /\ ret' = [kind |-> "IoWrite", port |-> exit.port,
                                    width |-> 8 * exit.size, data |-> Low(8 * exit.size, regs.rax)]
      BY <2>2, <2>4, <2>6 DEF IoAnswer
    <3>2. exit.in \in BOOLEAN /\ exit.string \in BOOLEAN
      BY <2>1, InstructionsAssumption
    <3>3. AnswerMatchesExit'
      BY <2>1, <2>2, <3>1, <3>2 DEF AnswerMatchesExit, Low, EntryFailures
    <3> QED
      BY <2>1, <2>2, <2>3, <3>3 DEF ExitInv
  <2> QED
    BY <2>5, <2>6
<1>13. CASE RunExternalInterrupt
  <2>1. mode = "exited" /\ exit.reason = "EXTERNAL_INTERRUPT" /\ exit \in Events /\ rip = 0
    BY <1>13, Dispatch DEF RunExternalInterrupt
  <2>2. /\ mode' = "returned" /\ ret' = [kind |-> "ExternalInterrupt", vector |-> exit.vector]
        /\ UNCHANGED <<exit, at, rip, regs, answer, vlapic>>
    BY <1>13, <2>1, InterruptDecoded DEF RunExternalInterrupt, Returns
  <2> QED
    BY <2>1, <2>2 DEF ExitInv, ExitTypeOK, ResumesOnBoundary, AnswerMatchesExit, EntryFailures
<1>14. CASE RunMsr
  <2>1. /\ mode = "exited" /\ exit.reason \in MsrAccess /\ rip = 0 /\ mode' = "returned"
        /\ UNCHANGED <<exit, at, rip, regs, answer, vlapic>>
        /\ \/ ret'.kind = "SysRegRead"
           \/ ret'.kind = "SysRegWrite" /\ ret'.value = read_edx_eax
    BY <1>14, Dispatch DEF RunMsr, Returns
  <2>2. ExitTypeOK' /\ ResumesOnBoundary'
    BY <2>1 DEF ExitInv, ExitTypeOK, ResumesOnBoundary
  <2>3. CASE ret'.kind = "SysRegRead"
    BY <2>1, <2>2, <2>3, PlainAnswer DEF MsrAccess, EntryFailures
  <2>4. CASE ret'.kind = "SysRegWrite" /\ ret'.value = read_edx_eax
    <3>1. regs.rax \in SUBSET (0..63) /\ regs.rdx \in SUBSET (0..63)
      BY DEF ExitInv, ExitTypeOK, GuestRegs
    <3>2. \A b \in 0..31 : /\ (b \in read_edx_eax) = (b \in regs.rax)
                           /\ (b + 32 \in read_edx_eax) = (b \in regs.rdx)
      BY <3>1 DEF read_edx_eax, Low
    <3>3. AnswerMatchesExit'
      BY <2>1, <2>4, <3>2 DEF AnswerMatchesExit, MsrAccess, EntryFailures
    <3> QED
      BY <2>1, <2>2, <3>3 DEF ExitInv
  <2> QED
    BY <2>1, <2>3, <2>4
<1>15. CASE RunOther
  <2>1. /\ mode = "exited" /\ mode' = "returned" /\ ret'.kind = "Halt" /\ rip = 0
        /\ UNCHANGED <<exit, at, rip, regs, answer, vlapic>>
        /\ exit.reason \notin EntryFailures
    BY <1>15, Dispatch DEF RunOther, Returns, Unsupported
  <2>2. ExitTypeOK' /\ ResumesOnBoundary'
    BY <2>1 DEF ExitInv, ExitTypeOK, ResumesOnBoundary
  <2> QED
    BY <2>1, <2>2, PlainAnswer
<1>16. CASE RunAgain
  <2>1. /\ mode = "returned" /\ mode' = "guest" /\ ret'.kind = "Nothing"
        /\ at' \in {at, NoInstr} /\ UNCHANGED <<exit, rip, answer, vlapic>>
        /\ UNCHANGED regs \/ \E value \in {{}, {0}} : regs' = [regs EXCEPT !.rax = value]
    BY <1>16 DEF RunAgain
  <2>2. regs' \in GuestRegs
    BY <2>1 DEF ExitInv, ExitTypeOK, GuestRegs
  <2>3. ExitTypeOK' /\ ResumesOnBoundary'
    BY <2>1, <2>2, SMTT(30) DEF ExitInv, ExitTypeOK, ResumesOnBoundary, ByInstruction
  <2> QED
    BY <2>1, <2>3 DEF ExitInv, AnswerMatchesExit
<1>17. CASE UNCHANGED exitVars
  BY <1>17 DEF exitVars, ExitInv, ExitTypeOK, ResumesOnBoundary, ByInstruction,
     AnswerMatchesExit
<1> QED
  BY <1>1, <1>2, <1>3, <1>4, <1>5, <1>6, <1>7, <1>8, <1>9, <1>10, <1>11, <1>12, <1>13, <1>14,
     <1>15, <1>16, <1>17 DEF Next, Handle

\* ExitInv holds in every reachable state.
THEOREM ExitsCorrect == Spec => []ExitInv
BY ExitInit, ExitStep, PTL DEF Spec

\* The types of the exit state are preserved.
THEOREM ExitTypesCorrect == Spec => []ExitTypeOK
<1>1. ExitInv => ExitTypeOK
  BY DEF ExitInv
<1> QED
  BY <1>1, ExitsCorrect, PTL

\* The guest resumes at or after the instruction that exited, or inside one with prefixes
\* that a handler with a constant length carried out, and never past its end.
THEOREM AlwaysOnBoundary == Spec => []ResumesOnBoundary
<1>1. ExitInv => ResumesOnBoundary
  BY DEF ExitInv
<1> QED
  BY <1>1, ExitsCorrect, PTL

\* What run tells the VMM is what happened.
THEOREM AnswersAlwaysMatch == Spec => []AnswerMatchesExit
<1>1. ExitInv => AnswerMatchesExit
  BY DEF ExitInv
<1> QED
  BY <1>1, ExitsCorrect, PTL

\* An instruction emulated or handed to the VMM is got past, and no other is, but for MSR
\* accesses handed to the VMM, which exit again, and string I/O, which is skipped.
THEOREM InstructionsCarriedOnce == Spec => ExactlyOnce
<1>1. ASSUME ExitInv, [Next]_exitVars, mode = "exited", mode' = "returned" PROVE CarriedOnce
  <2>0. Handle
    BY <1>1 DEF Next, InstructionExits, InstructionExitsAgain, EventExits, RunAgain, exitVars
  <2>d. /\ reason = exit.reason /\ rip = 0 /\ ret.kind = "Nothing"
        /\ exit.reason \in MsrAccess \cup {"VMCALL", "XSETBV", "INVD", "CR_ACCESS", "CPUID",
                                           "IO_INSTRUCTION"} => exit \in Instructions
        /\ reason # Unknown
        /\ info.entry_failure <=> exit.reason \in EntryFailures
    BY <1>1, Dispatch
  <2>l. exit \in Instructions => exit.len \in 1..15
    BY InstructionsAssumption
  <2>1. CASE HandleInterruptWindow \/ RunFailEntry \/ RunOther
    <3>1. ret'.kind \in {"Nothing", "FailEntry", "Halt"} /\ UNCHANGED <<exit, rip, regs, vlapic>>
      BY <1>1, <2>1, <2>d DEF HandleInterruptWindow, RunFailEntry, RunOther, Returns, Panics
    <3>2. ~Emulates
      BY <2>1, <2>d, <3>1 DEF HandleInterruptWindow, RunFailEntry, RunOther, Unsupported, Builtin,
         Emulates, HandleCr, HandleCpuid, HandleApicMsr, EntryFailures, MsrAccess
    <3> QED
      BY <2>d, <3>1, <3>2 DEF CarriedOnce, HandedOut
  <2>2. CASE RunMsr
    <3>1. /\ ret'.kind \in {"SysRegRead", "SysRegWrite"} /\ UNCHANGED <<exit, rip, regs, vlapic>>
          /\ exit \in Instructions
      BY <2>2, <2>d DEF RunMsr, Returns
    <3> QED
      BY <2>d, <3>1 DEF CarriedOnce, HandedOut, ByInstruction
  <2>4. CASE HandleXsetbv \/ HandleApicMsrFails
    BY <1>1, <2>4 DEF HandleXsetbv, HandleApicMsrFails, Panics
  <2>5. CASE Emulates
    <3>1. exit \in Instructions /\ rip' # 0
      BY <1>1, <2>5, <2>d, SMTT(30)
         DEF Emulates, HandleCr, HandleCpuid, HandleApicMsr, Panics, advance_rip
    <3> QED
      BY <2>5, <3>1 DEF CarriedOnce, ByInstruction
  <2>7. CASE RunVmcall
    <3>1. /\ ret'.kind = "Hypercall" /\ exit \in Instructions /\ rip' # 0
          /\ UNCHANGED <<exit, regs, vlapic>>
      BY <2>7, <2>d, <2>l DEF RunVmcall, Returns, advance_rip
    <3> QED
      BY <3>1 DEF CarriedOnce, HandedOut, ByInstruction
  <2>8. CASE RunIo
    <3>1. /\ exit \in Instructions /\ rip' = exit.len /\ UNCHANGED <<exit, regs, vlapic>>
          /\ exit.reason = "IO_INSTRUCTION" /\ ret' = IoAnswer(io_exit_info(IoQualification(exit)))
      BY <1>1, <2>8, <2>d, <2>l, SMTT(30) DEF RunIo, Returns, advance_rip
    <3>2. exit.string \/ ret'.kind \in {"IoRead", "IoWrite", "SystemDown"}
      <4> DEFINE io == io_exit_info(IoQualification(exit))
      <4>1. io.access_size = exit.size /\ io.is_string = exit.string /\ io.is_repeat = exit.rep
        BY <3>1, IoDecoded
      <4>2. /\ exit.size \in {1, 2, 4} /\ exit.string \in BOOLEAN /\ exit.rep \in BOOLEAN
            /\ exit.rep => exit.string
        BY <3>1, InstructionsAssumption
      <4> HIDE DEF io
      <4> QED
        BY <3>1, <4>1, <4>2 DEF IoAnswer, io
    <3> QED
      BY <2>l, <3>1, <3>2 DEF CarriedOnce, HandedOut, ByInstruction
  <2>9. CASE RunExternalInterrupt
    <3>1. ret'.kind = "ExternalInterrupt" /\ UNCHANGED <<exit, rip, regs, vlapic>>
      BY <1>1, <2>9 DEF RunExternalInterrupt, Returns, Panics
    <3>2. ~Emulates
      BY <2>9, <2>d DEF RunExternalInterrupt, Emulates, HandleCr, HandleCpuid, HandleApicMsr,
         MsrAccess
    <3> QED
      BY <2>d, <3>1, <3>2 DEF CarriedOnce, HandedOut
  <2> QED
    BY <2>0, <2>1, <2>2, <2>4, <2>5, <2>7, <2>8, <2>9 DEF Handle, Emulates
<1>2. ExitInv /\ [Next]_exitVars => [CarriedOnce]_exitVars
  BY <1>1 DEF CarriedOnce
<1> QED
  BY <1>2, ExitsCorrect, PTL DEF Spec, ExactlyOnce

\* An x2APIC register is exactly EDX:EAX, both ways, for every contents of RAX and RDX.
THEOREM ApicMsrsMoveEdxEax == Spec => ApicMsrMovesEdxEax
<1>1. ASSUME ExitInv, HandleApicMsr PROVE MovesEdxEax
  <2>1. /\ reason = exit.reason /\ exit.reason \in MsrAccess /\ UNCHANGED exit
        /\ regs.rax \in SUBSET (0..63) /\ regs.rdx \in SUBSET (0..63) /\ vlapic \in SUBSET (0..63)
    BY <1>1, Dispatch DEF HandleApicMsr, ExitInv, ExitTypeOK, GuestRegs
  <2>2. CASE exit.reason = "MSR_WRITE"
    <3>1. vlapic' = read_edx_eax
      BY <1>1, <2>1, <2>2 DEF HandleApicMsr
    <3>2. \A b \in 0..31 : /\ b \in read_edx_eax <=> b \in regs.rax
                           /\ b + 32 \in read_edx_eax <=> b \in regs.rdx
      BY <2>1 DEF read_edx_eax, Low
    <3> QED
      BY <2>2, <3>1, <3>2 DEF MovesEdxEax
  <2>3. CASE exit.reason = "MSR_READ"
    <3>1. vlapic' = vlapic /\ regs'.rax = Low(32, vlapic) /\ regs'.rdx = High(vlapic)
      BY <1>1, <2>1, <2>3, Zenon DEF HandleApicMsr, write_edx_eax, ExitInv, ExitTypeOK,
         GuestRegs
    <3>2. \A b \in 0..31 : b \in Low(32, vlapic) <=> b \in vlapic
      BY DEF Low
    <3>3. \A b \in 0..31 : b \in High(vlapic) <=> b + 32 \in vlapic
      <4>1. ASSUME NEW b \in 0..31, b \in High(vlapic) PROVE b + 32 \in vlapic
        BY <2>1, <4>1 DEF High
      <4>2. ASSUME NEW b \in 0..31, b + 32 \in vlapic PROVE b \in High(vlapic)
        <5>1. b + 32 \in {x \in vlapic : x >= 32} /\ b = (b + 32) - 32
          BY <4>2
        <5> QED
          BY <5>1 DEF High
      <4> QED
        BY <4>1, <4>2
    <3>4. \A b \in 32..63 : b \notin Low(32, vlapic) \cup High(vlapic)
      BY <2>1 DEF Low, High
    <3> QED
      BY <2>3, <3>1, <3>2, <3>3, <3>4 DEF MovesEdxEax
  <2> QED
    BY <2>1, <2>2, <2>3 DEF MsrAccess
<1>2. ExitInv /\ [Next]_exitVars => [MovesEdxEax]_exitVars
  BY <1>1 DEF MovesEdxEax
<1> QED
  BY <1>2, ExitsCorrect, PTL DEF Spec, ApicMsrMovesEdxEax
=============================================================================
