---------------------------- MODULE WorldSwitch ----------------------------
(***************************************************************************)
(* The world switch of VmxVcpu (src/vmx/vcpu.rs): vmx_launch, vmx_resume   *)
(* and vmx_exit, instruction by instruction.  The same two macros save and *)
(* restore the host's registers on its stack and the guest's in the first  *)
(* words of the VmxVcpu, which serves as the stack meanwhile; the word     *)
(* after them, host_stack_top, links the two.  The structure may move in   *)
(* memory before it is launched, and again once it has been unbound.       *)
(***************************************************************************)
EXTENDS GeneralRegisters

CONSTANTS
  Host, Vcpus,   \* the host and the virtual processors of one thread
  Places,        \* addresses of a VmxVcpu
  Nothing,       \* no address; a slice that nobody owns
  FrameSizes,    \* words an interrupt of the host may push
  Indices,       \* register numbers given to set_gpr
  WriteRegs,     \* registers written through the accessors of their parts
  MaxWrites      \* bound on the writes by the host

ASSUME OwnersAssumption ==
  /\ Host \notin Vcpus \cup Places \cup {Nothing} /\ Nothing \notin Vcpus
ASSUME InputsAssumption ==
  /\ FrameSizes \subseteq Nat /\ Indices \subseteq Nat /\ WriteRegs \subseteq Regs

VARIABLES
  cpu,           \* the registers of the processor, RSP apart
  rsp,           \* the stack pointer of the host: an area and a word in it
  stack,         \* the words on the host's stack
  mem,           \* guest_regs at each place
  top,           \* host_stack_top at each place
  place,         \* where each VmxVcpu is
  host_rsp,      \* HOST_RSP in the VMCS of each
  guest_rsp,     \* RSP of each guest: in its VMCS, or live while it runs
  launched,      \* VmxVcpu::launched
  self,          \* the virtual processor being run, if any
  pc,            \* the function and the instruction executed next
  strays,        \* who wrote memory outside guest_regs and the host's stack
  writes         \* writes by the host so far

machine == <<cpu, rsp, stack, mem, top>>
vmcs == <<host_rsp, guest_rsp>>
wsVars == <<machine, vmcs, place, launched, self, pc, strays, writes>>

\* A register whose slices all hold the token of an owner and a name.
Token(o, r) == [l \in 0..3 |-> <<o, r>>]
Junk == Token(Nothing, "junk")
Return == Token(Nothing, "return address")
New == <<Host, "new">>
NullSlices == [l \in 0..3 |-> Zero]
Here == place[self]

Init ==
  /\ cpu = [r \in Regs |-> Token(Host, r)]
  /\ rsp = [area |-> Host, word |-> 0] /\ stack = << >>
  /\ mem = [p \in Places |-> [w \in Words |-> NullSlices]]
  /\ top = [p \in Places |-> 0]
  /\ place \in {f \in [Vcpus -> Places] : \A v, u \in Vcpus : v # u => f[v] # f[u]}
  /\ host_rsp = [v \in Vcpus |-> [area |-> Nothing, word |-> 0]]
  /\ guest_rsp = [v \in Vcpus |-> NullSlices]
  /\ launched = [v \in Vcpus |-> FALSE]
  /\ self = Nothing
  /\ pc = [fn |-> "host", at |-> 1]
  /\ strays = {} /\ writes = 0

-----------------------------------------------------------------------------
(* The host, between two runs *)

InHost == pc.fn = "host"

\* new() and its callers move the structure by value; the VMCS does not move, and
\* what is left at the old address does not matter.
Move(v) ==
  /\ InHost /\ ~launched[v]
  /\ \E p \in Places \ {place[u] : u \in Vcpus} :
       /\ place' = [place EXCEPT ![v] = p]
       /\ mem' = [mem EXCEPT ![p] = mem[place[v]], ![place[v]] = mem[p]]
       /\ top' = [top EXCEPT ![p] = top[place[v]], ![place[v]] = top[p]]
  /\ UNCHANGED <<cpu, rsp, stack, vmcs, launched, self, pc, strays, writes>>

\* unbind: the next run launches again and writes HOST_RSP anew.
unbind(v) ==
  /\ InHost
  /\ launched' = [launched EXCEPT ![v] = FALSE]
  /\ UNCHANGED <<machine, vmcs, place, self, pc, strays, writes>>

CanWrite == InHost /\ writes < MaxWrites

WriteReg(v, r, p) ==
  /\ mem' = [mem EXCEPT ![place[v]][Offset(r)] = set_part(@, p, New)]
  /\ writes' = writes + 1
  /\ UNCHANGED <<cpu, rsp, stack, top, vmcs, place, launched, self, pc, strays>>

\* set_gpr: `reg as u8`, then set_reg_of_index, which panics outside its table.
set_gpr(v, i) ==
  /\ CanWrite
  /\ LET r == reg_of_index(i % 256) IN
     \/ r # "panic" /\ WriteReg(v, r, "q")
     \/ /\ r = "panic"
        /\ pc' = [fn |-> "panic", at |-> 1]
        /\ UNCHANGED <<machine, vmcs, place, launched, self, strays, writes>>

set_return_value(v) == CanWrite /\ WriteReg(v, "rax", "q")

\* The setters of the parts of a register.
set_sub_register(v, r, p) == CanWrite /\ p # "q" /\ HasPart(r, p) /\ WriteReg(v, r, p)

set_stack_pointer(v) ==
  /\ CanWrite
  /\ guest_rsp' = [guest_rsp EXCEPT ![v] = set_part(@, "q", New)]
  /\ writes' = writes + 1
  /\ UNCHANGED <<machine, host_rsp, place, launched, self, pc, strays>>

\* HOST_RSP is written at the launch: it is the end of guest_regs where they are now.
set_host_rsp(v) ==
  IF launched[v] THEN host_rsp
  ELSE [host_rsp EXCEPT ![v] = [area |-> place[v], word |-> 16]]

\* inner_run calls vmx_launch or vmx_resume with RDI = self.
inner_run(v) ==
  /\ InHost
  /\ self' = v
  /\ launched' = [launched EXCEPT ![v] = TRUE]
  /\ host_rsp' = set_host_rsp(v)
  /\ cpu' = [r \in Regs |-> Token(IF r = "rdi" THEN v ELSE Host, r)]
  /\ stack' = Append(stack, Return)
  /\ rsp' = [rsp EXCEPT !.word = @ + 1]
  /\ pc' = [fn |-> "vmx_entry", at |-> 1]
  /\ UNCHANGED <<mem, top, guest_rsp, place, strays, writes>>

-----------------------------------------------------------------------------
(* The two naked functions as instructions, and what each instruction does *)

vmx_entry_with ==
  Saves \o <<Ins("store_top"), Ins("use_regs_area")>> \o Restores \o <<Ins("vm_entry")>>

\* Mutant: the host's registers are restored from whatever follows the guest's.
VmxExitSameStack == Saves \o Restores \o <<Ins("ret")>>

vmx_exit == Saves \o <<Ins("load_top")>> \o Restores \o <<Ins("ret")>>

Code == [vmx_entry |-> vmx_entry_with, vmx_exit |-> vmx_exit]
InSwitch == pc.fn \in DOMAIN Code
Next_pc == pc' = [pc EXCEPT !.at = @ + 1]
At(op) == InSwitch /\ Code[pc.fn][pc.at].op = op
Reg == Code[pc.fn][pc.at].reg

\* `push` and `sub rsp, 8`: on the host's stack, or downwards in a VmxVcpu.
Push ==
  /\ At("push") /\ Next_pc
  /\ LET value == IF Reg = "skip" THEN Junk ELSE cpu[Reg] IN
     \/ /\ rsp.area = Host
        /\ stack' = Append(stack, value)
        /\ rsp' = [rsp EXCEPT !.word = @ + 1]
        /\ UNCHANGED <<mem, strays>>
     \/ /\ rsp.area # Host
        /\ rsp' = [rsp EXCEPT !.word = @ - 1]
        /\ mem' = IF Reg # "skip" /\ rsp'.word \in Words
                    THEN [mem EXCEPT ![rsp.area][rsp'.word] = value] ELSE mem
        /\ strays' = strays \cup (IF rsp'.word \in Words THEN {} ELSE {"switch"})
        /\ UNCHANGED stack
  /\ UNCHANGED <<cpu, top, vmcs, place, launched, self, writes>>

\* The word `pop` and `ret` take off the host's stack, and what they leave.
StackTop == stack[Len(stack)]
BelowTop == SubSeq(stack, 1, Len(stack) - 1)

\* `pop` and `add rsp, 8`.
Pop ==
  /\ At("pop") /\ Next_pc
  /\ LET onHost == rsp.area = Host
         value == IF onHost THEN IF stack = << >> THEN Junk ELSE StackTop
                  ELSE IF rsp.word \in Words THEN mem[rsp.area][rsp.word] ELSE Junk
     IN /\ cpu' = IF Reg = "skip" THEN cpu ELSE [cpu EXCEPT ![Reg] = value]
        /\ stack' = IF onHost /\ stack # << >> THEN BelowTop ELSE stack
        /\ rsp' = [rsp EXCEPT !.word = IF onHost THEN @ - 1 ELSE @ + 1]
  /\ UNCHANGED <<mem, top, vmcs, place, launched, self, strays, writes>>

\* `mov [rdi + size], rsp`: a store through RDI, which holds self.
StoreTop ==
  /\ At("store_top") /\ Next_pc
  /\ top' = [top EXCEPT ![Here] = rsp.word]
  /\ UNCHANGED <<cpu, rsp, stack, mem, vmcs, place, launched, self, strays, writes>>

\* `mov rsp, rdi`.
UseRegsArea ==
  /\ At("use_regs_area") /\ Next_pc
  /\ rsp' = [area |-> Here, word |-> 0]
  /\ UNCHANGED <<cpu, stack, mem, top, vmcs, place, launched, self, strays, writes>>

\* `mov rsp, [rsp + size]`: RSP is at the start of the VmxVcpu, whose address it is.
LoadTop ==
  /\ At("load_top") /\ Next_pc
  /\ rsp' = [area |-> Host, word |-> top[rsp.area]]
  /\ UNCHANGED <<cpu, stack, mem, top, vmcs, place, launched, self, strays, writes>>

\* `ret`, to inner_run if what it pops is the return address.
Ret ==
  /\ At("ret")
  /\ pc' = IF rsp.area = Host /\ stack # << >> /\ StackTop = Return
             THEN [fn |-> "host", at |-> 1] ELSE [fn |-> "lost", at |-> 1]
  /\ stack' = IF stack = << >> THEN stack ELSE BelowTop
  /\ rsp' = [rsp EXCEPT !.word = @ - 1]
  /\ self' = Nothing
  /\ UNCHANGED <<cpu, mem, top, vmcs, place, launched, strays, writes>>

-----------------------------------------------------------------------------
(* The processor *)

\* VMLAUNCH or VMRESUME: into the guest; straight to the exit handler when the
\* guest state is refused; or on to the next instruction when the entry is.
VmEntry ==
  /\ At("vm_entry")
  /\ \/ pc' = [fn |-> "guest", at |-> 1] /\ UNCHANGED rsp
     \/ pc' = [fn |-> "vmx_exit", at |-> 1] /\ rsp' = host_rsp[self]
     \/ pc' = [fn |-> "vmx_entry_failed", at |-> 1] /\ UNCHANGED rsp
  /\ UNCHANGED <<cpu, stack, mem, top, vmcs, place, launched, self, strays, writes>>

\* The guest leaves a value of its own in every register.
GuestRuns ==
  /\ pc.fn = "guest"
  /\ cpu' = [r \in Regs |-> Token(self, r)]
  /\ guest_rsp' = [guest_rsp EXCEPT ![self] = Token(self, "rsp")]
  /\ UNCHANGED <<rsp, stack, mem, top, host_rsp, place, launched, self, pc, strays, writes>>

VmExit ==
  /\ pc.fn = "guest"
  /\ pc' = [fn |-> "vmx_exit", at |-> 1]
  /\ rsp' = host_rsp[self]
  /\ UNCHANGED <<cpu, stack, mem, top, vmcs, place, launched, self, strays, writes>>

\* What is pushed on a VmxVcpu used as the stack overwrites the words below RSP.
Clobber(n, who) ==
  /\ mem' = [mem EXCEPT ![rsp.area] =
               [w \in Words |-> IF w \in (rsp.word - n)..(rsp.word - 1) THEN Junk ELSE @[w]]]
  /\ strays' = strays \cup (IF rsp.word - n < 0 THEN {who} ELSE {})

\* An interrupt or NMI of the host, inside the world switch; its handler puts
\* the registers back.
HostInterrupt(n) ==
  /\ InSwitch /\ rsp.area # Host
  /\ Clobber(n, "interrupt")
  /\ UNCHANGED <<cpu, rsp, stack, top, vmcs, place, launched, self, pc, writes>>

\* vmx_entry_failed panics with RSP past the guest's registers.
vmx_entry_failed ==
  /\ pc.fn = "vmx_entry_failed"
  /\ Clobber(rsp.word + 1, "panic")
  /\ pc' = [fn |-> "panic", at |-> 1]
  /\ UNCHANGED <<cpu, rsp, stack, top, vmcs, place, launched, self, writes>>

Panicked == pc.fn = "panic" /\ UNCHANGED wsVars

Next ==
  \/ \E v \in Vcpus :
       \/ Move(v) \/ unbind(v) \/ inner_run(v) \/ set_return_value(v) \/ set_stack_pointer(v)
       \/ \E i \in Indices : set_gpr(v, i)
       \/ \E r \in WriteRegs, p \in DOMAIN Parts : set_sub_register(v, r, p)
  \/ Push \/ Pop \/ StoreTop \/ UseRegsArea \/ LoadTop \/ Ret
  \/ VmEntry \/ GuestRuns \/ VmExit
  \/ \E n \in FrameSizes : HostInterrupt(n)
  \/ vmx_entry_failed \/ Panicked

Spec == Init /\ [][Next]_wsVars

-----------------------------------------------------------------------------
(* The registers of the host and of the guests, wherever they are *)

Index(list, r) == CHOOSE i \in DOMAIN list : list[i] = r

\* Restored so far: the instruction that pops the register has been executed.
Popped(r) == pc.at > Len(save_regs_to_stack) +
                       (IF pc.fn = "vmx_entry" THEN 2 ELSE 1) +
                       Index(restore_regs_from_stack, r)

\* The frame of the host's registers follows the return address.
HostBank ==
  [r \in Regs |->
     IF rsp.area # Host \/ (pc.fn = "vmx_exit" /\ ~Popped(r))
       THEN stack[1 + Index(save_regs_to_stack, r)] ELSE cpu[r]]

GuestBank(v) ==
  [r \in Regs \cup {"rsp"} |->
     IF r = "rsp" THEN guest_rsp[v]
     ELSE IF v = self /\ ( \/ pc.fn = "vmx_entry" /\ Popped(r)
                           \/ pc.fn = "vmx_exit" /\ pc.at <= 16
                           \/ pc.fn \in {"guest", "vmx_entry_failed", "panic"} )
       THEN cpu[r] ELSE mem[place[v]][Offset(r)]]

Banks == INSTANCE RegisterBanks WITH
  Nobody <- Nothing, Names <- Regs \cup {"rsp"},
  bank <- [o \in Vcpus \cup {Host} |-> IF o = Host THEN HostBank ELSE GuestBank(o)],
  running <- IF pc.fn = "guest" THEN self ELSE IF self = Nothing THEN Host ELSE Nothing

-----------------------------------------------------------------------------
(* Properties *)

\* Every instruction of the switch keeps the registers of the host and of all
\* the guests: only the guest that runs, the host before it calls the switch, and
\* the accessors with the effect of the guest's own instruction change them,
\* whatever interrupts the switch.  So the host has back, on its return, the registers
\* it called with.  When vmx_entry_failed panics, the guest's registers are those in
\* the processor: its frames overwrite guest_regs, and nobody runs the guest again.
BanksSpec == Banks!Spec

\* The switch returns to inner_run with the stack pointer it was called with,
\* and what it writes stays in guest_regs and in the host's stack.
SwitchIsBalanced ==
  /\ "switch" \notin strays /\ pc.fn # "lost"
  /\ InHost => rsp = [area |-> Host, word |-> 0] /\ stack = << >>

\* Mutant: handle_cr reads every operand from guest_regs.
CrOperandNoRsp(v, i) ==
  IF reg_of_index(i) = "panic" THEN mem[place[v]][4] ELSE mem[place[v]][Offset(reg_of_index(i))]

\* The source operand of MOV to CR: number 4 is the stack pointer of the guest.
cr_operand(v, i) ==
  IF i = 4 THEN guest_rsp[v] ELSE mem[place[v]][Offset(reg_of_index(i))]

\* After an exit, the operand handle_cr reads for any register number is what the
\* guest, or an accessor since, left in the register the processor numbers so.
OperandIsGuests ==
  InHost => \A v \in Vcpus, i \in 0..15 : cr_operand(v, i) = GuestBank(v)[Encoding[i + 1]]

\* Nothing is written outside the registers and the stack.  Not so when the host is
\* interrupted inside the switch, or when vmx_entry_failed runs: see the README.
NoStrayWrites == strays = {}
=============================================================================
