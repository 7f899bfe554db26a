---------------------- MODULE WorldSwitchBanksProofs -----------------------
(***************************************************************************)
(* WorldSwitch implements RegisterBanks.  The registers of the host and of *)
(* each guest are found by their offset in guest_regs; one lemma for each  *)
(* action says what it does to them, and BanksStep which step of           *)
(* RegisterBanks that is.                                                  *)
(***************************************************************************)
EXTENDS WorldSwitchProofs, TLAPS

\* The host's register r is in its frame, not in the processor.
InFrame(r) == rsp.area # Host \/ (pc.fn = "vmx_exit" /\ pc.at <= 18 + Offset(r))

\* Register r of the guest being run is in the processor, not in guest_regs.
InCpu(r) ==
  \/ pc.fn = "vmx_entry" /\ pc.at > 19 + Offset(r)
  \/ pc.fn = "vmx_exit" /\ pc.at <= 16
  \/ pc.fn \in {"guest", "vmx_entry_failed", "panic"}

HostReg(r) == IF InFrame(r) THEN stack[17 - Offset(r)] ELSE cpu[r]
GuestReg(v, r) == IF v = self /\ InCpu(r) THEN cpu[r] ELSE mem[place[v]][Offset(r)]

\* The instruction that pops a register, by its offset.
LEMMA PoppedByOffset ==
  ASSUME NEW r \in Regs
  PROVE  /\ pc.at \in Int /\ pc.fn = "vmx_entry" => (Popped(r) <=> pc.at > 19 + Offset(r))
         /\ pc.at \in Int /\ pc.fn = "vmx_exit" => (Popped(r) <=> ~(pc.at <= 18 + Offset(r)))
<1>1. /\ Len(save_regs_to_stack) = 16
      /\ Index(restore_regs_from_stack, r) = Offset(r) + 1 /\ Offset(r) \in 0..15
  BY ListDomains, RegisterPlaces
<1> QED
  BY <1>1 DEF Popped

\* The banks, register by register.
LEMMA BanksByOffset ==
  ASSUME pc.at \in Int
  PROVE  /\ HostBank = [r \in Regs |-> HostReg(r)]
         /\ \A v : GuestBank(v) = [r \in Regs \cup {"rsp"} |->
                                     IF r = "rsp" THEN guest_rsp[v] ELSE GuestReg(v, r)]
<1>1. \A r \in Regs : HostBank[r] = HostReg(r)
  <2> SUFFICES ASSUME NEW r \in Regs PROVE HostBank[r] = HostReg(r)
    OBVIOUS
  <2>1. 1 + Index(save_regs_to_stack, r) = 17 - Offset(r)
    BY RegisterPlaces
  <2>2. (rsp.area # Host \/ (pc.fn = "vmx_exit" /\ ~Popped(r))) <=> InFrame(r)
    BY PoppedByOffset DEF InFrame
  <2> QED
    BY <2>1, <2>2, Zenon DEF HostBank, HostReg
<1>2. HostBank = [r \in Regs |-> HostBank[r]]
  BY DEF HostBank
<1>3. ASSUME NEW v
      PROVE  GuestBank(v) = [r \in Regs \cup {"rsp"} |->
                               IF r = "rsp" THEN guest_rsp[v] ELSE GuestReg(v, r)]
  <2>1. ASSUME NEW r \in Regs \cup {"rsp"}
        PROVE  GuestBank(v)[r] = IF r = "rsp" THEN guest_rsp[v] ELSE GuestReg(v, r)
    <3>1. CASE r = "rsp"
      BY <3>1 DEF GuestBank
    <3>2. CASE r # "rsp"
      <4>1. r \in Regs
        BY <3>2
      <4>2. ( \/ pc.fn = "vmx_entry" /\ Popped(r)
              \/ pc.fn = "vmx_exit" /\ pc.at <= 16
              \/ pc.fn \in {"guest", "vmx_entry_failed", "panic"} ) <=> InCpu(r)
        BY <4>1, PoppedByOffset DEF InCpu
      <4> QED
        BY <3>2, <4>2, Zenon DEF GuestBank, GuestReg
    <3> QED
      BY <3>1, <3>2
  <2>2. GuestBank(v) = [r \in Regs \cup {"rsp"} |-> GuestBank(v)[r]]
    BY DEF GuestBank
  <2> QED
    BY <2>1, <2>2, Zenon
<1> QED
  BY <1>1, <1>2, <1>3, Zenon

\* The same after a step.
LEMMA BanksByOffsetAfter ==
  ASSUME (pc.at \in Int)'
  PROVE  ( /\ HostBank = [r \in Regs |-> HostReg(r)]
           /\ \A v : GuestBank(v) = [r \in Regs \cup {"rsp"} |->
                                       IF r = "rsp" THEN guest_rsp[v] ELSE GuestReg(v, r)] )'
BY BanksByOffset, PTL

\* A step that leaves the registers of the host and of every guest as they were.
HostKept == \A r \in Regs : HostReg(r)' = HostReg(r)
GuestsKept ==
  UNCHANGED guest_rsp /\ \A v \in Vcpus, r \in Regs : GuestReg(v, r)' = GuestReg(v, r)

\* Keeping the registers one by one keeps the banks.
LEMMA BanksKept ==
  ASSUME SwitchInv, SwitchInv'
  PROVE  /\ HostKept => HostBank' = HostBank
         /\ GuestsKept => \A v \in Vcpus : GuestBank(v)' = GuestBank(v)
<1>1. pc.at \in Int /\ (pc.at \in Int)'
  BY DEF SwitchInv, SwitchTypeOK
<1>2. HostBank = [r \in Regs |-> HostReg(r)] /\ HostBank' = [r \in Regs |-> HostReg(r)']
  BY <1>1, BanksByOffset, BanksByOffsetAfter, Zenon
<1>3. \A v : GuestBank(v) = [r \in Regs \cup {"rsp"} |->
                               IF r = "rsp" THEN guest_rsp[v] ELSE GuestReg(v, r)]
  BY <1>1, BanksByOffset, Zenon
<1>4. \A v : GuestBank(v)' = [r \in Regs \cup {"rsp"} |->
                                IF r = "rsp" THEN guest_rsp'[v] ELSE GuestReg(v, r)']
  BY <1>1, BanksByOffsetAfter, Zenon
<1>5. HostKept => HostBank' = HostBank
  BY <1>2, Zenon DEF HostKept
<1>6. ASSUME GuestsKept, NEW v \in Vcpus PROVE GuestBank(v)' = GuestBank(v)
  <2>1. guest_rsp' = guest_rsp /\ \A r \in Regs : GuestReg(v, r)' = GuestReg(v, r)
    BY <1>6, Zenon DEF GuestsKept
  <2>2. \A r \in Regs \cup {"rsp"} :
          (IF r = "rsp" THEN guest_rsp'[v] ELSE GuestReg(v, r)')
            = (IF r = "rsp" THEN guest_rsp[v] ELSE GuestReg(v, r))
    BY <2>1, Zenon
  <2> QED
    BY <1>3, <1>4, <2>2, Zenon
<1> QED
  BY <1>5, <1>6, Zenon

\* In the switch, a step that leaves the other processors' words alone keeps the
\* guests' registers if it keeps those of the guest being run.
LEMMA OthersKept ==
  ASSUME SwitchInv, UNCHANGED <<guest_rsp, place, self>>,
         \A v \in Vcpus : v # self => mem'[place[v]] = mem[place[v]],
         \A r \in Regs : GuestReg(self, r)' = GuestReg(self, r)
  PROVE  GuestsKept
<1> SUFFICES ASSUME NEW v \in Vcpus, NEW r \in Regs
             PROVE  GuestReg(v, r)' = GuestReg(v, r)
  BY DEF GuestsKept
<1>1. CASE v = self
  BY <1>1 DEF GuestReg
<1>2. CASE v # self
  BY <1>2 DEF GuestReg
<1> QED
  BY <1>1, <1>2

\* A push of the entry saves a register of the host's that stays in the processor.
LEMMA PushHostBanks ==
  ASSUME SwitchInv, Push, pc.fn = "vmx_entry"
  PROVE  HostKept /\ GuestsKept
<1>1. pc.at \in 1..16
  BY Decode DEF Push
<1>2. self \in Vcpus /\ OnHostStack(pc.at) /\ pc \in [fn : Functions, at : Int]
  <2>1. self \in Vcpus /\ OnHostStack(pc.at)
    BY <1>1 DEF SwitchInv, PositionInv, EntryInv
  <2> QED
    BY <2>1, SMTT(30) DEF SwitchInv, SwitchTypeOK
<1>3. rsp.area = Host
  BY <1>2 DEF OnHostStack
<1>4. /\ rsp' = [rsp EXCEPT !.word = @ + 1] /\ pc' = [pc EXCEPT !.at = @ + 1]
      /\ UNCHANGED <<mem, cpu, guest_rsp, place, self>>
  BY <1>3 DEF Push, Next_pc, vmcs
<1>5. rsp'.area = Host /\ pc'.fn = "vmx_entry" /\ pc'.at = pc.at + 1
  <2>1. rsp \in [area : Places \cup {Host}, word : Int]
    BY DEF SwitchInv, SwitchTypeOK
  <2> QED
    BY <1>2, <1>3, <1>4, <2>1
<1>6. \A r \in Regs : ~InFrame(r) /\ ~InFrame(r)'
  BY <1>3, <1>5 DEF InFrame
<1>7. \A r \in Regs : ~InCpu(r) /\ ~InCpu(r)'
  BY <1>1, <1>5, RegisterPlaces DEF InCpu
<1> QED
  BY <1>4, <1>6, <1>7 DEF HostKept, GuestsKept, HostReg, GuestReg

\* A push of the exit saves a register of the guest's; with the last one they are
\* all in guest_regs.
LEMMA PushAreaBanks ==
  ASSUME SwitchInv, SwitchInv', Push, pc.fn = "vmx_exit"
  PROVE  HostKept /\ GuestsKept
<1>1. pc.at \in 1..16
  BY Decode DEF Push
<1>2. self \in Vcpus /\ OnRegsArea(17 - pc.at) /\ pc \in [fn : Functions, at : Int]
  <2>1. self \in Vcpus /\ OnRegsArea(17 - pc.at)
    BY <1>1, SMTT(30) DEF SwitchInv, PositionInv, ExitInv
  <2> QED
    BY <2>1, SMTT(30) DEF SwitchInv, SwitchTypeOK
<1>3. /\ rsp.area = Here /\ rsp.area # Host /\ Here \in Places
      /\ mem \in [Places -> [Words -> Values]]
  BY <1>1, <1>2, AreaFacts
<1>4. /\ rsp' = [rsp EXCEPT !.word = @ - 1] /\ pc' = [pc EXCEPT !.at = @ + 1]
      /\ UNCHANGED <<stack, cpu, guest_rsp, place, self>>
  BY <1>3 DEF Push, Next_pc, vmcs
<1>5. rsp'.area = rsp.area /\ pc'.fn = "vmx_exit" /\ pc'.at = pc.at + 1
  <2>1. rsp \in [area : Places \cup {Host}, word : Int]
    BY DEF SwitchInv, SwitchTypeOK
  <2> QED
    BY <1>2, <1>4, <2>1
<1>6. HostKept
  BY <1>3, <1>4, <1>5 DEF HostKept, HostReg, InFrame
<1>7. \A v \in Vcpus : v # self => mem'[place[v]] = mem[place[v]]
  <2> SUFFICES ASSUME NEW v \in Vcpus, v # self PROVE mem'[place[v]] = mem[place[v]]
    OBVIOUS
  <2>1. place[v] # Here /\ place[v] \in Places
    BY <1>2 DEF SwitchInv, SwitchTypeOK, LinkInv, Here
  <2>2. \/ mem' = mem
        \/ \E w, x : mem' = [mem EXCEPT ![rsp.area][w] = x]
    BY <1>3, Zenon DEF Push
  <2> QED
    BY <1>3, <2>1, <2>2
<1>8. \A r \in Regs : GuestReg(self, r)' = GuestReg(self, r)
  <2> SUFFICES ASSUME NEW r \in Regs PROVE GuestReg(self, r)' = GuestReg(self, r)
    OBVIOUS
  <2>1. InCpu(r)
    BY <1>1 DEF InCpu
  <2>2. CASE pc.at = 16
    <3>1. mem'[Here'][Offset(r)] = cpu'[r]
      <4>1. pc'.fn = "vmx_exit" /\ pc'.at = 17 /\ (Pushed(r, pc.at))'
        BY <1>5, <2>2, RegisterPlaces DEF Pushed
      <4> QED
        BY <4>1 DEF SwitchInv, PositionInv, ExitInv
    <3> QED
      BY <1>4, <2>1, <3>1, SMTT(30) DEF GuestReg, Here
  <2>3. CASE pc.at # 16
    <3>1. InCpu(r)'
      BY <1>1, <1>5, <2>3 DEF InCpu
    <3> QED
      BY <1>4, <2>1, <3>1 DEF GuestReg
  <2> QED
    BY <2>2, <2>3
<1>9. GuestsKept
  BY <1>4, <1>7, <1>8, OthersKept
<1> QED
  BY <1>6, <1>9

\* A pop of the entry moves a register of the guest's from guest_regs to the processor.
LEMMA PopAreaBanks ==
  ASSUME SwitchInv, Pop, pc.fn = "vmx_entry"
  PROVE  HostKept /\ GuestsKept
<1>1. pc.at \in 19..34 /\ Reg = restore_regs_from_stack[pc.at - 18]
  BY Decode DEF Pop
<1>2. self \in Vcpus /\ OnRegsArea(pc.at - 19) /\ pc \in [fn : Functions, at : Int]
  <2>1. self \in Vcpus /\ OnRegsArea(pc.at - 19)
    BY <1>1 DEF SwitchInv, PositionInv, EntryInv
  <2> QED
    BY <2>1 DEF SwitchInv, SwitchTypeOK
<1>3. rsp.area = Here /\ rsp.area # Host /\ rsp.word = pc.at - 19
  BY <1>1, <1>2, AreaFacts
<1>4. rsp.word \in Words
  BY <1>1, <1>3 DEF Words
<1>5. /\ cpu' = IF Reg = "skip" THEN cpu ELSE [cpu EXCEPT ![Reg] = mem[Here][pc.at - 19]]
      /\ rsp' = [rsp EXCEPT !.word = @ + 1] /\ pc' = [pc EXCEPT !.at = @ + 1]
      /\ UNCHANGED <<stack, mem, guest_rsp, place, self>>
  BY <1>3, <1>4 DEF Pop, Next_pc, vmcs
<1>6. rsp'.area = rsp.area /\ pc'.fn = "vmx_entry" /\ pc'.at = pc.at + 1
  <2>1. rsp \in [area : Places \cup {Host}, word : Int]
    BY DEF SwitchInv, SwitchTypeOK
  <2> QED
    BY <1>2, <1>5, <2>1
<1>7. HostKept
  BY <1>3, <1>5, <1>6 DEF HostKept, HostReg, InFrame
<1>8. /\ Reg # "skip" => Reg \in Regs /\ Offset(Reg) = pc.at - 19
      /\ Reg = "skip" => pc.at - 19 = 4
  <2>1. pc.at - 18 \in 1..16 /\ pc.at - 18 - 1 = pc.at - 19
    BY <1>1
  <2> QED
    BY <1>1, <2>1, ListEntries
<1>9. ASSUME NEW r \in Regs PROVE GuestReg(self, r)' = GuestReg(self, r)
  <2>1. Offset(r) \in 0..15 /\ Offset(r) # 4
    BY RegisterPlaces
  <2>2. cpu \in [Regs -> Values]
    BY DEF SwitchInv, SwitchTypeOK
  <2>3. CASE Offset(r) = pc.at - 19
    <3>1. Reg = r /\ Reg # "skip"
      BY <1>8, <2>1, <2>3, OffsetInjective
    <3>2. ~InCpu(r) /\ InCpu(r)'
      BY <1>1, <1>6, <2>1, <2>3 DEF InCpu
    <3>3. cpu'[r] = mem[Here][Offset(r)]
      BY <1>5, <2>2, <2>3, <3>1
    <3> QED
      BY <1>5, <3>2, <3>3 DEF GuestReg, Here
  <2>4. CASE Offset(r) # pc.at - 19
    <3>1. Reg # "skip" => Reg # r
      BY <1>8, <2>4
    <3>2. cpu'[r] = cpu[r]
      BY <1>5, <2>2, <3>1
    <3>3. InCpu(r)' <=> InCpu(r)
      BY <1>1, <1>6, <2>1, <2>4 DEF InCpu
    <3> QED
      BY <1>5, <3>2, <3>3 DEF GuestReg
  <2> QED
    BY <2>3, <2>4
<1>10. GuestsKept
  BY <1>5, <1>9, OthersKept
<1> QED
  BY <1>7, <1>10

\* A pop of the exit moves a register of the host's from its frame to the processor.
LEMMA PopHostBanks ==
  ASSUME SwitchInv, Pop, pc.fn = "vmx_exit"
  PROVE  HostKept /\ GuestsKept
<1>1. pc.at \in 18..33 /\ Reg = restore_regs_from_stack[pc.at - 17]
  BY PopHostFacts, Zenon
<1>2. /\ cpu' = IF Reg = "skip" THEN cpu ELSE [cpu EXCEPT ![Reg] = stack[35 - pc.at]]
      /\ \A i \in 1..(34 - pc.at) : stack'[i] = stack[i]
  BY PopHostFacts, Zenon
<1>3. /\ UNCHANGED <<mem, guest_rsp, place, self>>
      /\ rsp.area = Host /\ rsp' = [area |-> Host, word |-> 34 - pc.at]
      /\ pc'.fn = "vmx_exit" /\ pc'.at = pc.at + 1
  BY PopHostFacts, Zenon DEF vmcs
<1>4. rsp'.area = Host
  BY <1>3
<1>5. /\ Reg # "skip" => Reg \in Regs /\ Offset(Reg) = pc.at - 18
      /\ Reg = "skip" => pc.at - 18 = 4
  <2>1. pc.at - 17 \in 1..16 /\ pc.at - 17 - 1 = pc.at - 18
    BY <1>1
  <2> QED
    BY <1>1, <2>1, ListEntries
<1>6. GuestsKept
  <2>1. \A r \in Regs : ~InCpu(r) /\ ~InCpu(r)'
    BY <1>1, <1>3 DEF InCpu
  <2> QED
    BY <1>3, <2>1 DEF GuestsKept, GuestReg
<1>7. ASSUME NEW r \in Regs PROVE HostReg(r)' = HostReg(r)
  <2>1. Offset(r) \in 0..15 /\ Offset(r) # 4
    BY RegisterPlaces
  <2>2. cpu \in [Regs -> Values]
    BY DEF SwitchInv, SwitchTypeOK
  <2>3. CASE Offset(r) = pc.at - 18
    <3>1. Reg = r /\ Reg # "skip"
      BY <1>5, <2>1, <2>3, OffsetInjective
    <3>2. InFrame(r) /\ ~InFrame(r)'
      BY <1>1, <1>3, <1>4, <2>1, <2>3 DEF InFrame
    <3>3. 35 - pc.at = 17 - Offset(r)
      BY <1>1, <2>1, <2>3
    <3>4. cpu'[r] = stack[17 - Offset(r)]
      BY <1>2, <2>2, <3>1, <3>3
    <3> QED
      BY <3>2, <3>4, Zenon DEF HostReg
  <2>4. CASE Offset(r) # pc.at - 18
    <3>1. cpu'[r] = cpu[r]
      BY <1>2, <1>5, <2>1, <2>2, <2>4
    <3>2. InFrame(r)' <=> InFrame(r)
      BY <1>1, <1>3, <1>4, <2>1, <2>4 DEF InFrame
    <3>3. InFrame(r) => 17 - Offset(r) \in 1..(34 - pc.at)
      BY <1>1, <1>3, <2>1, <2>4 DEF InFrame
    <3> QED
      BY <1>2, <3>1, <3>2, <3>3, Zenon DEF HostReg
  <2> QED
    BY <2>3, <2>4
<1> QED
  BY <1>6, <1>7 DEF HostKept

\* The moves of RSP: the host's frame is complete when RSP leaves the stack, and
\* nothing has been popped from it when RSP is back.
LEMMA MovesBanks ==
  ASSUME SwitchInv, StoreTop \/ UseRegsArea \/ LoadTop
  PROVE  HostKept /\ GuestsKept
<1>1. /\ UNCHANGED <<cpu, stack, mem, guest_rsp, place, self>>
      /\ pc' = [pc EXCEPT !.at = @ + 1]
  BY DEF StoreTop, UseRegsArea, LoadTop, Next_pc, vmcs
<1>2. pc'.fn = pc.fn /\ pc'.at = pc.at + 1
  <2>1. pc \in [fn : Functions, at : Int]
    BY DEF SwitchInv, SwitchTypeOK
  <2> QED
    BY <1>1, <2>1
<1>3. CASE StoreTop
  <2>1. pc.fn = "vmx_entry" /\ pc.at = 17
    BY <1>3, Decode DEF StoreTop
  <2>2. \A r \in Regs : ~InCpu(r) /\ ~InCpu(r)'
    BY <1>2, <2>1, RegisterPlaces DEF InCpu
  <2>3. UNCHANGED rsp
    BY <1>3 DEF StoreTop
  <2>4. HostKept
    BY <1>1, <1>2, <2>1, <2>3 DEF HostKept, HostReg, InFrame
  <2> QED
    BY <1>1, <2>2, <2>4 DEF GuestsKept, GuestReg
<1>4. CASE UseRegsArea
  <2>1. pc.fn = "vmx_entry" /\ pc.at = 18
    BY <1>4, Decode DEF UseRegsArea
  <2>2. \A r \in Regs : ~InCpu(r) /\ ~InCpu(r)'
    BY <1>2, <2>1, RegisterPlaces DEF InCpu
  <2>3. EntryInv /\ self \in Vcpus
    BY <2>1 DEF SwitchInv, PositionInv
  <2>4. /\ OnHostStack(17)
        /\ \A r \in Regs : Pushed(r, 18) => stack[17 - Offset(r)] = cpu[r]
    BY <2>1, <2>3 DEF EntryInv
  <2>5. rsp.area = Host /\ rsp'.area # Host
    <3>1. rsp.area = Host
      BY <2>4 DEF OnHostStack
    <3>2. rsp' = [area |-> Here, word |-> 0]
      BY <1>4 DEF UseRegsArea
    <3>3. Here \in Places
      BY <2>3 DEF SwitchInv, SwitchTypeOK, Here
    <3> QED
      BY <3>1, <3>2, <3>3, OwnersAssumption
  <2>6. \A r \in Regs : Pushed(r, 18) /\ InFrame(r)' /\ ~InFrame(r)
    BY <2>1, <2>5, RegisterPlaces DEF Pushed, InFrame
  <2>7. HostKept
    BY <1>1, <2>4, <2>6 DEF HostKept, HostReg
  <2> QED
    BY <1>1, <2>2, <2>7 DEF GuestsKept, GuestReg
<1>5. CASE LoadTop
  <2>1. pc.fn = "vmx_exit" /\ pc.at = 17
    BY <1>5, Decode DEF LoadTop
  <2>2. \A r \in Regs : ~InCpu(r) /\ ~InCpu(r)'
    BY <1>2, <2>1 DEF InCpu
  <2>3. \A r \in Regs : InFrame(r) /\ InFrame(r)'
    BY <1>2, <2>1, RegisterPlaces, SMTT(30) DEF InFrame
  <2> QED
    BY <1>1, <2>2, <2>3, SMTT(30) DEF HostKept, HostReg, GuestsKept, GuestReg
<1> QED
  BY <1>3, <1>4, <1>5

\* The return leaves all the host's registers in the processor and all the guest's
\* in guest_regs.
LEMMA RetBanks ==
  ASSUME SwitchInv, SwitchInv', Ret
  PROVE  HostKept /\ GuestsKept
<1>1. pc.fn = "vmx_exit" /\ pc.at = 34
  BY Decode, SMTT(30) DEF Ret
<1>2. OnHostStack(1)
  BY <1>1 DEF SwitchInv, PositionInv, ExitInv
<1>3. UNCHANGED <<cpu, mem, guest_rsp, place>> /\ self' = Nothing /\ pc'.fn \in {"host", "lost"}
  BY DEF Ret, vmcs
<1>4. rsp.area = Host /\ rsp'.area = Host
  <2>1. rsp.area = Host /\ rsp' = [rsp EXCEPT !.word = @ - 1]
    BY <1>2 DEF OnHostStack, Ret
  <2>2. rsp \in [area : Places \cup {Host}, word : Int]
    BY DEF SwitchInv, SwitchTypeOK
  <2> QED
    BY <2>1, <2>2
<1>5. \A r \in Regs : ~InFrame(r) /\ ~InFrame(r)' /\ ~InCpu(r) /\ ~InCpu(r)'
  BY <1>1, <1>3, <1>4, RegisterPlaces DEF InFrame, InCpu
<1> QED
  BY <1>3, <1>5 DEF HostKept, HostReg, GuestsKept, GuestReg

\* An entry and an exit find the guest's registers in the processor and leave them there.
LEMMA EntryExitBanks ==
  ASSUME SwitchInv, SwitchInv', VmEntry \/ VmExit
  PROVE  HostKept /\ GuestsKept
<1>1. /\ UNCHANGED <<cpu, stack, mem, guest_rsp, place, self>>
      /\ \/ pc' = [fn |-> "guest", at |-> 1]
         \/ pc' = [fn |-> "vmx_exit", at |-> 1]
         \/ pc' = [fn |-> "vmx_entry_failed", at |-> 1]
  BY DEF VmEntry, VmExit, vmcs
<1>2. \A r \in Regs : InCpu(r)'
  BY <1>1 DEF InCpu
<1>3. \A r \in Regs : InCpu(r)
  <2>1. CASE VmEntry
    <3>1. pc.fn = "vmx_entry" /\ pc.at = 35
      BY <2>1, Decode DEF VmEntry
    <3> QED
      BY <3>1, RegisterPlaces, SMTT(30) DEF InCpu
  <2>2. CASE VmExit
    BY <2>2 DEF VmExit, InCpu
  <2> QED
    BY <2>1, <2>2
<1>4. rsp.area # Host
  <2>1. self \in Vcpus /\ OnRegsArea(16)
    <3>1. CASE VmEntry
      <4>1. pc.fn = "vmx_entry" /\ pc.at = 35
        BY <3>1, Decode DEF VmEntry
      <4>2. OnRegsArea(pc.at - 19) /\ self \in Vcpus
        BY <4>1 DEF SwitchInv, PositionInv, EntryInv
      <4>3. pc.at - 19 = 16
        BY <4>1
      <4> QED
        BY <4>2, <4>3, SMTT(30)
    <3>2. CASE VmExit
      BY <3>2 DEF VmExit, SwitchInv, PositionInv
    <3> QED
      BY <3>1, <3>2
  <2> QED
    BY <2>1, AreaFacts
<1>5. \A r \in Regs : InFrame(r) /\ InFrame(r)'
  <2>1. rsp'.area # Host \/ (pc'.fn = "vmx_exit" /\ pc'.at = 1)
    BY <1>1, <1>4 DEF VmEntry, VmExit
  <2> QED
    BY <1>4, <2>1, RegisterPlaces DEF InFrame
<1> QED
  BY <1>1, <1>2, <1>3, <1>5 DEF HostKept, HostReg, GuestsKept, GuestReg

\* What an interrupt of the host overwrites has been popped, or is not yet saved.
LEMMA InterruptBanks ==
  ASSUME SwitchInv, NEW n \in FrameSizes, HostInterrupt(n)
  PROVE  HostKept /\ GuestsKept
<1>1. /\ InSwitch /\ rsp.area # Host /\ n \in Int
      /\ UNCHANGED <<cpu, rsp, stack, guest_rsp, place, self, pc>>
  BY InputsAssumption DEF HostInterrupt, vmcs
<1>2. mem' = [mem EXCEPT ![rsp.area] =
                [x \in Words |-> IF x \in (rsp.word - n)..(rsp.word - 1) THEN Junk ELSE @[x]]]
  BY DEF HostInterrupt, Clobber
<1>3. /\ self \in Vcpus
      /\ \/ pc.fn = "vmx_entry" /\ pc.at \in 19..35 /\ OnRegsArea(pc.at - 19)
         \/ pc.fn = "vmx_exit" /\ pc.at \in 1..17 /\ OnRegsArea(17 - pc.at)
  BY <1>1, InterruptedWhere
<1>4. HostKept
  BY <1>1 DEF HostKept, HostReg, InFrame
<1>5. PICK w \in Int : /\ OnRegsArea(w)
                       /\ \A r \in Regs : ~InCpu(r) => Offset(r) >= w
  <2>1. CASE pc.fn = "vmx_entry" /\ pc.at \in 19..35 /\ OnRegsArea(pc.at - 19)
    <3>1. \A r \in Regs : ~InCpu(r) => Offset(r) >= pc.at - 19
      BY <2>1, RegisterPlaces DEF InCpu
    <3>2. pc.at - 19 \in Int
      BY <2>1
    <3> QED
      BY <2>1, <3>1, <3>2
  <2>2. CASE pc.fn = "vmx_exit" /\ pc.at \in 1..17 /\ OnRegsArea(17 - pc.at)
    <3>1. \A r \in Regs : ~InCpu(r) => Offset(r) >= 17 - pc.at
      BY <2>2, RegisterPlaces DEF InCpu
    <3>2. 17 - pc.at \in Int
      BY <2>2
    <3> QED
      BY <2>2, <3>1, <3>2
  <2> QED
    BY <1>3, <2>1, <2>2
<1>6. /\ \A x \in Words : x >= w => mem'[Here][x] = mem[Here][x]
      /\ \A p \in Places : p # Here => mem'[p] = mem[p]
  BY <1>1, <1>2, <1>3, <1>5, ClobberFacts, SMTT(30)
<1>7. \A v \in Vcpus : v # self => mem'[place[v]] = mem[place[v]]
  BY <1>3, <1>6, SMTT(30) DEF SwitchInv, SwitchTypeOK, LinkInv, Here
<1>8. ASSUME NEW r \in Regs PROVE GuestReg(self, r)' = GuestReg(self, r)
  <2>1. InCpu(r)' <=> InCpu(r)
    BY <1>1 DEF InCpu
  <2>2. Offset(r) \in Words
    BY RegisterPlaces, SMTT(30) DEF Words
  <2>3. ~InCpu(r) => mem'[Here][Offset(r)] = mem[Here][Offset(r)]
    BY <1>5, <1>6, <2>2
  <2> QED
    BY <1>1, <2>1, <2>3, Zenon DEF GuestReg, Here
<1>9. GuestsKept
  BY <1>1, <1>7, <1>8, OthersKept
<1> QED
  BY <1>4, <1>9

\* When vmx_entry_failed spoils guest_regs, the guest's registers are still in the processor.
LEMMA EntryFailedBanks ==
  ASSUME SwitchInv, vmx_entry_failed
  PROVE  HostKept /\ GuestsKept
<1>1. self \in Vcpus /\ OnRegsArea(16)
  BY DEF vmx_entry_failed, SwitchInv, PositionInv
<1>2. rsp.word + 1 \in Int
  BY DEF SwitchInv, SwitchTypeOK
<1>3. /\ UNCHANGED <<cpu, rsp, stack, guest_rsp, place, self>>
      /\ pc.fn = "vmx_entry_failed" /\ pc'.fn = "panic"
  BY DEF vmx_entry_failed, vmcs
<1>4. rsp.area # Host
  BY <1>1, AreaFacts
<1>5. \A p \in Places : p # Here => mem'[p] = mem[p]
  BY <1>1, <1>2, ClobberFacts, SMTT(30) DEF vmx_entry_failed, Clobber
<1>6. \A v \in Vcpus : v # self => mem'[place[v]] = mem[place[v]]
  BY <1>1, <1>5, Zenon DEF SwitchInv, SwitchTypeOK, LinkInv, Here
<1>7. \A r \in Regs : InFrame(r) /\ InFrame(r)' /\ InCpu(r) /\ InCpu(r)'
  BY <1>3, <1>4 DEF InFrame, InCpu
<1>8. HostKept
  BY <1>3, <1>7 DEF HostKept, HostReg
<1>9. \A r \in Regs : GuestReg(self, r)' = GuestReg(self, r)
  BY <1>3, <1>7 DEF GuestReg
<1> QED
  BY <1>3, <1>6, <1>8, <1>9, OthersKept

\* The guest that runs changes no other guest's registers and none of the host's.
LEMMA GuestRunsBanks ==
  ASSUME SwitchInv, GuestRuns
  PROVE  /\ HostKept
         /\ \A v \in Vcpus : v # self =>
              /\ guest_rsp'[v] = guest_rsp[v]
              /\ \A r \in Regs : GuestReg(v, r)' = GuestReg(v, r)
<1>1. /\ pc.fn = "guest" /\ self \in Vcpus /\ OnRegsArea(16)
      /\ UNCHANGED <<rsp, stack, mem, place, self, pc>>
      /\ guest_rsp' = [guest_rsp EXCEPT ![self] = Token(self, "rsp")]
  BY DEF GuestRuns, SwitchInv, PositionInv
<1>2. rsp.area # Host
  BY <1>1, AreaFacts
<1>3. HostKept
  BY <1>1, <1>2 DEF HostKept, HostReg, InFrame
<1>4. guest_rsp \in [Vcpus -> Values]
  BY SMTT(30) DEF SwitchInv, SwitchTypeOK
<1> QED
  BY <1>1, <1>3, <1>4 DEF GuestReg

\* Calling the switch changes registers of the host only.
LEMMA InnerRunBanks ==
  ASSUME SwitchInv, NEW u \in Vcpus, inner_run(u)
  PROVE  GuestsKept
<1>1. /\ self = Nothing /\ Nothing \notin Vcpus
      /\ pc' = [fn |-> "vmx_entry", at |-> 1]
      /\ UNCHANGED <<mem, guest_rsp, place>>
  BY OwnersAssumption DEF inner_run, InHost, SwitchInv, PositionInv
<1>2. \A r \in Regs : ~InCpu(r)'
  BY <1>1, RegisterPlaces DEF InCpu
<1> QED
  BY <1>1, <1>2 DEF GuestsKept, GuestReg

\* In the host, the host's registers are in the processor and the guests' in guest_regs.
LEMMA HostRegs ==
  ASSUME SwitchInv, InHost
  PROVE  /\ self = Nothing /\ self \notin Vcpus /\ rsp.area = Host /\ pc.fn = "host"
         /\ \A r \in Regs : HostReg(r) = cpu[r]
         /\ \A v \in Vcpus, r \in Regs : GuestReg(v, r) = mem[place[v]][Offset(r)]
<1>1. self = Nothing /\ self \notin Vcpus /\ OnHostStack(0) /\ pc.fn = "host"
  BY OwnersAssumption DEF SwitchInv, PositionInv, InHost
<1>2. rsp.area = Host
  BY <1>1 DEF OnHostStack
<1> QED
  BY <1>1, <1>2 DEF HostReg, GuestReg, InFrame

\* A step of the host between two runs keeps its own registers, and has kept a guest's
\* if it keeps their words.
LEMMA HostStepRegs ==
  ASSUME SwitchInv, InHost, UNCHANGED <<cpu, rsp, self>>, pc'.fn \in {"host", "panic"}
  PROVE  /\ HostKept
         /\ \A v \in Vcpus, r \in Regs : GuestReg(v, r)' = mem'[place'[v]][Offset(r)]
<1>1. self \notin Vcpus /\ rsp.area = Host
  BY HostRegs
<1>2. HostKept
  BY <1>1, HostRegs, SMTT(30) DEF HostKept, HostReg, InFrame
<1> QED
  BY <1>1, <1>2 DEF GuestReg

\* Moving, unbinding and the panic of set_gpr change no register.
LEMMA HostStepBanks ==
  ASSUME SwitchInv, NEW u \in Vcpus,
         \/ Move(u) \/ unbind(u)
         \/ \E i \in Indices : set_gpr(u, i) /\ reg_of_index(i % 256) = "panic"
  PROVE  HostKept /\ GuestsKept
<1>1. InHost /\ UNCHANGED <<cpu, rsp, self, guest_rsp>> /\ pc'.fn \in {"host", "panic"}
  <2>1. CASE Move(u) \/ unbind(u)
    BY <2>1 DEF Move, unbind, machine, vmcs, InHost
  <2>2. ASSUME NEW i \in Indices, set_gpr(u, i), reg_of_index(i % 256) = "panic"
        PROVE  /\ InHost /\ UNCHANGED <<cpu, rsp, self, guest_rsp>>
               /\ pc'.fn \in {"host", "panic"}
    <3>1. /\ InHost /\ pc' = [fn |-> "panic", at |-> 1]
          /\ UNCHANGED <<machine, vmcs, self>>
      BY <2>2, Zenon DEF set_gpr, CanWrite
    <3> QED
      BY <3>1 DEF machine, vmcs
  <2> QED
    BY <2>1, <2>2
<1>2. \A v \in Vcpus : mem'[place'[v]] = mem[place[v]]
  <2>1. CASE Move(u)
    <3>1. PICK p \in Places \ {place[v] : v \in Vcpus} :
            /\ place' = [place EXCEPT ![u] = p]
            /\ mem' = [mem EXCEPT ![p] = mem[place[u]], ![place[u]] = mem[p]]
      BY <2>1, Zenon DEF Move
    <3>2. /\ place \in [Vcpus -> Places] /\ mem \in [Places -> [Words -> Values]]
          /\ \A v, x \in Vcpus : v # x => place[v] # place[x]
      BY SMTT(30) DEF SwitchInv, SwitchTypeOK, LinkInv
    <3> SUFFICES ASSUME NEW v \in Vcpus PROVE mem'[place'[v]] = mem[place[v]]
      BY Zenon
    <3>3. p # place[u] /\ p # place[v] /\ place[u] \in Places /\ place[v] \in Places
      BY <3>1, <3>2
    <3>4. CASE v = u
      BY <3>1, <3>2, <3>3, <3>4
    <3>5. CASE v # u
      BY <3>1, <3>2, <3>3, <3>5, SMTT(30)
    <3> QED
      BY <3>4, <3>5
  <2>2. CASE unbind(u)
    BY <2>2, SMTT(30) DEF unbind, machine
  <2>3. CASE \E i \in Indices : set_gpr(u, i) /\ reg_of_index(i % 256) = "panic"
    BY <2>3, Zenon DEF set_gpr, machine
  <2> QED
    BY <2>1, <2>2, <2>3, ZenonT(30)
<1> QED
  BY <1>1, <1>2, HostRegs, HostStepRegs DEF GuestsKept

\* The parts of a register are the slices RegisterBanks knows, and only EAX and its
\* like clear what they do not write.
LEMMA PartSlices ==
  \A p \in DOMAIN Parts :
    /\ Parts[p] \in {{0}, {1}, 0..1, 0..2, 0..3}
    /\ p = "d" <=> Parts[p] = 0..2
<1>1. DOMAIN Parts = {"q", "d", "w", "b", "h"}
  BY DEF Parts
<1>2. /\ Parts["q"] = 0..3 /\ Parts["d"] = 0..2 /\ Parts["w"] = 0..1
      /\ Parts["b"] = {0} /\ Parts["h"] = {1}
  BY DEF Parts
<1>3. 0..3 # 0..2 /\ 0..1 # 0..2 /\ {0} # 0..2 /\ {1} # 0..2
  <2>1. 3 \in 0..3 /\ 3 \notin 0..2 /\ 2 \in 0..2 /\ 2 \notin 0..1 /\ 2 \notin {0} /\ 2 \notin {1}
    OBVIOUS
  <2> QED
    BY <2>1, Zenon
<1> QED
  BY <1>1, <1>2, <1>3, Zenon

\* What a write of some slices leaves in a register.
Written(old, slices) ==
  [l \in 0..3 |-> IF l \in slices THEN New ELSE IF slices = 0..2 THEN Zero ELSE old[l]]

\* The accessors write as the guest's own instruction would.
LEMMA SetPartIsWrite ==
  ASSUME NEW old, NEW p \in DOMAIN Parts
  PROVE  set_part(old, p, New) = Written(old, Parts[p])
BY PartSlices, ZenonT(30) DEF set_part, Written

\* An accessor of a register writes that register of that guest.
LEMMA WriteRegBanks ==
  ASSUME SwitchInv, SwitchInv', NEW u \in Vcpus, NEW q \in Regs, NEW p \in DOMAIN Parts,
         CanWrite, WriteReg(u, q, p)
  PROVE  /\ HostKept
         /\ \A v \in Vcpus : v # u => GuestBank(v)' = GuestBank(v)
         /\ GuestBank(u)' = [GuestBank(u) EXCEPT ![q] = Written(@, Parts[p])]
<1>1. /\ InHost /\ UNCHANGED <<cpu, rsp, self, guest_rsp, place>> /\ pc'.fn \in {"host", "panic"}
      /\ mem' = [mem EXCEPT ![place[u]][Offset(q)] = set_part(@, p, New)]
      /\ pc.at \in Int /\ (pc.at \in Int)'
  BY DEF WriteReg, CanWrite, InHost, vmcs, SwitchInv, SwitchTypeOK
<1>2. HostKept /\ \A v \in Vcpus, r \in Regs : GuestReg(v, r)' = mem'[place'[v]][Offset(r)]
  BY <1>1, HostStepRegs
<1>3. \A v \in Vcpus, r \in Regs : GuestReg(v, r) = mem[place[v]][Offset(r)]
  BY <1>1, HostRegs
<1>4. /\ place \in [Vcpus -> Places] /\ mem \in [Places -> [Words -> Values]]
      /\ Offset(q) \in Words /\ place[u] \in Places
  BY RegisterPlaces, Zenon DEF SwitchInv, SwitchTypeOK, Words
<1>5. ASSUME NEW v \in Vcpus, v # u, NEW r \in Regs PROVE GuestReg(v, r)' = GuestReg(v, r)
  <2>1. place[v] # place[u] /\ place[v] \in Places
    BY <1>4, <1>5 DEF SwitchInv, LinkInv
  <2>2. mem'[place[v]] = mem[place[v]]
    BY <1>1, <1>4, <2>1
  <2> QED
    BY <1>1, <1>2, <1>3, <2>2, SMTT(30)
<1>6. ASSUME NEW r \in Regs
      PROVE  GuestReg(u, r)' = IF r = q THEN Written(GuestReg(u, q), Parts[p])
                               ELSE GuestReg(u, r)
  <2>1. Offset(r) \in Words /\ (Offset(r) = Offset(q) => r = q)
    BY RegisterPlaces, OffsetInjective DEF Words
  <2>2. mem'[place[u]][Offset(r)] =
          IF Offset(r) = Offset(q) THEN set_part(mem[place[u]][Offset(q)], p, New)
          ELSE mem[place[u]][Offset(r)]
    BY <1>1, <1>4, <2>1
  <2>3. GuestReg(u, r)' = mem'[place[u]][Offset(r)]
    BY <1>1, <1>2, SMTT(30)
  <2>4. GuestReg(u, r) = mem[place[u]][Offset(r)] /\ GuestReg(u, q) = mem[place[u]][Offset(q)]
    BY <1>3
  <2>5. r = q => Offset(r) = Offset(q)
    OBVIOUS
  <2> QED
    BY <2>1, <2>2, <2>3, <2>4, <2>5, SetPartIsWrite, Zenon
<1>7. \A v : GuestBank(v) = [r \in Regs \cup {"rsp"} |->
                               IF r = "rsp" THEN guest_rsp[v] ELSE GuestReg(v, r)]
  BY <1>1, BanksByOffset, Zenon
<1>8. \A v : GuestBank(v)' = [r \in Regs \cup {"rsp"} |->
                                IF r = "rsp" THEN guest_rsp[v] ELSE GuestReg(v, r)']
  <2>1. \A v : GuestBank(v)' = [r \in Regs \cup {"rsp"} |->
                                  IF r = "rsp" THEN guest_rsp'[v] ELSE GuestReg(v, r)']
    BY <1>1, BanksByOffsetAfter, Zenon
  <2>2. guest_rsp' = guest_rsp
    BY <1>1
  <2> QED
    BY <2>1, <2>2
<1>9. ASSUME NEW v \in Vcpus, v # u PROVE GuestBank(v)' = GuestBank(v)
  <2>1. \A r \in Regs \cup {"rsp"} :
          (IF r = "rsp" THEN guest_rsp[v] ELSE GuestReg(v, r)')
            = (IF r = "rsp" THEN guest_rsp[v] ELSE GuestReg(v, r))
    BY <1>5, <1>9, Zenon
  <2> QED
    BY <1>7, <1>8, <2>1, Zenon
<1>10. GuestBank(u)' = [GuestBank(u) EXCEPT ![q] = Written(@, Parts[p])]
  <2>1. q # "rsp"
    BY IndexedRegisters
  <2>2. [GuestBank(u) EXCEPT ![q] = Written(@, Parts[p])]
          = [r \in Regs \cup {"rsp"} |-> IF r = q THEN Written(GuestReg(u, q), Parts[p])
                                         ELSE IF r = "rsp" THEN guest_rsp[u] ELSE GuestReg(u, r)]
    BY <1>7, <2>1
  <2>3. \A r \in Regs \cup {"rsp"} :
          (IF r = "rsp" THEN guest_rsp[u] ELSE GuestReg(u, r)')
            = (IF r = q THEN Written(GuestReg(u, q), Parts[p])
               ELSE IF r = "rsp" THEN guest_rsp[u] ELSE GuestReg(u, r))
    BY <1>6, <2>1, Zenon
  <2> QED
    BY <1>8, <2>2, <2>3, Zenon
<1> QED
  BY <1>2, <1>9, <1>10, SMTT(30)

\* set_stack_pointer writes RSP of that guest.
LEMMA StackPointerBanks ==
  ASSUME SwitchInv, SwitchInv', NEW u \in Vcpus, set_stack_pointer(u)
  PROVE  /\ HostKept
         /\ \A v \in Vcpus : v # u => GuestBank(v)' = GuestBank(v)
         /\ GuestBank(u)' = [GuestBank(u) EXCEPT !["rsp"] = Written(@, 0..3)]
<1>1. /\ InHost /\ UNCHANGED <<cpu, rsp, self, mem, place>> /\ pc'.fn \in {"host", "panic"}
      /\ guest_rsp' = [guest_rsp EXCEPT ![u] = set_part(@, "q", New)]
      /\ pc.at \in Int /\ (pc.at \in Int)'
  BY SMTT(30) DEF set_stack_pointer, CanWrite, InHost, machine, SwitchInv, SwitchTypeOK
<1>2. /\ HostKept
      /\ \A v \in Vcpus, r \in Regs : GuestReg(v, r)' = GuestReg(v, r)
  BY <1>1, HostRegs, HostStepRegs, Zenon
<1>3. \A v : GuestBank(v) = [r \in Regs \cup {"rsp"} |->
                               IF r = "rsp" THEN guest_rsp[v] ELSE GuestReg(v, r)]
  BY <1>1, BanksByOffset, Zenon
<1>4. \A v : GuestBank(v)' = [r \in Regs \cup {"rsp"} |->
                                IF r = "rsp" THEN guest_rsp'[v] ELSE GuestReg(v, r)']
  BY <1>1, BanksByOffsetAfter, Zenon
<1>5. /\ guest_rsp'[u] = Written(guest_rsp[u], 0..3)
      /\ \A v \in Vcpus : v # u => guest_rsp'[v] = guest_rsp[v]
  <2>1. guest_rsp \in [Vcpus -> Values]
    BY DEF SwitchInv, SwitchTypeOK
  <2>2. "q" \in DOMAIN Parts /\ Parts["q"] = 0..3
    BY DEF Parts
  <2>3. set_part(guest_rsp[u], "q", New) = Written(guest_rsp[u], 0..3)
    BY <2>2, SetPartIsWrite, Zenon
  <2> QED
    BY <1>1, <2>1, <2>3
<1>6. ASSUME NEW v \in Vcpus, v # u PROVE GuestBank(v)' = GuestBank(v)
  <2>1. \A r \in Regs \cup {"rsp"} :
          (IF r = "rsp" THEN guest_rsp'[v] ELSE GuestReg(v, r)')
            = (IF r = "rsp" THEN guest_rsp[v] ELSE GuestReg(v, r))
    BY <1>2, <1>5, <1>6, Zenon
  <2> QED
    BY <1>3, <1>4, <2>1, Zenon
<1>7. GuestBank(u)' = [GuestBank(u) EXCEPT !["rsp"] = Written(@, 0..3)]
  <2>1. [GuestBank(u) EXCEPT !["rsp"] = Written(@, 0..3)]
          = [r \in Regs \cup {"rsp"} |-> IF r = "rsp" THEN Written(guest_rsp[u], 0..3)
                                         ELSE GuestReg(u, r)]
    BY <1>3
  <2>2. \A r \in Regs \cup {"rsp"} :
          (IF r = "rsp" THEN guest_rsp'[u] ELSE GuestReg(u, r)')
            = (IF r = "rsp" THEN Written(guest_rsp[u], 0..3) ELSE GuestReg(u, r))
    BY <1>2, <1>5, Zenon
  <2> QED
    BY <1>4, <2>1, <2>2, Zenon
<1> QED
  BY <1>2, <1>6, <1>7, SMTT(30)

\* The registers and the owner that runs, as RegisterBanks sees them.
Bank == [o \in Vcpus \cup {Host} |-> IF o = Host THEN HostBank ELSE GuestBank(o)]
Running == IF pc.fn = "guest" THEN self ELSE IF self = Nothing THEN Host ELSE Nothing

\* The bank of each owner.
LEMMA BankOf ==
  /\ Bank[Host] = HostBank /\ \A v \in Vcpus : Bank[v] = GuestBank(v)
  /\ Bank'[Host] = HostBank' /\ \A v \in Vcpus : Bank'[v] = GuestBank(v)'
  /\ HostBank' = HostBank /\ (\A v \in Vcpus : GuestBank(v)' = GuestBank(v)) => Bank' = Bank
<1>1. Bank[Host] = HostBank /\ Bank'[Host] = HostBank'
  BY DEF Bank
<1>2. \A v \in Vcpus : Bank[v] = GuestBank(v) /\ Bank'[v] = GuestBank(v)'
  BY OwnersAssumption, Zenon DEF Bank
<1>3. HostBank' = HostBank /\ (\A v \in Vcpus : GuestBank(v)' = GuestBank(v)) => Bank' = Bank
  BY Zenon DEF Bank
<1> QED
  BY <1>1, <1>2, <1>3

\* What is meant by a step of RegisterBanks, in these terms.
LEMMA BanksSteps ==
  /\ UNCHANGED <<Bank, Running>> => UNCHANGED Banks!bankVars
  /\ (UNCHANGED Running /\ \A o \in (Vcpus \cup {Host}) \ {Running} : Bank'[o] = Bank[o])
       => Banks!Compute
  /\ (Running = Host /\ Running' = Nothing /\ \A v \in Vcpus : Bank'[v] = Bank[v])
       => Banks!Call
  /\ /\ UNCHANGED Bank
     /\ \/ Running = Nothing /\ Running' \in Vcpus \cup {Host}
        \/ Running \in Vcpus /\ Running' = Nothing
     => Banks!Switch
BY Zenon DEF Bank, Running, Banks!bankVars, Banks!Compute, Banks!Call, Banks!Switch

\* A write of a register of one guest is a step of RegisterBanks.
LEMMA EmulateStep ==
  ASSUME SwitchInv, SwitchInv', NEW v \in Vcpus, NEW r \in Regs \cup {"rsp"},
         NEW slices \in {{0}, {1}, 0..1, 0..2, 0..3},
         HostKept, Running = Host, UNCHANGED Running,
         \A u \in Vcpus : u # v => GuestBank(u)' = GuestBank(u),
         GuestBank(v)' = [GuestBank(v) EXCEPT ![r] = Written(@, slices)]
  PROVE  Banks!Emulate(v, r, slices)
<1>1. HostBank' = HostBank
  BY BanksKept
<1>2. v # Host
  BY OwnersAssumption
<1>3. Bank' = [Bank EXCEPT ![v][r] = Written(@, slices)]
  <2>1. [Bank EXCEPT ![v][r] = Written(@, slices)]
          = [o \in Vcpus \cup {Host} |->
               IF o = v THEN [GuestBank(v) EXCEPT ![r] = Written(@, slices)]
               ELSE IF o = Host THEN HostBank ELSE GuestBank(o)]
    BY <1>2, Zenon DEF Bank
  <2>2. Bank' = [o \in Vcpus \cup {Host} |-> IF o = Host THEN HostBank' ELSE GuestBank(o)']
    BY DEF Bank
  <2>3. \A o \in Vcpus \cup {Host} :
          (IF o = Host THEN HostBank' ELSE GuestBank(o)')
            = (IF o = v THEN [GuestBank(v) EXCEPT ![r] = Written(@, slices)]
               ELSE IF o = Host THEN HostBank ELSE GuestBank(o))
    BY <1>1, <1>2, Zenon
  <2> QED
    BY <2>1, <2>2, <2>3, Zenon
<1> QED
  BY <1>3, Zenon DEF Bank, Running, Written, Banks!Emulate

\* Who runs: the vCPU inside the guest, nobody inside the switch, and else the host.
LEMMA WhoRuns ==
  ASSUME SwitchInv
  PROVE  /\ InHost => self = Nothing /\ Running = Host
         /\ InSwitch \/ pc.fn = "vmx_entry_failed" => self \in Vcpus /\ Running = Nothing
         /\ pc.fn = "guest" => self \in Vcpus /\ Running = self
<1>1. PositionInv
  BY DEF SwitchInv
<1>2. InHost => self = Nothing
  BY <1>1 DEF PositionInv, InHost
<1>3. InSwitch \/ pc.fn \in {"guest", "vmx_entry_failed"} => self \in Vcpus
  BY <1>1 DEF PositionInv, InSwitch, Code
<1>4. Nothing \notin Vcpus
  BY OwnersAssumption
<1>5. InHost \/ InSwitch \/ pc.fn = "vmx_entry_failed" => pc.fn # "guest"
  BY DEF InHost, InSwitch, Code
<1> QED
  BY <1>2, <1>3, <1>4, <1>5 DEF Running

\* A step that keeps every register and who runs is a stutter of RegisterBanks.
LEMMA KeptIsStutter ==
  ASSUME SwitchInv, SwitchInv', HostKept, GuestsKept, UNCHANGED Running
  PROVE  UNCHANGED Banks!bankVars
BY BanksKept, BankOf, BanksSteps, Zenon

\* One that keeps every register, into a guest, out of it or back, is its Switch.
LEMMA KeptIsSwitch ==
  ASSUME SwitchInv, SwitchInv', HostKept, GuestsKept,
         \/ Running = Nothing /\ Running' \in Vcpus \cup {Host}
         \/ Running \in Vcpus /\ Running' = Nothing
  PROVE  Banks!Switch
BY BanksKept, BankOf, BanksSteps, Zenon

\* The instructions of the switch but the last.
LEMMA InstructionsStutter ==
  ASSUME SwitchInv, SwitchInv', Push \/ Pop \/ StoreTop \/ UseRegsArea \/ LoadTop
  PROVE  UNCHANGED Banks!bankVars
<1>1. /\ InSwitch /\ pc'.fn = pc.fn /\ self' = self
  BY DEF Push, Pop, StoreTop, UseRegsArea, LoadTop, At, Next_pc, SwitchInv, SwitchTypeOK
<1>2. UNCHANGED Running
  BY <1>1 DEF Running
<1>3. pc.fn = "vmx_entry" \/ pc.fn = "vmx_exit"
  BY <1>1 DEF InSwitch, Code
<1>4. HostKept /\ GuestsKept
  BY <1>3, PushHostBanks, PushAreaBanks, PopAreaBanks, PopHostBanks, MovesBanks, Zenon
<1> QED
  BY <1>2, <1>4, KeptIsStutter, Zenon

\* The steps that change who runs, and the entry that fails.
LEMMA TransitionsSwitch ==
  ASSUME SwitchInv, SwitchInv', Ret \/ VmEntry \/ VmExit
  PROVE  Banks!Switch \/ UNCHANGED Banks!bankVars
<1>1. HostKept /\ GuestsKept
  BY RetBanks, EntryExitBanks, Zenon
<1>2. CASE Ret
  <2>1. InSwitch /\ self' = Nothing
    BY <1>2 DEF Ret, At
  <2>2. pc'.fn # "guest"
    BY <1>2 DEF Ret
  <2>3. Running = Nothing /\ Running' = Host
    BY <2>1, <2>2, WhoRuns DEF Running
  <2> QED
    BY <1>1, <2>3, KeptIsSwitch, Zenon
<1>3. CASE VmEntry
  <2>1. InSwitch /\ self' = self
    BY <1>3 DEF VmEntry, At
  <2>2. self \in Vcpus /\ Running = Nothing /\ self # Nothing
    BY <2>1, WhoRuns, OwnersAssumption
  <2>3. pc'.fn \in {"guest", "vmx_exit", "vmx_entry_failed"}
    BY <1>3 DEF VmEntry
  <2>4. Running' \in Vcpus \/ Running' = Nothing
    BY <2>1, <2>2, <2>3 DEF Running
  <2> QED
    BY <1>1, <2>2, <2>4, KeptIsSwitch, KeptIsStutter, Zenon
<1>4. CASE VmExit
  <2>1. pc.fn = "guest" /\ self' = self /\ pc'.fn = "vmx_exit"
    BY <1>4 DEF VmExit
  <2>2. self \in Vcpus /\ Running = self /\ self # Nothing
    BY <2>1, WhoRuns, OwnersAssumption
  <2>3. Running' = Nothing
    BY <2>1, <2>2 DEF Running
  <2> QED
    BY <1>1, <2>2, <2>3, KeptIsSwitch, Zenon
<1> QED
  BY <1>2, <1>3, <1>4, Zenon

\* The guest computes.
LEMMA GuestRunsIsCompute ==
  ASSUME SwitchInv, SwitchInv', GuestRuns
  PROVE  Banks!Compute
<1>1. pc.fn = "guest" /\ UNCHANGED <<pc, self>>
  BY DEF GuestRuns
<1>2. self \in Vcpus /\ Running = self /\ UNCHANGED Running
  BY <1>1, WhoRuns DEF Running
<1>3. HostBank' = HostBank
  BY GuestRunsBanks, BanksKept, Zenon
<1>4. ASSUME NEW v \in Vcpus, v # self PROVE GuestBank(v)' = GuestBank(v)
  <2>1. pc.at \in Int /\ (pc.at \in Int)'
    BY DEF SwitchInv, SwitchTypeOK
  <2>2. \A r \in Regs \cup {"rsp"} :
          (IF r = "rsp" THEN guest_rsp'[v] ELSE GuestReg(v, r)')
            = (IF r = "rsp" THEN guest_rsp[v] ELSE GuestReg(v, r))
    BY <1>4, GuestRunsBanks, Zenon
  <2>3. GuestBank(v) = [r \in Regs \cup {"rsp"} |->
                          IF r = "rsp" THEN guest_rsp[v] ELSE GuestReg(v, r)]
    BY <2>1, BanksByOffset, Zenon
  <2>4. GuestBank(v)' = [r \in Regs \cup {"rsp"} |->
                           IF r = "rsp" THEN guest_rsp'[v] ELSE GuestReg(v, r)']
    BY <2>1, BanksByOffsetAfter, Zenon
  <2> QED
    BY <2>2, <2>3, <2>4, Zenon
<1>5. \A o \in (Vcpus \cup {Host}) \ {Running} : Bank'[o] = Bank[o]
  BY <1>2, <1>3, <1>4, BankOf, Zenon
<1> QED
  BY <1>2, <1>5, BanksSteps, Zenon

\* The host calls the switch.
LEMMA InnerRunIsCall ==
  ASSUME SwitchInv, SwitchInv', NEW u \in Vcpus, inner_run(u)
  PROVE  Banks!Call
<1>1. InHost /\ self' = u /\ pc'.fn = "vmx_entry" /\ u # Nothing
  BY OwnersAssumption DEF inner_run
<1>2. Running = Host /\ Running' = Nothing
  BY <1>1, WhoRuns DEF Running
<1>3. \A v \in Vcpus : Bank'[v] = Bank[v]
  BY InnerRunBanks, BanksKept, BankOf, Zenon
<1> QED
  BY <1>2, <1>3, BanksSteps, Zenon

\* A write of guest_regs is an Emulate.
LEMMA WriteRegIsEmulate ==
  ASSUME SwitchInv, SwitchInv', NEW u \in Vcpus, NEW q \in Regs, NEW p \in DOMAIN Parts,
         CanWrite, WriteReg(u, q, p)
  PROVE  Banks!Emulate(u, q, Parts[p])
<1>1. InHost /\ UNCHANGED <<self, pc>>
  BY DEF CanWrite, WriteReg
<1>2. Running = Host /\ UNCHANGED Running
  BY <1>1, WhoRuns DEF Running
<1>3. Parts[p] \in {{0}, {1}, 0..1, 0..2, 0..3}
  BY PartSlices, Zenon
<1>4. /\ HostKept
      /\ \A v \in Vcpus : v # u => GuestBank(v)' = GuestBank(v)
      /\ GuestBank(u)' = [GuestBank(u) EXCEPT ![q] = Written(@, Parts[p])]
  BY WriteRegBanks, Zenon
<1>5. q \in Regs \cup {"rsp"}
  OBVIOUS
<1> QED
  BY <1>2, <1>3, <1>4, <1>5, EmulateStep, Zenon

\* So is a write of RSP.
LEMMA StackPointerIsEmulate ==
  ASSUME SwitchInv, SwitchInv', NEW u \in Vcpus, set_stack_pointer(u)
  PROVE  Banks!Emulate(u, "rsp", 0..3)
<1>1. InHost /\ UNCHANGED <<self, pc>>
  BY DEF CanWrite, set_stack_pointer
<1>2. Running = Host /\ UNCHANGED Running
  BY <1>1, WhoRuns DEF Running
<1>3. 0..3 \in {{0}, {1}, 0..1, 0..2, 0..3} /\ "rsp" \in Regs \cup {"rsp"}
  OBVIOUS
<1>4. /\ HostKept
      /\ \A v \in Vcpus : v # u => GuestBank(v)' = GuestBank(v)
      /\ GuestBank(u)' = [GuestBank(u) EXCEPT !["rsp"] = Written(@, 0..3)]
  BY StackPointerBanks, Zenon
<1> QED
  BY <1>2, <1>3, <1>4, EmulateStep, Zenon

\* What the host does between two runs changes the registers of a guest only by the
\* accessors, as the guest's own instruction would.
LEMMA HostStepIsBanks ==
  ASSUME SwitchInv, SwitchInv', NEW u \in Vcpus,
         \/ Move(u) \/ unbind(u) \/ set_return_value(u) \/ set_stack_pointer(u)
         \/ \E i \in Indices : set_gpr(u, i)
         \/ \E r \in WriteRegs, p \in DOMAIN Parts : set_sub_register(u, r, p)
  PROVE  Banks!Next \/ UNCHANGED Banks!bankVars
<1>1. ASSUME NEW q \in Regs, NEW p \in DOMAIN Parts, CanWrite, WriteReg(u, q, p)
      PROVE  Banks!Next
  <2>1. Banks!Emulate(u, q, Parts[p])
    BY <1>1, WriteRegIsEmulate, Zenon
  <2>2. Parts[p] \in {{0}, {1}, 0..1, 0..2, 0..3} /\ q \in Regs \cup {"rsp"}
    BY PartSlices, Zenon
  <2> QED
    BY <2>1, <2>2, Zenon DEF Banks!Next
<1>2. ASSUME set_stack_pointer(u) PROVE Banks!Next
  <2>1. Banks!Emulate(u, "rsp", 0..3)
    BY <1>2, StackPointerIsEmulate, Zenon
  <2>2. 0..3 \in {{0}, {1}, 0..1, 0..2, 0..3} /\ "rsp" \in Regs \cup {"rsp"}
    BY SMTT(30)
  <2> QED
    BY <2>1, <2>2, Zenon DEF Banks!Next
<1>3. "q" \in DOMAIN Parts /\ "rax" \in Regs
  BY IndexedRegisters DEF Parts
<1>4. ASSUME set_return_value(u) PROVE Banks!Next
  BY <1>1, <1>3, <1>4, Zenon DEF set_return_value
<1>5. ASSUME NEW r \in WriteRegs, NEW p \in DOMAIN Parts, set_sub_register(u, r, p)
      PROVE  Banks!Next
  <2>1. r \in Regs
    BY InputsAssumption
  <2> QED
    BY <1>1, <1>5, <2>1, Zenon DEF set_sub_register
<1>6. ASSUME \/ Move(u) \/ unbind(u)
             \/ \E i \in Indices : set_gpr(u, i) /\ reg_of_index(i % 256) = "panic"
      PROVE  UNCHANGED Banks!bankVars
  <2>1. HostKept /\ GuestsKept
    BY <1>6, HostStepBanks, ZenonT(30)
  <2>2. InHost /\ self' = self /\ pc'.fn \in {"host", "panic"}
    <3>1. CASE Move(u) \/ unbind(u)
      BY <3>1 DEF Move, unbind, InHost
    <3>2. CASE \E i \in Indices : set_gpr(u, i) /\ reg_of_index(i % 256) = "panic"
      <4>1. InHost /\ self' = self /\ pc' = [fn |-> "panic", at |-> 1]
        BY <3>2, Zenon DEF set_gpr, CanWrite
      <4> QED
        BY <4>1
    <3> QED
      BY <1>6, <3>1, <3>2, SMTT(30)
  <2>3. UNCHANGED Running
    BY <2>2 DEF Running, InHost
  <2> QED
    BY <2>1, <2>3, KeptIsStutter, Zenon
<1>7. ASSUME NEW i \in Indices, set_gpr(u, i)
      PROVE  Banks!Next \/ UNCHANGED Banks!bankVars
  <2>1. i % 256 \in Nat
    BY InputsAssumption
  <2>2. reg_of_index(i % 256) # "panic" => reg_of_index(i % 256) \in Regs
    BY <2>1, IndexedRegisters, Zenon
  <2>3. CanWrite /\ (reg_of_index(i % 256) # "panic" => WriteReg(u, reg_of_index(i % 256), "q"))
    BY <1>7 DEF set_gpr
  <2> QED
    BY <1>1, <1>3, <1>6, <1>7, <2>2, <2>3, Zenon
<1> QED
  BY <1>2, <1>4, <1>5, <1>6, <1>7, Zenon

\* Every step of the switch is a step of RegisterBanks or changes nothing it sees.
LEMMA BanksStep ==
  ASSUME SwitchInv, SwitchInv', [Next]_wsVars
  PROVE  Banks!Next \/ UNCHANGED Banks!bankVars
<1>1. ASSUME UNCHANGED wsVars PROVE UNCHANGED Banks!bankVars
  <2>1. UNCHANGED <<cpu, rsp, stack, mem, guest_rsp, place, self, pc>>
    BY <1>1 DEF wsVars, machine, vmcs
  <2> QED
    BY <2>1, ZenonT(30) DEF Banks!bankVars, HostBank, GuestBank, Popped
<1>2. ASSUME Push \/ Pop \/ StoreTop \/ UseRegsArea \/ LoadTop
      PROVE  UNCHANGED Banks!bankVars
  BY <1>2, InstructionsStutter, Zenon
<1>3. ASSUME Ret \/ VmEntry \/ VmExit PROVE Banks!Next \/ UNCHANGED Banks!bankVars
  BY <1>3, TransitionsSwitch, Zenon DEF Banks!Next
<1>4. ASSUME GuestRuns PROVE Banks!Next
  BY <1>4, GuestRunsIsCompute, Zenon DEF Banks!Next
<1>5. ASSUME (\E n \in FrameSizes : HostInterrupt(n)) \/ vmx_entry_failed
      PROVE  UNCHANGED Banks!bankVars
  <2>1. HostKept /\ GuestsKept
    BY <1>5, InterruptBanks, EntryFailedBanks, Zenon
  <2>2. /\ InSwitch \/ pc.fn = "vmx_entry_failed"
        /\ self' = self /\ (pc' = pc \/ pc'.fn = "panic")
    BY <1>5 DEF HostInterrupt, vmx_entry_failed
  <2>3. pc.fn # "guest" /\ pc'.fn # "guest"
    BY <2>2 DEF InSwitch, Code
  <2>4. UNCHANGED Running
    BY <2>2, <2>3 DEF Running
  <2> QED
    BY <2>1, <2>4, KeptIsStutter, Zenon
<1>6. ASSUME NEW v \in Vcpus, inner_run(v) PROVE Banks!Next
  BY <1>6, InnerRunIsCall, Zenon DEF Banks!Next
<1>7. ASSUME NEW v \in Vcpus,
             \/ Move(v) \/ unbind(v) \/ set_return_value(v) \/ set_stack_pointer(v)
             \/ \E i \in Indices : set_gpr(v, i)
             \/ \E r \in WriteRegs, p \in DOMAIN Parts : set_sub_register(v, r, p)
      PROVE  Banks!Next \/ UNCHANGED Banks!bankVars
  BY <1>7, HostStepIsBanks, Zenon
<1> QED
  BY <1>1, <1>2, <1>3, <1>4, <1>5, <1>6, <1>7, Zenon DEF Next, Panicked

\* The world switch implements RegisterBanks: whatever interrupts it and whether or not
\* the entry succeeds, the host and every guest keep their registers across
\* vmx_launch, vmx_resume and vmx_exit, and the accessors of guest_regs have the
\* effect of the guest's own instructions.
THEOREM ImplementsBanks == Spec => BanksSpec
<1>1. Init => Banks!Init
  BY DEF Init, Banks!Init
<1>2. SwitchInv /\ SwitchInv' /\ [Next]_wsVars => [Banks!Next]_(Banks!bankVars)
  BY BanksStep, Zenon
<1> QED
  BY <1>1, <1>2, SwitchCorrect, PTL DEF Spec, BanksSpec, Banks!Spec
=============================================================================
