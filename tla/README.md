# A TLA+ model of x86_vcpu

`x86_vcpu` is the Intel VMX half of a hypervisor's vCPU layer. The VMM calls it through
two traits of the `axvcpu` crate: `AxArchPerCpu` turns VMX on and off on a CPU,
`AxArchVCpu` creates, sets up, binds, runs and unbinds a vCPU. Everything else in the
crate serves those calls. This directory models that code, model-checks it with TLC on
small instances and proves its main properties with TLAPS for every instance.

Line numbers below are those of `src/src/vmx/vcpu.rs` unless another file is named.

## The parts and their modules

| Part | Code | Module | State |
|---|---|---|---|
| VMX on and off | `percpu.rs` | `VmxPerCpu` | CR4, IA32_FEATURE_CONTROL, the VMXON region, VMX operation of each CPU |
| vCPU life cycle | 214-351, 549-597, 856-914, 1233-1422 | `VmxVcpu` (extends `VmxPerCpu`) | phase, `launched`, and per VMCS its launch state, host-state area, HOST_RSP and the CPUs it is active on |
| Event injection | 476-495, 916-942, `vmcs.rs` 738-755, `definitions.rs` 224-288 | `VmxEvents` | `pending_events`, interrupt window, event fields, guest interruptibility |
| Control fields | 655-774, `vmcs.rs` 653-692 | `ControlFields`, `VmxControls` | the five control fields |
| Guest CR0, CR4, EFER, page walk | 275-292, 404-459, 776-854, 1053-1087, `vmcs.rs` 789-822 | `VmxGuestCr` | registers, shadows, masks, entry controls, what the guest wrote |
| XCR0, IA32_XSS | 56-162, 1177-1230 | `VmxXState` | the registers of each CPU, `XState` of each vCPU |
| I/O and MSR bitmaps | 497-547, `structs.rs` 54-176 | `InterceptBitmaps` | the 1-bits |
| Exit information | `vmcs.rs` 502-596, 706-767, 824-835, `definitions.rs` 86-222 | `ExitInfo` | none: decoders of the fields a VM exit stores |
| VM-exit dispatch | 945-1016, 1053-1175, 1300-1421 | `VmxExits` (extends `ExitInfo`) | RIP, RAX/RDX/RCX, the local APIC register, what `run` returned |
| Guest registers | `regs/mod.rs`, `regs/accessors.rs` | `GeneralRegisters` | none: layout, index table, parts of a register, the two macros |
| World switch | 313-324, 858-914, 1063-1068, 1399-1421 | `WorldSwitch` (extends `GeneralRegisters`) | the registers and the stack pointer of the processor, the host's stack, `guest_regs` and `host_stack_top` in memory, HOST_RSP |

`VmxVcpu` composes the life cycle with the per-CPU state; `VmxGuestCr` and `VmxControls`
share `set_control` through `ControlFields`. `VcpuResidency`, `EventFifo` and
`RegisterBanks` are abstract specifications, which `VmxVcpu`, `VmxEvents` and
`WorldSwitch` implement. The other modules stand alone: they meet in fields of the VMCS
that each of them owns. `MC*` modules give TLC its
constants, `*Proofs` modules hold the theorems. `PROJECT.json` maps each definition to
its lines.

Conventions: a register or field is the set of its 1-bits; an action is a whole handler,
one action for each way it can end; what the processor, the guest or the VMM does is
marked external in the map. A definition whose comment begins with "Mutant:" is a wrong
variant of the one after it, used to see that a property notices.

`VmxExits` separates what happened from what the code can know: `exit` is the event, the
processor encodes it into an exit reason and a qualification, and the handlers see only
what the decoders of `ExitInfo` make of those bits.

`WorldSwitch` executes the two naked functions one instruction at a time. A register is
four slices (bits 0-7, 8-15, 16-31, 32-63), each a token of the owner that left it there,
so any mix-up of registers, owners or parts shows. The refinement mapping to
`RegisterBanks` says where each register of each owner is at each instruction: on the
host's stack, in `guest_regs`, or in the processor. In `RegisterBanks` nobody runs from
the host's call of the switch to its return, the guest apart, so no instruction in between
may change anything. Before a launch, and again after
`unbind`, the structure may move in memory; the host may be interrupted at any
instruction that runs with RSP inside the structure.

`axvcpu`, the caller, is another crate. The model assumes of it that it binds a vCPU only
on a CPU in VMX operation with no other vCPU bound, turns VMX off only on a vacant
CPU, and does not move a vCPU in memory between a launch and the next `unbind`; nothing
in this crate enforces any of these.

## Runs

| Run | Bounds | What it shows |
|---|---|---|
| `percpu` | 2 CPUs of 5 kinds, 4 firmwares | VMX operation is always backed by CR4.VMXE, a live region of the right revision and the MSR; the region is held exactly while `is_enabled`; a locked MSR is never written |
| `vcpu` | 2 CPUs, 2 revisions, 2 vCPUs, symmetry | a VMCS is active on one CPU; a guest runs on its own VMCS with fresh host state; VMLAUNCH and VMRESUME are mixed up only after FailEntry; nothing freed stays active; refinement of `VcpuResidency` |
| `events` | 3 events, 8 kinds | events leave in order (refinement of `EventFifo`), are lost only with Halt or FailEntry, and break an entry only in the cases `FailEntryOnlyForNmi` and `EntryPanicCauses` name |
| `events_live` | 3 events, 3 kinds | queued events leave the queue, except an interrupt at the head after the guest has taken an NMI and what is behind it, and a spurious window closes |
| `controls` | 192 processors, and every migration between them | programmed fields are legal, complete, and keep defaults; on another processor as far as its capabilities for a field are those of setup |
| `guest_cr` | 7 bits of CR0, 7 of CR4, LME, LMA and NXE; 19 values written to CR0, 16 to CR4 | the guest reads what it wrote, fixed bits hold, `handle_cr` does not panic, entries fail only in the cases `FailEntryCauses` names, after a legal write only through LMA, and `get_ptw_info` describes the guest's own page walk, but for the level of 5-level paging |
| `xstate` | 2 CPUs, 2 vCPUs, 2 values of each register | host and guest values never leak into each other |
| `bitmaps` | ports and MSRs at the edges of bytes, slices and frames | a port or MSR exits exactly if the last call that names it asked for it |
| `exits` | every kind of exit modelled, 54 register states, instructions with and without prefixes | the guest resumes at the instruction or right after it, or inside one with prefixes; each instruction is carried out once, but for the MSR accesses and string I/O that `ExactlyOnce` names; the VMM is told the port, width, data, vector or MSR value of what happened, and only XSETBV and a refused x2APIC register panic |
| `world_switch` | 2 vCPUs, 3 places in memory, one write by the host, an interrupt frame of 20 words, symmetry | every instruction keeps the registers of the host and of both guests (refinement of `RegisterBanks`); the switch returns with the stack it was called with; the operand of MOV to CR is the guest's for all 16 register numbers |

Two CPUs and two vCPUs are what a migration and a conflict need; three events let one
wait between two others. Three places give one of two vCPUs somewhere to move. A frame of
20 words is longer than `guest_regs`, so an interrupt can overwrite all of the words below
RSP. One write by the host is enough since a write reads only the register it changes.
`MaxEvents` and `MaxWrites` are the only caps on counters. Deadlock checking is off where
a panic or a fault may stop the hypervisor.

| Run | Distinct states |
|---|---|
| `percpu` | 9,409 |
| `vcpu` | 297,895 |
| `events` | 237,187 |
| `events_live` | 20,668 |
| `controls` | 46,102 |
| `guest_cr` | 157,040 |
| `xstate` | 28,746 |
| `bitmaps` | 102,400 |
| `exits` | 36,002 |
| `world_switch` | 367,580 |

Two further runs show a disagreement between the code and its comments, and TLC
violates their property:

- `guest_cr_pg` (811, 1075): a legal write of CR0 that turns on paging without EFER.LME
  and exits ends in a failed entry, because `update_efer` sets LMA all the same.
- `xstate_xsetbv` (952, 1200): `handle_xsetbv` refuses every value, since its last
  condition asks for OPMASK both set and clear.

### Other disagreements

These definitions are false too. Added to the cfg of their module, TLC violates each:

- `AlreadyOnIsTrue` (`percpu.rs` 63, 122): a failed VMXON leaves CR4.VMXE set and the
  next call reports "VMX is already turned on".
- `CrCheckIsSound` (`percpu.rs` 81, 90): the test of the fixed bits lets forbidden values
  through.
- `LaunchedMeansLaunched` (181, 317): after a first entry that fails, `launched` is true
  and the VMCS is not launched.
- `LowVectorsAreExceptions` (`definitions.rs` 273): vector 21 gets type `Other`.
- `WindowOnlyWhenBlocked` (937): blocking by NMI holds back interrupts the guest can take.
- `CpuModeIsGuests` (275): `get_cpu_mode` reads the EFER of the host.
- `CodeBaseIsGuests` (403): so `gla2gva` leaves out the base of CS for a guest outside
  IA-32e mode that has loaded a code segment with L set, which only IA-32e mode looks at.
- `CrAccessPanics` (953): the comment on the exit handlers says "cr access: just panic",
  but `handle_cr` carries out MOV to CR0 and CR4; its panic is for the accesses that never
  exit (`CrAccessNeverPanics`).
- `EveryPortHasABit` (`structs.rs` 56, 101): ports past 8191 of a frame panic.
- `DefaultInterceptsAll` (514, 226): the default is `passthrough_all`.
- `ResumesAfterInstruction` (990, 1070, 1172): RIP moves by 2 for CPUID, RDMSR and WRMSR
  and by 3 for MOV to CR, but MOV to CR from R8-R15 is 4 bytes long, and any of them may
  have prefixes; `ResumesOnBoundary` says where the guest resumes then.
- `La57Hidden` (1118): the sub-leaf test compares all of RCX.
- `NoStrayWrites` (863, 866): an interrupt of the host inside the switch, or the panic of
  `vmx_entry_failed`, pushes on a stack pointer inside the `VmxVcpu` and can write below
  it. No register is lost to an interrupt (`BanksSpec`), but what lies before the
  structure in memory may be.

One more is a constant and needs no model: `handle_cpuid` clears FEATURE_MCE (1108), bit 7
of EDX, in EAX (1112); `cpuid` in `VmxExits` does as the code does.

Three more are exceptions that a passing property names:

- `PageWalkIsGuests` (776): `get_paging_level` says 4 for 5-level paging. `handle_cpuid`
  hides LA57, but `set_cr` lets a guest turn it on where the processor has it.
- `ExactlyOnce` (1369-1383): `run` hands an MSR access to the VMM with RIP at the
  instruction, which then exits again at every run. `advance_rip`, with which a VMM could
  get past it, is public but not in the implementation of `AxArchVCpu`.
- `EventsLeaveQueue` (921): once the guest has taken an injected NMI, an interrupt at the head
  of the queue never leaves it (`StuckBehindNmi`). Setup asks for NMI exiting without virtual
  NMIs (665), and then IRET does not end the blocking by NMI; `allow_interrupt` wants all of
  the interruptibility state to be 0, although this blocking holds back no interrupt.

## Fairness

Only `events_live` has fairness, all weak: `inject_pending_events` and the VM entry (the
VMM keeps calling `run`), the interrupt-window exit and an external-interrupt exit (the
processor takes them when pending; the host has a timer). The guest is not fair: both
properties assume that it keeps reaching a state in which it can take interrupts.

## Proofs

| Module | Theorems | Argument |
|---|---|---|
| `VmxVcpuProofs`, first part | about `VmxPerCpu`: `PerCpuTypeOK`, `VmxOperationBacked`, `RegionHeldIffEnabled`, `FeatureControlRespected` | inductive with the type invariant; one step per outcome of each call |
| `VmxVcpuProofs`, second part | `TypeOK`, `LifecycleInv`, and from it `VmcsOnOneCpu`, `GuestRunsOnItsOwnVmcs`, `EntryPanicOnlyAfterFailEntry`, `FreedVmcsInactive`, `NoVmcsActiveOutsideVmx`, and the refinement of `VcpuResidency` | `BoundInv`: a bound vCPU owns its CPU. `ParkedInv`: one that is not bound is active nowhere, unless its setup failed. `LaunchInv`: `launched` against the launch state. None of the properties is inductive without all three |
| `VmcsFieldsProofs`, first part | about `VmxControls`: `SetControlSound`, `ControlsAllowed`, `RequiredControls`, `DefaultsKept` | `ControlInv`: every field programmed so far satisfies `FieldOK` on the processor of setup, and `uniform` holds only fields whose capabilities agree with it on the processor of now |
| `VmcsFieldsProofs`, second part | about `VmxGuestCr`: `GuestReadsWhatItWrote`, `FixedBitsHeld`, `CrAccessNeverPanics`, `FailEntryCauses`, `LegalWriteFailures`, `PageWalkIsGuests` | `CrInv` adds that the masks are those `set_cr` writes, so the bits the guest owns are bits it may choose; `LongModeInv`: in a running guest LMA is on exactly under PG and LME, and after an exit the entry control follows LMA; and `LegalInv`: the mode bits of a guest that runs are what the processor asks for, and a legal write leaves them so |
| `VmxXStateProofs` | `HostStateRestored`, `GuestStateLoaded` | `XInv` adds what `XState` holds while a guest runs and while it is idle |
| `VmxEventsProofs` | `EventsTypeOK`, `FailEntryOnlyForNmi`, `BlockedInterruptArmsWindow`, `EntryPanicCauses`, `LossIsReported`, and the refinement of `EventFifo` | `EntryFieldsInv`: a valid event field is one `inject_event` wrote, with the type and error code of its vector; at an entry the guest can take it if it is an interrupt, and in the host only an NMI held back by MOV SS or STI is left over |
| `InterceptBitmapsProofs` | `IoInterceptExact`, `MsrInterceptExact` | `IoSlotInjective` and `MsrSlotInjective`: two ports, or an MSR and a direction, never share a bit; `BitmapInv` then says which bits are set |
| `VmxExitsProofs` | types, `ResumesOnBoundary`, `AnswerMatchesExit`, `ExactlyOnce`, `ApicMsrMovesEdxEax` | each decoder undoes the encoding of the processor for every exit that occurs, bit 31 of the exit reason included; `ExitInv` adds that an exit finds RIP where the guest left it and no answer pending |
| `WorldSwitchProofs` | `SwitchInv`, and from it `SwitchIsBalanced`, `OperandIsGuests` | see below |
| `WorldSwitchBanksProofs` | the refinement of `RegisterBanks` | see below |

`SwitchInv` says, for each position in `vmx_entry` and `vmx_exit`, where RSP points and how
deep the stack is (`OnHostStack`, `OnRegsArea`), and that the registers pushed so far are
where they were pushed: on the host's stack on the way in, in `guest_regs` on the way out
(`EntryInv`, `ExitInv`). `LinkInv` adds that HOST_RSP of a launched VMCS is the end of
`guest_regs` where its `VmxVcpu` is now, and that no two share a place; without it the first
push after a VM exit could go anywhere. The lemmas about the two lists of 16 registers are
proved once: both follow the layout of `GeneralRegisters` (`ListsFollowLayout`), so the
word a register is pushed to and popped from is a function of its `Offset`, and the rest is
arithmetic. `BanksByOffset` restates the refinement mapping in these terms; then
one lemma per instruction shows that it keeps the host's registers and each guest's
(`HostKept`, `GuestsKept`), and `BanksStep` names the step of `RegisterBanks` each action
is: `inner_run` a `Call`, the entry, the exit and `ret` a `Switch`, `GuestRuns` a `Compute`,
the accessors an `Emulate`, and every other step a stutter. The proof covers any number of
vCPUs and places, any number of writes and interrupt frames of any size; the two lists are
those of the code.

The theorems hold for any sets of CPUs and vCPUs and any processors that satisfy the named
assumptions (`PlatformsAssumption`, `FirmwaresAssumption`, `NoVmcsAssumption`,
`NoCpuAssumption`, `ProcessorsAssumption`, `CrAssumption`, `ValuesAssumption`, `EntryCtlsAssumption`,
`XsavesAssumption`, `XcrAssumption`, `VcpusAssumption`, `IrqsAssumption`,
`ExceptionsAssumption`, `MaxEventsAssumption`, `ErrAssumption`, `NmiBlockersAssumption`, `PortsAssumption`,
`MsrsAssumption`, `IoRangesAssumption`, `InstructionsAssumption`, `EventsAssumption`,
`RegistersAssumption`, `OwnersAssumption`, `InputsAssumption`). Two VMCS revisions are
built into `VmxPerCpu`.
`CrAssumption` takes the fixed bits to be those of processors in use: CR0 fixes no bit to
1 but PE, NE and PG, and CR4 none of PAE, PSE, SMEP, SMAP, PCIDE, CET and LA57.
`InstructionsAssumption` bounds the lengths of instructions from below by the bare opcode (4
bytes for MOV to CR from R8 to R15) and from above by 15 bytes; it does not rule out prefixes. `NmiBlockers` is
whether a processor also refuses an NMI injected under blocking by STI, which is left to it;
`events` takes one that does, `events_live` one that does not.

`GuestStateValid` has the checks a VM entry makes on CR0, CR4, EFER and the IA-32e entry
control; those on segments, which no handler of this crate writes after setup, are left
out. PCIDE stands for the bits of CR4 that need IA-32e mode.

Only model-checked: the two liveness properties of `events_live`, which are out of the
prover's reach (fairness needs ENABLED). Every other property of a passing run is a theorem.
The two runs that end in a violation have nothing to prove.

The type invariants of `VmxGuestCr`, `VmxXState` and `VmxExits` are not properties of a
run: they are conjuncts of the inductive invariants, proved with them.

## Not modelled

- APIC-access and preemption-timer exits and their decoders: `setup_vmcs_control` never
  turns their controls on, so the code is unreachable. `ept_violation_info`: no function
  of this crate acts on its result.
- CR3 branches of `set_cr` and `cr`, plain writes and reads of a field no exit touches;
  `get_tr_base`, `EPTPointer`: one expression each.
- Tables and accessors: VMCS field encodings, MSR numbers, texts of instruction errors.
- Logging, tracing (`regs/diff.rs`), `Debug`, the test allocator.
- The local APIC (`x86_vlapic`): one register that can be read and written, or a refusal.
- Running out of memory, except for the VMXON region.
- Reloading the PDPTEs, which a processor does when a write of CR0 or CR4 turns on or
  changes PAE paging, and `handle_cr` does not after a write that exits: CR3 and the page
  tables are outside the model.
- What becomes of a guest after the panic of `vmx_entry_failed`, which overwrites
  `guest_regs`: `BanksSpec` looks at the registers in the processor then, and nobody runs
  the guest again.
- Guest memory, EPT and the page walk itself, which other crates do.
