------------------------------ MODULE VmxVcpu ------------------------------
(***************************************************************************)
(* The life of VmxVcpu objects (src/vmx/vcpu.rs) on several logical CPUs:  *)
(* new, set_entry, set_ept_root, setup, bind, run, unbind and drop, over   *)
(* the VMCS state the processor keeps (SDM 24.11): which VMCS is current   *)
(* on a CPU, on which CPUs a VMCS is active, and its launch state.         *)
(*                                                                         *)
(* The caller is external (axvcpu::AxVCpu and the VMM above it) and is     *)
(* modelled by `phase` and `cpu_of`: it walks a vCPU through Created,      *)
(* Free, Ready and Running, marks it Invalid when a method returns an      *)
(* error, calls bind, run and unbind of a vCPU on one CPU, binds at most   *)
(* one vCPU per CPU, and calls vCPU methods only on a CPU where            *)
(* hardware_enable succeeded.                                              *)
(***************************************************************************)
EXTENDS VmxPerCpu

CONSTANTS
  Vcpus,    \* VmxVcpu objects; each stands for its VMCS region too
  NoVmcs,   \* the current-VMCS pointer FFFFFFFF_FFFFFFFFH
  NoCpu     \* not bound anywhere

ASSUME NoVmcsAssumption == NoVmcs \notin Vcpus
ASSUME NoCpuAssumption == NoCpu \notin Cpus

Phases == {"Absent", "Created", "Free", "Ready", "Running", "Invalid"}

VARIABLES
  phase,        \* AxVCpu's VCpuState, "Absent" before new
  cpu_of,       \* CPU a Ready or Running vCPU is bound to
  freed,        \* the VmxVcpu was dropped and its frames given back
  entry,        \* VmxVcpu.entry is Some
  ept_root,     \* VmxVcpu.ept_root is Some
  launched,     \* VmxVcpu.launched
  revision,     \* revision identifier in the VMCS region
  launch_state, \* the VMCS: "undefined", "clear" or "launched"
  host_area,    \* the VMCS: the CPU whose state the host-state area holds
  host_rsp,     \* the VMCS: the vCPU whose host_stack_top HOST_RSP points at
  exit_reason,  \* the VMCS: "none", "exit" or "entry_failure" (bit 31)
  active,       \* CPUs on which the VMCS is active
  current,      \* per CPU: the current VMCS
  panicked      \* per CPU: "no", or the place in the code that panicked

structVars == <<freed, entry, ept_root, revision>>
vcpuVars == <<phase, cpu_of, freed, entry, ept_root, launched, revision,
              launch_state, host_area, host_rsp, exit_reason, active,
              current, panicked>>
vars == <<percpuVars, vcpuVars>>

TypeOK ==
  /\ PerCpuTypeOK
  /\ phase \in [Vcpus -> Phases]
  /\ cpu_of \in [Vcpus -> Cpus \cup {NoCpu}]
  /\ freed \in [Vcpus -> BOOLEAN]
  /\ entry \in [Vcpus -> BOOLEAN]
  /\ ept_root \in [Vcpus -> BOOLEAN]
  /\ launched \in [Vcpus -> BOOLEAN]
  /\ revision \in [Vcpus -> Revisions \cup {Uninit}]
  /\ launch_state \in [Vcpus -> {"undefined", "clear", "launched"}]
  /\ host_area \in [Vcpus -> Cpus \cup {NoCpu}]
  /\ host_rsp \in [Vcpus -> Vcpus \cup {NoVmcs}]
  /\ exit_reason \in [Vcpus -> {"none", "exit", "entry_failure"}]
  /\ active \in [Vcpus -> SUBSET Cpus]
  /\ current \in [Cpus -> Vcpus \cup {NoVmcs}]
  /\ panicked \in [Cpus -> {"no", "unwrap", "entry", "handler"}]

Init ==
  /\ PerCpuInit
  /\ phase = [v \in Vcpus |-> "Absent"]
  /\ cpu_of = [v \in Vcpus |-> NoCpu]
  /\ freed = [v \in Vcpus |-> FALSE]
  /\ entry = [v \in Vcpus |-> FALSE]
  /\ ept_root = [v \in Vcpus |-> FALSE]
  /\ launched = [v \in Vcpus |-> FALSE]
  /\ revision = [v \in Vcpus |-> Uninit]
  /\ launch_state = [v \in Vcpus |-> "undefined"]
  /\ host_area = [v \in Vcpus |-> NoCpu]
  /\ host_rsp = [v \in Vcpus |-> NoVmcs]
  /\ exit_reason = [v \in Vcpus |-> "none"]
  /\ active = [v \in Vcpus |-> {}]
  /\ current = [c \in Cpus |-> NoVmcs]
  /\ panicked = [c \in Cpus |-> "no"]

-----------------------------------------------------------------------------
(* The VMX instructions, as the processor executes them on CPU c.          *)

\* VMPTRLD fails on a region with another revision identifier.
VmptrldOk(c, v) == revision[v] = platform[c].rev

Vmptrld(c, v) ==
  /\ current' = [current EXCEPT ![c] = v]
  /\ active' = [active EXCEPT ![v] = @ \cup {c}]

Vmclear(c, v) ==
  /\ current' = [current EXCEPT ![c] = IF @ = v THEN NoVmcs ELSE @]
  /\ active' = [active EXCEPT ![v] = @ \ {c}]
  /\ launch_state' = [launch_state EXCEPT ![v] = "clear"]

\* The host-state area is filled in from the registers of the CPU this runs on.
setup_vmcs_host(c, v) == host_area' = [host_area EXCEPT ![v] = c]

\* The caller: CPU c is up, in VMX operation, and runs no other vCPU.
Usable(c) == Running(c) /\ panicked[c] = "no" /\ vmx_operation[c]
Vacant(c) == \A v \in Vcpus : cpu_of[v] # c
Exists(v) == phase[v] # "Absent" /\ ~freed[v]

Enter(v, p) == phase' = [phase EXCEPT ![v] = p]
Panic(c, where) == panicked' = [panicked EXCEPT ![c] = where]

-----------------------------------------------------------------------------
EnableCpu(c) ==
  /\ panicked[c] = "no"
  /\ HardwareEnable(c)
  /\ UNCHANGED vcpuVars

\* hardware_disable; VMXOFF forgets the current VMCS.
DisableCpu(c) ==
  /\ panicked[c] = "no"
  /\ Vacant(c)
  /\ HardwareDisable(c)
  /\ current' = [current EXCEPT ![c] = IF vmx_operation'[c] THEN @ ELSE NoVmcs]
  /\ UNCHANGED <<phase, cpu_of, structVars, launched, launch_state, host_area,
                 host_rsp, exit_reason, active, panicked>>

\* Mutant: the region is created with the shadow-VMCS indicator set.
NewShadowVmcs(c, v) ==
  /\ Usable(c)
  /\ phase[v] = "Absent"
  /\ Enter(v, "Created")
  /\ launched' = [launched EXCEPT ![v] = FALSE]
  /\ revision' = [revision EXCEPT ![v] = "shadow"]
  /\ UNCHANGED <<percpuVars, cpu_of, freed, entry, ept_root, launch_state,
                 host_area, host_rsp, exit_reason, active, current, panicked>>

\* VmxVcpu::new: the revision is that of the CPU it runs on; the region was
\* never VMCLEARed.  Out of memory, nothing is left behind.
New(c, v) ==
  /\ Usable(c)
  /\ phase[v] = "Absent"
  /\ Enter(v, "Created")
  /\ launched' = [launched EXCEPT ![v] = FALSE]
  /\ revision' = [revision EXCEPT ![v] = platform[c].rev]
  /\ UNCHANGED <<percpuVars, cpu_of, freed, entry, ept_root, launch_state,
                 host_area, host_rsp, exit_reason, active, current, panicked>>

SetEntry(c, v) ==
  /\ Usable(c)
  /\ phase[v] = "Created" /\ Exists(v)
  /\ entry' = [entry EXCEPT ![v] = TRUE]
  /\ UNCHANGED <<percpuVars, phase, cpu_of, freed, ept_root, launched, revision,
                 launch_state, host_area, host_rsp, exit_reason, active,
                 current, panicked>>

SetEptRoot(c, v) ==
  /\ Usable(c)
  /\ phase[v] = "Created" /\ Exists(v)
  /\ ept_root' = [ept_root EXCEPT ![v] = TRUE]
  /\ UNCHANGED <<percpuVars, phase, cpu_of, freed, entry, launched, revision,
                 launch_state, host_area, host_rsp, exit_reason, active,
                 current, panicked>>

\* AxVCpu::setup, which reaches setup_vmcs.
CallSetup(c, v) ==
  /\ Usable(c) /\ Vacant(c)
  /\ phase[v] = "Created" /\ Exists(v)
  /\ UNCHANGED <<percpuVars, cpu_of, structVars, launched, host_rsp, exit_reason>>

\* entry.unwrap() or ept_root.unwrap() on None.
SetupUnwrapsNone(c, v) ==
  /\ CallSetup(c, v)
  /\ ~(entry[v] /\ ept_root[v])
  /\ Panic(c, "unwrap")
  /\ UNCHANGED <<phase, launch_state, host_area, active, current>>

\* setup_vmcs: VMCLEAR, then VMPTRLD refuses the region.
SetupBindFails(c, v) ==
  /\ CallSetup(c, v)
  /\ entry[v] /\ ept_root[v]
  /\ ~VmptrldOk(c, v)
  /\ Vmclear(c, v)
  /\ Enter(v, "Invalid")
  /\ UNCHANGED <<host_area, panicked>>

\* setup_vmcs: an error after bind_to_current_processor (set_control, INVEPT)
\* returns with the VMCS still current.
SetupControlFails(c, v) ==
  /\ CallSetup(c, v)
  /\ entry[v] /\ ept_root[v]
  /\ VmptrldOk(c, v)
  /\ launch_state' = [launch_state EXCEPT ![v] = "clear"]
  /\ Vmptrld(c, v)
  /\ setup_vmcs_host(c, v)
  /\ Enter(v, "Invalid")
  /\ UNCHANGED panicked

\* Mutant: setup_vmcs ends without unbind_from_current_processor.
SetupLeavesVmcsCurrent(c, v) ==
  /\ CallSetup(c, v)
  /\ entry[v] /\ ept_root[v]
  /\ VmptrldOk(c, v)
  /\ launch_state' = [launch_state EXCEPT ![v] = "clear"]
  /\ Vmptrld(c, v)
  /\ setup_vmcs_host(c, v)
  /\ Enter(v, "Free")
  /\ UNCHANGED panicked

\* setup_vmcs to its end: VMCLEAR, bind, fill in the VMCS, VMCLEAR.  VMPTRLD
\* made this VMCS the current one, so the second VMCLEAR leaves none.
SetupOk(c, v) ==
  /\ CallSetup(c, v)
  /\ entry[v] /\ ept_root[v]
  /\ VmptrldOk(c, v)
  /\ launch_state' = [launch_state EXCEPT ![v] = "clear"]
  /\ active' = [active EXCEPT ![v] = @ \ {c}]
  /\ current' = [current EXCEPT ![c] = NoVmcs]
  /\ setup_vmcs_host(c, v)
  /\ Enter(v, "Free")
  /\ UNCHANGED panicked

-----------------------------------------------------------------------------
\* Mutant: bind does not refresh the host-state area (setup_vmcs_host).
BindKeepsHostArea(c, v) ==
  /\ Usable(c) /\ Vacant(c)
  /\ phase[v] = "Free" /\ Exists(v)
  /\ VmptrldOk(c, v)
  /\ Vmptrld(c, v)
  /\ Enter(v, "Ready")
  /\ cpu_of' = [cpu_of EXCEPT ![v] = c]
  /\ UNCHANGED <<percpuVars, structVars, launched, launch_state, host_area,
                 host_rsp, exit_reason, panicked>>

\* bind: VMPTRLD and setup_vmcs_host.
Bind(c, v) ==
  /\ Usable(c) /\ Vacant(c)
  /\ phase[v] = "Free" /\ Exists(v)
  /\ VmptrldOk(c, v)
  /\ Vmptrld(c, v)
  /\ setup_vmcs_host(c, v)
  /\ Enter(v, "Ready")
  /\ cpu_of' = [cpu_of EXCEPT ![v] = c]
  /\ UNCHANGED <<percpuVars, structVars, launched, launch_state, host_rsp,
                 exit_reason, panicked>>

BindFails(c, v) ==
  /\ Usable(c) /\ Vacant(c)
  /\ phase[v] = "Free" /\ Exists(v)
  /\ ~VmptrldOk(c, v)
  /\ Enter(v, "Invalid")
  /\ UNCHANGED <<percpuVars, cpu_of, structVars, launched, launch_state,
                 host_area, host_rsp, exit_reason, active, current, panicked>>

-----------------------------------------------------------------------------
\* inner_run up to the entry instruction, which acts on the current VMCS:
\* `launched` picks VMRESUME or VMLAUNCH, and HOST_RSP is written before the
\* latter only.
CallRun(c, v) ==
  /\ Running(c) /\ panicked[c] = "no"
  /\ phase[v] = "Ready" /\ cpu_of[v] = c
  /\ launched' = [launched EXCEPT ![v] = TRUE]
  /\ host_rsp' = [w \in Vcpus |->
                   IF w = current[c] /\ ~launched[v] THEN v ELSE host_rsp[w]]
  /\ UNCHANGED <<percpuVars, cpu_of, structVars, host_area, active, current>>

\* VMLAUNCH wants a clear VMCS, VMRESUME a launched one, both a current one.
InstructionFits(c, v) ==
  /\ current[c] # NoVmcs
  /\ launch_state[current[c]] = IF launched[v] THEN "launched" ELSE "clear"

\* The entry instruction (or the HOST_RSP write) reports VMfail: a panic, in
\* vmx_entry_failed.
VmEntryPanics(c, v) ==
  /\ CallRun(c, v)
  /\ ~InstructionFits(c, v)
  /\ Panic(c, "entry")
  /\ Enter(v, "Running")
  /\ UNCHANGED <<launch_state, exit_reason>>

\* VM entry fails on the guest state: control reaches vmx_exit, run returns
\* FailEntry, and the launch state stays what it was.
VmEntryFails(c, v) ==
  /\ CallRun(c, v)
  /\ InstructionFits(c, v)
  /\ exit_reason' = [exit_reason EXCEPT ![current[c]] = "entry_failure"]
  /\ UNCHANGED <<phase, launch_state, panicked>>

VmEntry(c, v) ==
  /\ CallRun(c, v)
  /\ InstructionFits(c, v)
  /\ launch_state' = [launch_state EXCEPT ![current[c]] = "launched"]
  /\ Enter(v, "Running")
  /\ UNCHANGED <<exit_reason, panicked>>

\* A VM exit from CPU c, which runs v: the processor loads the host state of
\* the current VMCS and inner_run handles the exit.
VmExit(c, v) ==
  /\ phase[v] = "Running" /\ cpu_of[v] = c /\ panicked[c] = "no"
  /\ exit_reason' = [exit_reason EXCEPT ![current[c]] = "exit"]
  /\ UNCHANGED <<percpuVars, cpu_of, structVars, launched, launch_state,
                 host_area, host_rsp, active, current>>

\* The exit is handled, or returned to the caller.
VmExitHandled(c, v) ==
  /\ VmExit(c, v)
  /\ Enter(v, "Ready")
  /\ UNCHANGED panicked

\* builtin_vmexit_handler returned Some(Err) or panicked itself.
VmExitPanics(c, v) ==
  /\ VmExit(c, v)
  /\ Panic(c, "handler")
  /\ UNCHANGED phase

-----------------------------------------------------------------------------
\* Mutant: unbind keeps the launched flag.
UnbindKeepsLaunched(c, v) ==
  /\ Usable(c)
  /\ phase[v] = "Ready" /\ cpu_of[v] = c
  /\ Vmclear(c, v)
  /\ Enter(v, "Free")
  /\ cpu_of' = [cpu_of EXCEPT ![v] = NoCpu]
  /\ UNCHANGED <<percpuVars, structVars, launched, host_area, host_rsp,
                 exit_reason, panicked>>

\* Mutant: unbind does not VMCLEAR.
UnbindWithoutVmclear(c, v) ==
  /\ Usable(c)
  /\ phase[v] = "Ready" /\ cpu_of[v] = c
  /\ launched' = [launched EXCEPT ![v] = FALSE]
  /\ Enter(v, "Free")
  /\ cpu_of' = [cpu_of EXCEPT ![v] = NoCpu]
  /\ UNCHANGED <<percpuVars, structVars, launch_state, host_area, host_rsp,
                 exit_reason, active, current, panicked>>

\* unbind: launched := false, then VMCLEAR.
Unbind(c, v) ==
  /\ Usable(c)
  /\ phase[v] = "Ready" /\ cpu_of[v] = c
  /\ launched' = [launched EXCEPT ![v] = FALSE]
  /\ Vmclear(c, v)
  /\ Enter(v, "Free")
  /\ cpu_of' = [cpu_of EXCEPT ![v] = NoCpu]
  /\ UNCHANGED <<percpuVars, structVars, host_area, host_rsp, exit_reason,
                 panicked>>

\* Drop: VMCLEAR on whichever CPU drops it, then its frames are freed.
Drop(c, v) ==
  /\ Usable(c)
  /\ phase[v] \in {"Created", "Free", "Invalid"} /\ Exists(v)
  /\ Vmclear(c, v)
  /\ freed' = [freed EXCEPT ![v] = TRUE]
  /\ UNCHANGED <<percpuVars, phase, cpu_of, entry, ept_root, launched, revision,
                 host_area, host_rsp, exit_reason, panicked>>

VcpuStep(c, v) ==
  \/ New(c, v) \/ SetEntry(c, v) \/ SetEptRoot(c, v)
  \/ SetupUnwrapsNone(c, v) \/ SetupBindFails(c, v)
  \/ SetupControlFails(c, v) \/ SetupOk(c, v)
  \/ Bind(c, v) \/ BindFails(c, v)
  \/ VmEntry(c, v) \/ VmEntryFails(c, v) \/ VmEntryPanics(c, v)
  \/ VmExitHandled(c, v) \/ VmExitPanics(c, v)
  \/ Unbind(c, v) \/ Drop(c, v)

Next ==
  \E c \in Cpus : EnableCpu(c) \/ DisableCpu(c) \/ \E v \in Vcpus : VcpuStep(c, v)

Spec == Init /\ [][Next]_vars

-----------------------------------------------------------------------------
\* A VMCS is never active on two CPUs, whatever migrations, failed setups and
\* drops happen: the SDM leaves the VMCS contents undefined otherwise.
VmcsOnOneCpu ==
  \A v \in Vcpus : \A c, d \in active[v] : c = d

\* While a guest runs on a CPU, that CPU's current VMCS is the guest's own, its
\* host-state area was filled in on this CPU and HOST_RSP points into this
\* VmxVcpu: the next VM exit resumes the hypervisor where inner_run left it.
GuestRunsOnItsOwnVmcs ==
  \A v \in Vcpus : phase[v] = "Running" =>
    /\ current[cpu_of[v]] = v
    /\ host_area[v] = cpu_of[v]
    /\ host_rsp[v] = v

\* vmx_entry_failed (VMLAUNCH of a launched or VMRESUME of a clear VMCS) is
\* reached only by running a vCPU again whose first entry came back FailEntry;
\* no other order of setup, migration and errors mixes the two instructions up.
EntryPanicOnlyAfterFailEntry ==
  \A v \in Vcpus : phase[v] = "Running" /\ panicked[cpu_of[v]] = "entry" =>
    exit_reason[v] = "entry_failure"

\* When the frame of a VMCS has been given back, no CPU has that VMCS active,
\* unless setup_vmcs failed half-way and the vCPU was dropped on another CPU.
FreedVmcsInactive ==
  \A v \in Vcpus : freed[v] /\ phase[v] # "Invalid" => active[v] = {}

\* VMXOFF leaves no VMCS active behind it, again unless setup_vmcs failed.
NoVmcsActiveOutsideVmx ==
  \A v \in Vcpus : phase[v] # "Invalid" =>
    \A c \in active[v] : vmx_operation[c]

\* The inductive invariant behind the properties above, in three parts.
Bound(v) == phase[v] \in {"Ready", "Running"}

\* A bound vCPU owns its CPU: its VMCS is current and active there and nowhere
\* else, holds that CPU's host state, and VMX stays on.
BoundInv ==
  \A v \in Vcpus : Bound(v) =>
    /\ cpu_of[v] \in Cpus
    /\ vmx_operation[cpu_of[v]]
    /\ current[cpu_of[v]] = v
    /\ active[v] = {cpu_of[v]}
    /\ host_area[v] = cpu_of[v]
    /\ ~freed[v]

\* A vCPU that is not bound is on no CPU, and its VMCS is active nowhere unless
\* its setup failed half-way, when it is active on one CPU at most.
ParkedInv ==
  \A v \in Vcpus : ~Bound(v) =>
    /\ cpu_of[v] = NoCpu
    /\ phase[v] # "Invalid" => active[v] = {} /\ ~launched[v]
    /\ phase[v] = "Free" => launch_state[v] = "clear"
    /\ \A c, d \in active[v] : c = d

\* `launched` against the launch state of a bound VMCS: equal, except after an
\* entry that failed on the guest state, before which HOST_RSP was written.
LaunchInv ==
  \A v \in Vcpus : Bound(v) =>
    /\ ~launched[v] => phase[v] = "Ready" /\ launch_state[v] = "clear"
    /\ launched[v] => host_rsp[v] = v
    /\ launched[v] /\ launch_state[v] # "launched" => exit_reason[v] = "entry_failure"
    /\ phase[v] = "Running" /\ panicked[cpu_of[v]] = "entry" =>
         exit_reason[v] = "entry_failure"
    /\ phase[v] = "Running" /\ launch_state[v] # "launched" =>
         panicked[cpu_of[v]] # "no"

\* Ownership of CPUs and VMCSs, and the launched flag, agree at every step of
\* every vCPU on every CPU: the reason the other properties hold.
LifecycleInv == VmxOperationBacked /\ BoundInv /\ ParkedInv /\ LaunchInv

\* What VcpuResidency promises the VMM: a vCPU is resident on one CPU at a time,
\* moves only by leaving its CPU first, and shares its CPU with no other guest.
Residency == INSTANCE VcpuResidency
  WITH resident <- active, in_guest <- {v \in Vcpus : phase[v] = "Running"}
ResidencySpec == Residency!Spec

\* "Whether the VMCS has been launched": the field says what the VMCS is.
LaunchedMeansLaunched ==
  \A v \in Vcpus : Exists(v) /\ launched[v] => launch_state[v] = "launched"
=============================================================================
