----------------------------- MODULE VmxXState -----------------------------
(***************************************************************************)
(* Extended processor state (src/vmx/vcpu.rs, XState): XCR0 and IA32_XSS   *)
(* are not switched by VM entries and exits, so inner_run, and handle_cpuid*)
(* for leaf 0xd, swap them by hand on whatever CPU the vCPU is bound to.   *)
(* A value of either register is the set of its 1-bits.                    *)
(***************************************************************************)
EXTENDS Naturals

CONSTANTS
  Cpus, Vcpus,
  Xcr0Values,  \* values the host gives XCR0
  XsetbvArgs,  \* pairs (index, value) guests execute XSETBV with
  XssValues,   \* values IA32_XSS is given, by the host or by a guest
  Xcr0Known,   \* the bits Xcr0::from_bits knows
  Xsaves       \* whether the CPUs have XSAVES and IA32_XSS; all have XSAVE

ASSUME XsavesAssumption == Xsaves \in BOOLEAN
ASSUME XcrAssumption == Xcr0Values # {} /\ {} \in XssValues
ASSUME VcpusAssumption == "none" \notin Vcpus

VARIABLES
  xcr0, xss,              \* the registers of each CPU
  host_xcr0, guest_xcr0,  \* XState of each vCPU
  host_xss, guest_xss,
  exists,                 \* the vCPUs that were created
  running,                \* the vCPU in its VM entry on each CPU, or "none"
  cpu_xcr0, cpu_xss,      \* what the host last wrote on each CPU
  vm_xcr0, vm_xss,        \* what each guest last wrote, or was created with
  xsetbv,                 \* the vCPUs whose exit on XSETBV is yet to be handled
  panicked                \* the XSETBV arguments inner_run panicked on, or <<>>

hardware == <<xcr0, xss>>
saved == <<host_xcr0, guest_xcr0, host_xss, guest_xss>>
owners == <<cpu_xcr0, cpu_xss, vm_xcr0, vm_xss>>
xVars == <<hardware, saved, exists, running, owners, xsetbv, panicked>>

XTypeOK ==
  /\ xcr0 \in [Cpus -> Xcr0Values] /\ xss \in [Cpus -> XssValues]
  /\ host_xcr0 \in [Vcpus -> Xcr0Values] /\ guest_xcr0 \in [Vcpus -> Xcr0Values]
  /\ host_xss \in [Vcpus -> XssValues] /\ guest_xss \in [Vcpus -> XssValues]
  /\ exists \subseteq Vcpus
  /\ running \in [Cpus -> Vcpus \cup {"none"}]
  /\ xsetbv \subseteq exists
  /\ panicked \in XsetbvArgs \cup {<<>>}

Init ==
  /\ xcr0 \in [Cpus -> Xcr0Values] /\ xss \in [Cpus -> XssValues]
  /\ cpu_xcr0 = xcr0 /\ cpu_xss = xss
  /\ host_xcr0 = [v \in Vcpus |-> CHOOSE x \in Xcr0Values : TRUE]
  /\ guest_xcr0 = host_xcr0 /\ vm_xcr0 = host_xcr0
  /\ host_xss = [v \in Vcpus |-> {}] /\ guest_xss = host_xss /\ vm_xss = host_xss
  /\ exists = {}
  /\ running = [c \in Cpus |-> "none"]
  /\ xsetbv = {}
  /\ panicked = <<>>

\* CPU c runs the host, and the hypervisor is up.
HostRuns(c) == running[c] = "none" /\ panicked = <<>>

\* v is not in a VM entry on any CPU (`run` takes &mut self).
Idle(v) == v \in exists /\ \A c \in Cpus : running[c] # v

\* The host changes its own registers.
HostWrites(c) ==
  /\ HostRuns(c)
  /\ \E x \in Xcr0Values, s \in IF Xsaves THEN XssValues ELSE {xss[c]} :
       /\ xcr0' = [xcr0 EXCEPT ![c] = x] /\ cpu_xcr0' = [cpu_xcr0 EXCEPT ![c] = x]
       /\ xss' = [xss EXCEPT ![c] = s] /\ cpu_xss' = [cpu_xss EXCEPT ![c] = s]
  /\ UNCHANGED <<saved, exists, running, vm_xcr0, vm_xss, xsetbv, panicked>>

\* XState::new, in VmxVcpu::new on CPU c.
New(v, c) ==
  /\ HostRuns(c) /\ v \notin exists
  /\ exists' = exists \cup {v}
  /\ LET s == IF Xsaves THEN xss[c] ELSE {} IN
       /\ host_xcr0' = [host_xcr0 EXCEPT ![v] = xcr0[c]]
       /\ guest_xcr0' = [guest_xcr0 EXCEPT ![v] = xcr0[c]]
       /\ host_xss' = [host_xss EXCEPT ![v] = s]
       /\ guest_xss' = [guest_xss EXCEPT ![v] = s]
       /\ vm_xcr0' = [vm_xcr0 EXCEPT ![v] = xcr0[c]]
       /\ vm_xss' = [vm_xss EXCEPT ![v] = s]
  /\ UNCHANGED <<hardware, running, cpu_xcr0, cpu_xss, xsetbv, panicked>>

\* Mutant: the host values are the ones saved when the vCPU was created.
SwitchToGuestKeepsHost(v, c) ==
  /\ host_xcr0' = host_xcr0 /\ host_xss' = host_xss
  /\ xcr0' = [xcr0 EXCEPT ![c] = guest_xcr0[v]]
  /\ xss' = IF Xsaves THEN [xss EXCEPT ![c] = guest_xss[v]] ELSE xss

switch_to_guest(v, c) ==
  /\ host_xcr0' = [host_xcr0 EXCEPT ![v] = xcr0[c]]
  /\ xcr0' = [xcr0 EXCEPT ![c] = guest_xcr0[v]]
  /\ IF Xsaves
     THEN /\ host_xss' = [host_xss EXCEPT ![v] = xss[c]]
          /\ xss' = [xss EXCEPT ![c] = guest_xss[v]]
     ELSE UNCHANGED <<host_xss, xss>>

\* Mutant: what the guest wrote to IA32_XSS is not saved.
SwitchToHostDropsXss(v, c) ==
  /\ guest_xcr0' = [guest_xcr0 EXCEPT ![v] = xcr0[c]]
  /\ xcr0' = [xcr0 EXCEPT ![c] = host_xcr0[v]]
  /\ xss' = IF Xsaves THEN [xss EXCEPT ![c] = host_xss[v]] ELSE xss
  /\ UNCHANGED guest_xss

switch_to_host(v, c) ==
  /\ guest_xcr0' = [guest_xcr0 EXCEPT ![v] = xcr0[c]]
  /\ xcr0' = [xcr0 EXCEPT ![c] = host_xcr0[v]]
  /\ IF Xsaves
     THEN /\ guest_xss' = [guest_xss EXCEPT ![v] = xss[c]]
          /\ xss' = [xss EXCEPT ![c] = host_xss[v]]
     ELSE UNCHANGED <<guest_xss, xss>>

\* inner_run up to the VM entry: load_guest_xstate.  For leaf 0xd handle_cpuid takes
\* this step, executes CPUID and takes the step of Exit.
Enter(v, c) ==
  /\ HostRuns(c) /\ Idle(v) /\ v \notin xsetbv
  /\ switch_to_guest(v, c)
  /\ running' = [running EXCEPT ![c] = v]
  /\ UNCHANGED <<guest_xcr0, guest_xss, exists, owners, xsetbv, panicked>>

\* WRMSR IA32_XSS, which the MSR bitmap passes through.
GuestWritesXss(c) ==
  /\ running[c] # "none" /\ panicked = <<>>
  /\ Xsaves
  /\ \E s \in XssValues :
       /\ xss' = [xss EXCEPT ![c] = s]
       /\ vm_xss' = [vm_xss EXCEPT ![running[c]] = s]
  /\ UNCHANGED <<xcr0, saved, exists, running, cpu_xcr0, cpu_xss, vm_xcr0, xsetbv, panicked>>

\* A VM exit, on XSETBV or for another reason, or a failed VM entry: load_host_xstate.
Exit(c) ==
  /\ running[c] # "none" /\ panicked = <<>>
  /\ switch_to_host(running[c], c)
  /\ running' = [running EXCEPT ![c] = "none"]
  /\ xsetbv' \in {xsetbv, xsetbv \cup {running[c]}}
  /\ UNCHANGED <<host_xcr0, host_xss, exists, owners, panicked>>

\* The closure of handle_xsetbv: the last condition it rejects on always holds.
XsetbvRejects(x) ==
  \/ ~(x \subseteq Xcr0Known)
  \/ "FPU" \notin x
  \/ "AVX" \in x /\ "SSE" \notin x
  \/ ("BNDCSR" \in x) # ("BNDREG" \in x)
  \/ \E b \in {"OPMASK", "ZMM_HI256", "HI16_ZMM"} : b \in x
  \/ \E b \in {"AVX", "OPMASK", "ZMM_HI256", "HI16_ZMM"} : b \notin x

\* handle_xsetbv, after v exited on XSETBV: an error makes inner_run panic.
HandleXsetbv(v) ==
  /\ v \in xsetbv /\ Idle(v) /\ panicked = <<>>
  /\ xsetbv' = xsetbv \ {v}
  /\ \E a \in XsetbvArgs :
       IF a[1] = 0 /\ ~XsetbvRejects(a[2])
       THEN /\ guest_xcr0' = [guest_xcr0 EXCEPT ![v] = a[2]]
            /\ vm_xcr0' = [vm_xcr0 EXCEPT ![v] = a[2]]
            /\ UNCHANGED panicked
       ELSE /\ panicked' = a
            /\ UNCHANGED <<guest_xcr0, vm_xcr0>>
  /\ UNCHANGED <<hardware, host_xcr0, host_xss, guest_xss, exists, running,
                 cpu_xcr0, cpu_xss, vm_xss>>

Next ==
  \/ \E c \in Cpus :
       \/ HostWrites(c) \/ GuestWritesXss(c) \/ Exit(c)
       \/ \E v \in Vcpus : New(v, c) \/ Enter(v, c)
  \/ \E v \in Vcpus : HandleXsetbv(v)

Spec == Init /\ [][Next]_xVars

-----------------------------------------------------------------------------
\* Whenever a CPU is back in the host, XCR0 and IA32_XSS are what the host last wrote
\* there, whichever vCPUs ran, moved or were created in between.
HostStateRestored ==
  \A c \in Cpus : running[c] = "none" => xcr0[c] = cpu_xcr0[c] /\ xss[c] = cpu_xss[c]

\* A guest always runs on its own values, on whatever CPU it was resumed.
GuestStateLoaded ==
  \A c \in Cpus : running[c] # "none" =>
    /\ xcr0[c] = vm_xcr0[running[c]]
    /\ Xsaves => xss[c] = vm_xss[running[c]]

\* Values of XCR0 a processor accepts (SDM 13.3).
ValidXcr0(x) ==
  /\ x \subseteq Xcr0Known /\ "FPU" \in x
  /\ "AVX" \in x => "SSE" \in x
  /\ ("BNDCSR" \in x) = ("BNDREG" \in x)
  /\ LET avx512 == {"OPMASK", "ZMM_HI256", "HI16_ZMM"} IN
       x \cap avx512 # {} => avx512 \cup {"AVX"} \subseteq x

\* "xsetbv: set guest xcr": a guest that sets XCR0 to a valid value does not make
\* inner_run panic.
XsetbvSetsGuestXcr ==
  panicked # <<>> => ~(panicked[1] = 0 /\ ValidXcr0(panicked[2]))
=============================================================================
