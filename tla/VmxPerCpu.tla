----------------------------- MODULE VmxPerCpu -----------------------------
(***************************************************************************)
(* VmxPerCpuState (src/vmx/percpu.rs): turning VMX on and off on each      *)
(* logical CPU.  A control register or MSR is the set of its bits that are *)
(* 1.  What the firmware and the processor decide (feature bits, fixed     *)
(* bits, the initial IA32_FEATURE_CONTROL) is chosen once, in Init.        *)
(***************************************************************************)
EXTENDS FiniteSets

CONSTANTS
  Cpus,       \* logical processors
  Platforms,  \* the kinds of processor a logical CPU can be
  Firmwares   \* values the firmware may leave in IA32_FEATURE_CONTROL

\* Bits of CR0 and CR4 that matter here; "RSV" stands for a bit that neither
\* fixed-bit MSR constrains (there always is one in 64 bits).
CrBits == {"PE", "NE", "PG", "VMXE", "OSXSAVE", "RSV"}

\* FeatureControlFlags, and one bit of the MSR that the flags do not name.
FeatureBits == {"LOCKED", "INSIDE_SMX", "OUTSIDE_SMX", "reserved"}

\* The bits FeatureControlFlags names.
FeatureControlFlags == FeatureBits \ {"reserved"}

\* What a processor is: CPUID.VMX, CPUID.XSAVE, whether IA32_VMX_BASIC passes
\* the five checks, its VMCS revision, and its fixed-bit MSRs.
PlatformType ==
  [vmx: BOOLEAN, xsave: BOOLEAN, basic: BOOLEAN, rev: {"revA", "revB"},
   cr0: SUBSET CrBits, cr0_fixed0: SUBSET CrBits, cr0_fixed1: SUBSET CrBits,
   cr4_fixed0: SUBSET CrBits, cr4_fixed1: SUBSET CrBits]

ASSUME PlatformsAssumption == Platforms \subseteq PlatformType
ASSUME FirmwaresAssumption == Firmwares \subseteq SUBSET FeatureBits

Uninit == "uninit"                          \* VmxRegion::uninit()
Revisions == {"revA", "revB"}
Results == {"none", "Ok", "Unsupported", "ResourceBusy", "BadState",
            "NoMemory", "Fault"}

VARIABLES
  platform,          \* [Cpus -> Platforms], fixed
  cr4,               \* host CR4
  feature_control,   \* IA32_FEATURE_CONTROL
  vmx_operation,     \* processor is in VMX operation
  vmcs_revision_id,  \* VmxPerCpuState.vmcs_revision_id
  vmx_region,        \* revision written in the VMXON region, or Uninit
  result             \* what the last call on this CPU returned

percpuVars == <<platform, cr4, feature_control, vmx_operation,
                vmcs_revision_id, vmx_region, result>>

PerCpuTypeOK ==
  /\ platform \in [Cpus -> Platforms]
  /\ cr4 \in [Cpus -> SUBSET CrBits]
  /\ feature_control \in [Cpus -> SUBSET FeatureBits]
  /\ vmx_operation \in [Cpus -> BOOLEAN]
  /\ vmcs_revision_id \in [Cpus -> Revisions \cup {Uninit}]
  /\ vmx_region \in [Cpus -> Revisions \cup {Uninit}]
  /\ result \in [Cpus -> Results]

\* VmxPerCpuState::new on every CPU; the firmware left CR4.VMXE clear.
PerCpuInit ==
  /\ platform \in [Cpus -> Platforms]
  /\ cr4 = [c \in Cpus |-> {}]
  /\ feature_control \in [Cpus -> Firmwares]
  /\ vmx_operation = [c \in Cpus |-> FALSE]
  /\ vmcs_revision_id = [c \in Cpus |-> Uninit]
  /\ vmx_region = [c \in Cpus |-> Uninit]
  /\ result = [c \in Cpus |-> "none"]

-----------------------------------------------------------------------------
\* is_enabled reads CR4.VMXE, not the processor's VMX mode.
is_enabled(c) == "VMXE" \in cr4[c]

\* XState::enable_xsave
enable_xsave(c) == IF platform[c].xsave THEN cr4[c] \cup {"OSXSAVE"} ELSE cr4[c]

\* FeatureControl::write keeps the bits FeatureControlFlags does not name.
FeatureControlWrite(old, flags) == (old \ FeatureControlFlags) \cup flags

\* Mutant: the lock is not looked at before the MSR is written.
FeatureControlIgnoresLock(c) ==
  FeatureControlWrite(feature_control[c],
    (feature_control[c] \cap FeatureControlFlags) \cup {"LOCKED", "OUTSIDE_SMX"})

\* Mutant: the enable flag is shifted to a bit that is not defined.
FeatureControlWrongBit(c) == feature_control[c] \cup {"LOCKED", "bit3"}

\* The MSR after "Enable VMXON, if required".
FeatureControlAfter(c) ==
  LET ctrl == feature_control[c] \cap FeatureControlFlags
  IN  IF "LOCKED" \in ctrl
      THEN feature_control[c]
      ELSE FeatureControlWrite(feature_control[c],
                               ctrl \cup {"LOCKED", "OUTSIDE_SMX"})

VmxDisabledByBios(c) ==
  "LOCKED" \in feature_control[c] /\ "OUTSIDE_SMX" \notin feature_control[c]

\* cr_is_valid!: (!fixed0 | value) != 0 && (fixed1 | !value) != 0
cr_is_valid(value, fixed0, fixed1) ==
  /\ (CrBits \ fixed0) \cup value # {}
  /\ fixed1 \cup (CrBits \ value) # {}

\* SDM A.7, A.8: bits 1 in FIXED0 must be 1, bits 0 in FIXED1 must be 0.
CrInFixedRange(value, fixed0, fixed1) == fixed0 \subseteq value /\ value \subseteq fixed1

\* First check after the two writes that hardware_enable fails, "Ok" if none.
EnableChecks(c) ==
  LET p == platform[c]
      crs_valid == /\ cr_is_valid(p.cr0, p.cr0_fixed0, p.cr0_fixed1)
                   /\ cr_is_valid(enable_xsave(c), p.cr4_fixed0, p.cr4_fixed1)
  IN  IF VmxDisabledByBios(c) THEN "Unsupported"
      ELSE IF ~crs_valid THEN "BadState"
      ELSE IF ~p.basic THEN "Unsupported"
      ELSE "Ok"

\* The processor raises #GP on VMXON unless the MSR and both CRs allow it.
VmxonAllowed(c) ==
  LET p == platform[c] IN
  /\ {"LOCKED", "OUTSIDE_SMX"} \subseteq FeatureControlAfter(c)
  /\ CrInFixedRange(p.cr0, p.cr0_fixed0, p.cr0_fixed1)
  /\ CrInFixedRange(enable_xsave(c) \cup {"VMXE"}, p.cr4_fixed0, p.cr4_fixed1)

Return(c, r) == result' = [result EXCEPT ![c] = r]

\* A CPU that took an unhandled fault in the hypervisor does nothing more.
Running(c) == result[c] # "Fault"

-----------------------------------------------------------------------------
\* hardware_enable: the two early returns, nothing written.
HardwareEnableRefused(c) ==
  /\ Running(c)
  /\ ~platform[c].vmx \/ is_enabled(c)
  /\ Return(c, IF platform[c].vmx THEN "ResourceBusy" ELSE "Unsupported")
  /\ UNCHANGED <<platform, cr4, feature_control, vmx_operation,
                 vmcs_revision_id, vmx_region>>

\* hardware_enable past the early returns, up to the allocation.
EnablePrologue(c) ==
  /\ Running(c)
  /\ platform[c].vmx
  /\ ~is_enabled(c)
  /\ feature_control' = [feature_control EXCEPT ![c] = FeatureControlAfter(c)]
  /\ UNCHANGED platform

\* hardware_enable: a check fails after CR4.OSXSAVE and the MSR were written.
HardwareEnableRejected(c) ==
  /\ EnablePrologue(c)
  /\ EnableChecks(c) # "Ok"
  /\ cr4' = [cr4 EXCEPT ![c] = enable_xsave(c)]
  /\ Return(c, EnableChecks(c))
  /\ UNCHANGED <<vmx_operation, vmcs_revision_id, vmx_region>>

\* hardware_enable: VmxRegion::new finds no frame.
HardwareEnableNoMemory(c) ==
  /\ EnablePrologue(c)
  /\ EnableChecks(c) = "Ok"
  /\ cr4' = [cr4 EXCEPT ![c] = enable_xsave(c)]
  /\ vmcs_revision_id' = [vmcs_revision_id EXCEPT ![c] = platform[c].rev]
  /\ Return(c, "NoMemory")
  /\ UNCHANGED <<vmx_operation, vmx_region>>

\* hardware_enable up to VMXON, which has outcome r: "Ok", "BadState" when the
\* instruction reports VMfail, or "Fault" when it raises #GP.
HardwareEnableVmxon(c, r) ==
  /\ EnablePrologue(c)
  /\ EnableChecks(c) = "Ok"
  /\ r = "Fault" <=> ~VmxonAllowed(c)
  /\ cr4' = [cr4 EXCEPT ![c] = enable_xsave(c) \cup {"VMXE"}]
  /\ vmcs_revision_id' = [vmcs_revision_id EXCEPT ![c] = platform[c].rev]
  /\ vmx_region' = [vmx_region EXCEPT ![c] = platform[c].rev]
  /\ vmx_operation' = [vmx_operation EXCEPT ![c] = (r = "Ok")]
  /\ Return(c, r)

\* Mutant: VMXE is cleared although VMXOFF failed.
HardwareDisableIgnoresError(c) ==
  /\ Running(c)
  /\ is_enabled(c) => vmx_operation[c]
  /\ cr4' = [cr4 EXCEPT ![c] = @ \ {"VMXE"}]
  /\ vmx_region' = [vmx_region EXCEPT ![c] = Uninit]
  /\ Return(c, "BadState")
  /\ UNCHANGED <<platform, feature_control, vmx_operation, vmcs_revision_id>>

\* hardware_disable: the early return, or VMXOFF reporting VMfail.
HardwareDisableFails(c) ==
  /\ Running(c)
  /\ is_enabled(c) => vmx_operation[c]
  /\ Return(c, "BadState")
  /\ UNCHANGED <<platform, cr4, feature_control, vmx_operation,
                 vmcs_revision_id, vmx_region>>

\* Mutant: the VMXON region is not given back.
HardwareDisableKeepsRegion(c) ==
  /\ Running(c)
  /\ is_enabled(c)
  /\ vmx_operation[c]
  /\ vmx_operation' = [vmx_operation EXCEPT ![c] = FALSE]
  /\ cr4' = [cr4 EXCEPT ![c] = @ \ {"VMXE"}]
  /\ Return(c, "Ok")
  /\ UNCHANGED <<platform, feature_control, vmcs_revision_id, vmx_region>>

\* hardware_disable: VMXOFF, clear CR4.VMXE, free the region.
HardwareDisableOk(c) ==
  /\ Running(c)
  /\ is_enabled(c)
  /\ vmx_operation[c]
  /\ vmx_operation' = [vmx_operation EXCEPT ![c] = FALSE]
  /\ cr4' = [cr4 EXCEPT ![c] = @ \ {"VMXE"}]
  /\ vmx_region' = [vmx_region EXCEPT ![c] = Uninit]
  /\ Return(c, "Ok")
  /\ UNCHANGED <<platform, feature_control, vmcs_revision_id>>

\* hardware_disable after a failed VMXON: VMXOFF raises #UD.
HardwareDisableFaults(c) ==
  /\ Running(c)
  /\ is_enabled(c)
  /\ ~vmx_operation[c]
  /\ Return(c, "Fault")
  /\ UNCHANGED <<platform, cr4, feature_control, vmx_operation,
                 vmcs_revision_id, vmx_region>>

HardwareEnable(c) ==
  \/ HardwareEnableRefused(c)
  \/ HardwareEnableRejected(c)
  \/ HardwareEnableNoMemory(c)
  \/ \E r \in {"Ok", "BadState", "Fault"} : HardwareEnableVmxon(c, r)

HardwareDisable(c) ==
  \/ HardwareDisableFails(c)
  \/ HardwareDisableOk(c)
  \/ HardwareDisableFaults(c)

PerCpuNext == \E c \in Cpus : HardwareEnable(c) \/ HardwareDisable(c)

PerCpuSpec == PerCpuInit /\ [][PerCpuNext]_percpuVars

-----------------------------------------------------------------------------
\* In VMX operation the processor has what it needs until VMXOFF: CR4.VMXE, a
\* VMXON region of its own revision that is still allocated, and the locked
\* permission of the MSR -- over every order of hardware_enable and
\* hardware_disable and every way either can fail.
VmxOperationBacked ==
  \A c \in Cpus : vmx_operation[c] =>
    /\ is_enabled(c)
    /\ vmx_region[c] = platform[c].rev
    /\ {"LOCKED", "OUTSIDE_SMX"} \subseteq feature_control[c]

\* The VMXON region is held exactly while is_enabled answers true, whichever
\* error path hardware_enable took: no frame is leaked and none is freed early.
RegionHeldIffEnabled ==
  \A c \in Cpus : vmx_region[c] # Uninit <=> is_enabled(c)

\* hardware_enable never writes a locked IA32_FEATURE_CONTROL (that is a #GP)
\* and never clears a bit of it, the reserved ones included.
FeatureControlRespected ==
  [][\A c \in Cpus :
       /\ feature_control[c] \subseteq feature_control'[c]
       /\ "LOCKED" \in feature_control[c] => feature_control'[c] = feature_control[c]
    ]_percpuVars

\* hardware_enable answers ResourceBusy, "VMX is already turned on", only on a
\* CPU that is in VMX operation.
AlreadyOnIsTrue ==
  \A c \in Cpus : result[c] = "ResourceBusy" => vmx_operation[c]

\* Past the "VMX-friendly state" check of hardware_enable, both control
\* registers lie in the range the fixed-bit MSRs allow.
CrCheckIsSound ==
  \A c \in Cpus : is_enabled(c) =>
    LET p == platform[c] IN
    /\ CrInFixedRange(p.cr0, p.cr0_fixed0, p.cr0_fixed1)
    /\ CrInFixedRange(cr4[c], p.cr4_fixed0, p.cr4_fixed1)
=============================================================================
