--------------------------- MODULE VmxVcpuProofs ---------------------------
(***************************************************************************)
(* Proofs about VmxPerCpu and VmxVcpu, for any sets of CPUs, platforms,    *)
(* firmwares and vCPUs.  LifecycleInv is the inductive invariant of        *)
(* VmxVcpu; the safety properties follow from it.                          *)
(***************************************************************************)
EXTENDS VmxVcpu, TLAPS

-----------------------------------------------------------------------------
(* VmxPerCpu *)

\* The records of Platforms have the fields the model reads, typed.
LEMMA PlatformFields ==
  ASSUME PerCpuTypeOK, NEW c \in Cpus
  PROVE  /\ platform[c].rev \in Revisions
         /\ platform[c].vmx \in BOOLEAN
         /\ platform[c].xsave \in BOOLEAN
         /\ platform[c].basic \in BOOLEAN
BY PlatformsAssumption DEF PerCpuTypeOK, PlatformType, Revisions

\* The values hardware_enable computes are well typed.
LEMMA EnableValues ==
  ASSUME PerCpuTypeOK, NEW c \in Cpus
  PROVE  /\ enable_xsave(c) \in SUBSET CrBits
         /\ FeatureControlAfter(c) \in SUBSET FeatureBits
         /\ EnableChecks(c) \in Results
         /\ platform[c].rev \in Revisions \cup {Uninit}
<1>1. enable_xsave(c) \in SUBSET CrBits
  BY DEF PerCpuTypeOK, enable_xsave, CrBits
<1>2. FeatureControlAfter(c) \in SUBSET FeatureBits
  BY DEF PerCpuTypeOK, FeatureControlAfter, FeatureControlWrite,
         FeatureControlFlags, FeatureBits
<1>3. EnableChecks(c) \in Results
  BY DEF EnableChecks, Results
<1> QED
  BY <1>1, <1>2, <1>3, PlatformFields

\* Every call of hardware_enable or hardware_disable keeps the state typed.
LEMMA PerCpuTypeStep ==
  ASSUME PerCpuTypeOK, NEW c \in Cpus, HardwareEnable(c) \/ HardwareDisable(c)
  PROVE  PerCpuTypeOK'
<1>1. CASE HardwareEnableRefused(c)
  BY <1>1 DEF HardwareEnableRefused, Return, PerCpuTypeOK, Results
<1>2. CASE HardwareEnableRejected(c)
  BY <1>2, EnableValues DEF HardwareEnableRejected, EnablePrologue, Return, PerCpuTypeOK
<1>3. CASE HardwareEnableNoMemory(c)
  BY <1>3, EnableValues
  DEF HardwareEnableNoMemory, EnablePrologue, Return, PerCpuTypeOK, Results
<1>4. ASSUME NEW r \in {"Ok", "BadState", "Fault"}, HardwareEnableVmxon(c, r)
      PROVE  PerCpuTypeOK'
  BY <1>4, EnableValues
  DEF HardwareEnableVmxon, EnablePrologue, Return, PerCpuTypeOK, Results, CrBits
<1>5. CASE HardwareDisableFails(c)
  BY <1>5 DEF HardwareDisableFails, Return, PerCpuTypeOK, Results
<1>6. CASE HardwareDisableOk(c)
  BY <1>6 DEF HardwareDisableOk, Return, PerCpuTypeOK, Results
<1>7. CASE HardwareDisableFaults(c)
  BY <1>7 DEF HardwareDisableFaults, Return, PerCpuTypeOK, Results
<1> QED
  BY <1>1, <1>2, <1>3, <1>4, <1>5, <1>6, <1>7 DEF HardwareEnable, HardwareDisable

\* The variables of VmxPerCpu keep their types under hardware_enable and
\* hardware_disable on any number of CPUs.
THEOREM PerCpuTypeCorrect == PerCpuSpec => []PerCpuTypeOK
<1>1. PerCpuInit => PerCpuTypeOK
  BY FirmwaresAssumption DEF PerCpuInit, PerCpuTypeOK, Results
<1>2. PerCpuTypeOK /\ [PerCpuNext]_percpuVars => PerCpuTypeOK'
  <2>1. CASE PerCpuNext
    BY <2>1, PerCpuTypeStep DEF PerCpuNext
  <2>2. CASE UNCHANGED percpuVars
    BY <2>2 DEF percpuVars, PerCpuTypeOK
  <2> QED
    BY <2>1, <2>2
<1> QED
  BY <1>1, <1>2, PTL DEF PerCpuSpec

\* One call keeps a CPU in VMX operation backed, and only hardware_disable
\* takes a CPU out of VMX operation: hardware_enable on it returns early.
LEMMA BackedStep ==
  ASSUME PerCpuTypeOK, VmxOperationBacked, NEW c \in Cpus
  PROVE  /\ HardwareEnable(c) => /\ VmxOperationBacked'
                                 /\ \A d \in Cpus : vmx_operation[d] => vmx_operation'[d]
         /\ HardwareDisable(c) => /\ VmxOperationBacked'
                                  /\ \A d \in Cpus \ {c} : vmx_operation'[d] = vmx_operation[d]
<1>1. ASSUME HardwareEnableRefused(c) \/ HardwareDisableFails(c) \/ HardwareDisableFaults(c)
      PROVE  VmxOperationBacked' /\ vmx_operation' = vmx_operation
  BY <1>1 DEF HardwareEnableRefused, HardwareDisableFails, HardwareDisableFaults,
              VmxOperationBacked, is_enabled
<1>2. ASSUME EnablePrologue(c)
      PROVE  ~vmx_operation[c]
  BY <1>2 DEF EnablePrologue, VmxOperationBacked
<1>3. ASSUME HardwareEnableRejected(c) \/ HardwareEnableNoMemory(c)
      PROVE  VmxOperationBacked' /\ vmx_operation' = vmx_operation
  BY <1>2, <1>3 DEF HardwareEnableRejected, HardwareEnableNoMemory, EnablePrologue,
                    VmxOperationBacked, is_enabled, PerCpuTypeOK
<1>4. ASSUME NEW r \in {"Ok", "BadState", "Fault"}, HardwareEnableVmxon(c, r)
      PROVE  VmxOperationBacked' /\ \A d \in Cpus : vmx_operation[d] => vmx_operation'[d]
  <2>1. ~vmx_operation[c]
    BY <1>2, <1>4 DEF HardwareEnableVmxon
  <2>2. r = "Ok" => {"LOCKED", "OUTSIDE_SMX"} \subseteq FeatureControlAfter(c)
    BY <1>4 DEF HardwareEnableVmxon, VmxonAllowed
  <2> QED
    BY <1>4, <2>1, <2>2 DEF HardwareEnableVmxon, EnablePrologue, VmxOperationBacked,
                            is_enabled, PerCpuTypeOK
<1>5. ASSUME HardwareDisableOk(c)
      PROVE  VmxOperationBacked' /\ \A d \in Cpus \ {c} : vmx_operation'[d] = vmx_operation[d]
  BY <1>5 DEF HardwareDisableOk, VmxOperationBacked, is_enabled, PerCpuTypeOK
<1> QED
  BY <1>1, <1>3, <1>4, <1>5 DEF HardwareEnable, HardwareDisable

\* For any CPUs, processors and firmware: a CPU in VMX operation has CR4.VMXE,
\* an allocated VMXON region of its revision and the locked permission bits.
THEOREM VmxOperationAlwaysBacked == PerCpuSpec => []VmxOperationBacked
<1>1. PerCpuInit => VmxOperationBacked
  BY DEF PerCpuInit, VmxOperationBacked
<1>2. PerCpuTypeOK /\ VmxOperationBacked /\ [PerCpuNext]_percpuVars => VmxOperationBacked'
  <2>1. ASSUME PerCpuTypeOK, VmxOperationBacked, PerCpuNext
        PROVE  VmxOperationBacked'
    BY <2>1, BackedStep DEF PerCpuNext
  <2>2. ASSUME VmxOperationBacked, UNCHANGED percpuVars
        PROVE  VmxOperationBacked'
    BY <2>2 DEF percpuVars, VmxOperationBacked, is_enabled
  <2> QED
    BY <2>1, <2>2
<1> QED
  BY <1>1, <1>2, PerCpuTypeCorrect, PTL DEF PerCpuSpec

\* One call keeps the region held exactly while CR4.VMXE is set.
LEMMA RegionStep ==
  ASSUME PerCpuTypeOK, RegionHeldIffEnabled, NEW c \in Cpus,
         HardwareEnable(c) \/ HardwareDisable(c)
  PROVE  RegionHeldIffEnabled'
<1>0. "VMXE" \in enable_xsave(c) <=> is_enabled(c)
  BY DEF enable_xsave, is_enabled
<1>1. CASE HardwareEnableRefused(c) \/ HardwareDisableFails(c) \/ HardwareDisableFaults(c)
  BY <1>1 DEF HardwareEnableRefused, HardwareDisableFails, HardwareDisableFaults,
              RegionHeldIffEnabled, is_enabled
<1>2. CASE HardwareEnableRejected(c) \/ HardwareEnableNoMemory(c)
  BY <1>0, <1>2 DEF HardwareEnableRejected, HardwareEnableNoMemory,
                    RegionHeldIffEnabled, is_enabled, PerCpuTypeOK
<1>3. ASSUME NEW r \in {"Ok", "BadState", "Fault"}, HardwareEnableVmxon(c, r)
      PROVE  RegionHeldIffEnabled'
  <2>1. platform[c].rev # Uninit
    BY PlatformFields DEF Revisions, Uninit
  <2> QED
    BY <1>3, <2>1 DEF HardwareEnableVmxon, RegionHeldIffEnabled, is_enabled, PerCpuTypeOK
<1>4. CASE HardwareDisableOk(c)
  BY <1>4 DEF HardwareDisableOk, RegionHeldIffEnabled, is_enabled, PerCpuTypeOK
<1> QED
  BY <1>1, <1>2, <1>3, <1>4 DEF HardwareEnable, HardwareDisable

\* On every error path of hardware_enable and hardware_disable, a CPU holds a
\* VMXON region exactly while is_enabled answers true.
THEOREM RegionNeverLeaks == PerCpuSpec => []RegionHeldIffEnabled
<1>1. PerCpuInit => RegionHeldIffEnabled
  BY DEF PerCpuInit, RegionHeldIffEnabled, is_enabled
<1>2. PerCpuTypeOK /\ RegionHeldIffEnabled /\ [PerCpuNext]_percpuVars => RegionHeldIffEnabled'
  <2>1. ASSUME PerCpuTypeOK, RegionHeldIffEnabled, PerCpuNext
        PROVE  RegionHeldIffEnabled'
    BY <2>1, RegionStep DEF PerCpuNext
  <2>2. ASSUME RegionHeldIffEnabled, UNCHANGED percpuVars
        PROVE  RegionHeldIffEnabled'
    BY <2>2 DEF percpuVars, RegionHeldIffEnabled, is_enabled
  <2> QED
    BY <2>1, <2>2
<1> QED
  BY <1>1, <1>2, PerCpuTypeCorrect, PTL DEF PerCpuSpec

\* On any firmware: a locked IA32_FEATURE_CONTROL is never written and no bit of
\* it is ever cleared.
THEOREM FeatureControlAlwaysRespected == PerCpuSpec => FeatureControlRespected
<1> DEFINE Respects ==
      \A c \in Cpus :
        /\ feature_control[c] \subseteq feature_control'[c]
        /\ "LOCKED" \in feature_control[c] => feature_control'[c] = feature_control[c]
<1>1. PerCpuTypeOK /\ [PerCpuNext]_percpuVars => [Respects]_percpuVars
  <2> SUFFICES ASSUME PerCpuTypeOK, NEW c \in Cpus, HardwareEnable(c) \/ HardwareDisable(c)
               PROVE  Respects
    BY DEF PerCpuNext
  <2>1. /\ feature_control[c] \subseteq FeatureControlAfter(c)
        /\ "LOCKED" \in feature_control[c] => FeatureControlAfter(c) = feature_control[c]
    BY DEF FeatureControlAfter, FeatureControlWrite, FeatureControlFlags, FeatureBits,
       PerCpuTypeOK
  <2>2. CASE EnablePrologue(c)
    BY <2>1, <2>2 DEF EnablePrologue, PerCpuTypeOK
  <2>3. CASE UNCHANGED feature_control
    BY <2>3, SMTT(30)
  <2> QED
    BY <2>2, <2>3 DEF HardwareEnable, HardwareDisable, HardwareEnableRefused,
         HardwareEnableRejected, HardwareEnableNoMemory, HardwareEnableVmxon,
         HardwareDisableFails, HardwareDisableOk, HardwareDisableFaults
<1> QED
  BY <1>1, PerCpuTypeCorrect, PTL DEF PerCpuSpec, FeatureControlRespected

-----------------------------------------------------------------------------
(* VmxVcpu *)

\* Every vCPU operation keeps the state typed.
LEMMA VcpuTypeStep ==
  ASSUME TypeOK, NEW c \in Cpus, NEW v \in Vcpus, VcpuStep(c, v)
  PROVE  TypeOK'
<1> USE DEF TypeOK, Phases, structVars
<1>0. PerCpuTypeOK'
  BY Zenon DEF VcpuStep, PerCpuTypeOK, percpuVars, New, SetEntry, SetEptRoot,
     SetupUnwrapsNone, SetupBindFails, SetupControlFails, setup_vmcs_host, SetupOk, Bind,
     BindFails, VmEntry, VmEntryFails, VmEntryPanics, VmExitHandled, VmExitPanics, Unbind,
     Drop, CallSetup, CallRun, VmExit
<1>1. CASE New(c, v)
  BY <1>0, <1>1, PlatformFields DEF New, Enter, Usable
<1>2. CASE SetEntry(c, v)
  BY <1>0, <1>2 DEF SetEntry
<1>3. CASE SetEptRoot(c, v)
  BY <1>0, <1>3 DEF SetEptRoot
<1>4. CASE SetupUnwrapsNone(c, v)
  BY <1>0, <1>4 DEF SetupUnwrapsNone, CallSetup, Panic
<1>5. CASE SetupBindFails(c, v)
  BY <1>0, <1>5 DEF SetupBindFails, CallSetup, Vmclear, Enter
<1>6. CASE SetupControlFails(c, v)
  BY <1>0, <1>6 DEF SetupControlFails, setup_vmcs_host, CallSetup, Vmptrld, Enter
<1>7. CASE SetupOk(c, v)
  BY <1>0, <1>7 DEF SetupOk, setup_vmcs_host, CallSetup, Enter
<1>8. CASE Bind(c, v)
  BY <1>0, <1>8 DEF Bind, setup_vmcs_host, Vmptrld, Enter
<1>9. CASE BindFails(c, v)
  BY <1>0, <1>9 DEF BindFails, Enter
<1>10. CASE VmEntry(c, v)
  BY <1>0, <1>10 DEF VmEntry, CallRun, InstructionFits, Enter
<1>11. CASE VmEntryFails(c, v)
  BY <1>0, <1>11 DEF VmEntryFails, CallRun, InstructionFits
<1>12. CASE VmEntryPanics(c, v)
  BY <1>0, <1>12 DEF VmEntryPanics, CallRun, Panic, Enter
<1>13. CASE VmExitHandled(c, v)
  BY <1>0, <1>13, Zenon DEF VmExitHandled, VmExit, Enter
<1>14. CASE VmExitPanics(c, v)
  BY <1>0, <1>14, Zenon DEF VmExitPanics, VmExit, Panic
<1>15. CASE Unbind(c, v)
  BY <1>0, <1>15 DEF Unbind, Vmclear, Enter
<1>16. CASE Drop(c, v)
  BY <1>0, <1>16 DEF Drop, Vmclear
<1> QED
  BY <1>1, <1>2, <1>3, <1>4, <1>5, <1>6, <1>7, <1>8, <1>9, <1>10, <1>11, <1>12, <1>13,
     <1>14, <1>15, <1>16, Zenon DEF VcpuStep

\* Every vCPU operation, on any CPU, keeps the inductive invariant.
LEMMA VcpuInvStep ==
  ASSUME TypeOK, LifecycleInv, NEW c \in Cpus, NEW v \in Vcpus, VcpuStep(c, v)
  PROVE  LifecycleInv'
<1> USE DEF TypeOK, Phases, structVars, percpuVars, Bound
<1>0. VmxOperationBacked' /\ vmx_operation' = vmx_operation
  BY ZenonT(30) DEF LifecycleInv, VmxOperationBacked, is_enabled, VcpuStep, New, SetEntry,
     SetEptRoot, SetupUnwrapsNone, SetupBindFails, SetupControlFails, setup_vmcs_host,
     SetupOk, Bind, BindFails, VmEntry, VmEntryFails, VmEntryPanics, VmExitHandled,
     VmExitPanics, Unbind, Drop, CallSetup, CallRun, VmExit
<1>1. CASE New(c, v)
  <2>1. BoundInv'
    BY <1>0, <1>1, NoVmcsAssumption, NoCpuAssumption
    DEF LifecycleInv, BoundInv, ParkedInv, LaunchInv, New, Enter
  <2>2. ParkedInv'
    BY <1>0, <1>1, NoVmcsAssumption, NoCpuAssumption
    DEF LifecycleInv, BoundInv, ParkedInv, LaunchInv, New, Enter
  <2>3. LaunchInv'
    BY <1>0, <1>1, NoVmcsAssumption, NoCpuAssumption, SMTT(30)
    DEF LifecycleInv, BoundInv, ParkedInv, LaunchInv, New, Enter
  <2> QED
    BY <1>0, <2>1, <2>2, <2>3 DEF LifecycleInv
<1>2. CASE SetEntry(c, v)
  <2>1. BoundInv'
    BY <1>0, <1>2, NoVmcsAssumption, NoCpuAssumption, SMTT(30)
    DEF LifecycleInv, BoundInv, ParkedInv, LaunchInv, SetEntry
  <2>2. ParkedInv'
    BY <1>0, <1>2, NoVmcsAssumption, NoCpuAssumption, SMTT(30)
    DEF LifecycleInv, BoundInv, ParkedInv, LaunchInv, SetEntry
  <2>3. LaunchInv'
    BY <1>0, <1>2, NoVmcsAssumption, NoCpuAssumption, SMTT(30)
    DEF LifecycleInv, BoundInv, ParkedInv, LaunchInv, SetEntry
  <2> QED
    BY <1>0, <2>1, <2>2, <2>3 DEF LifecycleInv
<1>3. CASE SetEptRoot(c, v)
  <2>1. BoundInv'
    BY <1>0, <1>3, NoVmcsAssumption, NoCpuAssumption, SMTT(30)
    DEF LifecycleInv, BoundInv, ParkedInv, LaunchInv, SetEptRoot
  <2>2. ParkedInv'
    BY <1>0, <1>3, NoVmcsAssumption, NoCpuAssumption, SMTT(30)
    DEF LifecycleInv, BoundInv, ParkedInv, LaunchInv, SetEptRoot
  <2>3. LaunchInv'
    BY <1>0, <1>3, NoVmcsAssumption, NoCpuAssumption, SMTT(30)
    DEF LifecycleInv, BoundInv, ParkedInv, LaunchInv, SetEptRoot
  <2> QED
    BY <1>0, <2>1, <2>2, <2>3 DEF LifecycleInv
<1>4. CASE SetupUnwrapsNone(c, v)
  <2>1. BoundInv'
    BY <1>0, <1>4, NoVmcsAssumption, NoCpuAssumption, SMTT(30)
    DEF LifecycleInv, BoundInv, ParkedInv, LaunchInv, SetupUnwrapsNone, CallSetup, Panic
  <2>2. ParkedInv'
    BY <1>0, <1>4, NoVmcsAssumption, NoCpuAssumption, SMTT(30)
    DEF LifecycleInv, BoundInv, ParkedInv, LaunchInv, SetupUnwrapsNone, CallSetup, Panic
  <2>3. LaunchInv'
    BY <1>0, <1>4, NoVmcsAssumption, NoCpuAssumption, SMTT(30)
    DEF LifecycleInv, BoundInv, ParkedInv, LaunchInv, SetupUnwrapsNone, CallSetup, Panic
  <2> QED
    BY <1>0, <2>1, <2>2, <2>3 DEF LifecycleInv
<1>5. CASE SetupBindFails(c, v)
  <2>1. BoundInv'
    BY <1>0, <1>5, NoVmcsAssumption, NoCpuAssumption, SMTT(30)
    DEF LifecycleInv, BoundInv, ParkedInv, LaunchInv, SetupBindFails, CallSetup, Vmclear, Enter
  <2>2. ParkedInv'
    BY <1>0, <1>5, NoVmcsAssumption, NoCpuAssumption, SMTT(30)
    DEF LifecycleInv, BoundInv, ParkedInv, LaunchInv, SetupBindFails, CallSetup, Vmclear, Enter
  <2>3. LaunchInv'
    BY <1>0, <1>5, NoVmcsAssumption, NoCpuAssumption, SMTT(30)
    DEF LifecycleInv, BoundInv, ParkedInv, LaunchInv, SetupBindFails, CallSetup, Vmclear, Enter
  <2> QED
    BY <1>0, <2>1, <2>2, <2>3 DEF LifecycleInv
<1>6. CASE SetupControlFails(c, v)
  <2>1. BoundInv'
    BY <1>0, <1>6, NoVmcsAssumption, NoCpuAssumption, SMTT(30)
    DEF LifecycleInv, BoundInv, ParkedInv, LaunchInv, SetupControlFails, setup_vmcs_host, CallSetup, Vacant, Vmptrld, Enter
  <2>2. ParkedInv'
    BY <1>0, <1>6, NoVmcsAssumption, NoCpuAssumption, SMTT(30)
    DEF LifecycleInv, BoundInv, ParkedInv, LaunchInv, SetupControlFails, setup_vmcs_host, CallSetup, Vacant, Vmptrld, Enter
  <2>3. LaunchInv'
    BY <1>0, <1>6, NoVmcsAssumption, NoCpuAssumption, SMTT(30)
    DEF LifecycleInv, BoundInv, ParkedInv, LaunchInv, SetupControlFails, setup_vmcs_host, CallSetup, Vacant, Vmptrld, Enter
  <2> QED
    BY <1>0, <2>1, <2>2, <2>3 DEF LifecycleInv
<1>7. CASE SetupOk(c, v)
  <2>1. BoundInv'
    BY <1>0, <1>7, NoVmcsAssumption, NoCpuAssumption, SMTT(30)
    DEF LifecycleInv, BoundInv, ParkedInv, LaunchInv, SetupOk, setup_vmcs_host, CallSetup, Vacant, Enter
  <2>2. ParkedInv'
    BY <1>0, <1>7, NoVmcsAssumption, NoCpuAssumption, SMTT(30)
    DEF LifecycleInv, BoundInv, ParkedInv, LaunchInv, SetupOk, setup_vmcs_host, CallSetup, Vacant, Enter
  <2>3. LaunchInv'
    BY <1>0, <1>7, NoVmcsAssumption, NoCpuAssumption
    DEF LifecycleInv, BoundInv, ParkedInv, LaunchInv, SetupOk, setup_vmcs_host, CallSetup, Vacant, Enter
  <2> QED
    BY <1>0, <2>1, <2>2, <2>3 DEF LifecycleInv
<1>8. CASE Bind(c, v)
  <2>1. BoundInv'
    BY <1>0, <1>8, NoVmcsAssumption, NoCpuAssumption
    DEF LifecycleInv, BoundInv, ParkedInv, LaunchInv, Bind, setup_vmcs_host, Vacant, Usable, Exists, Vmptrld, Enter
  <2>2. ParkedInv'
    BY <1>0, <1>8, NoVmcsAssumption, NoCpuAssumption, SMTT(30)
    DEF LifecycleInv, BoundInv, ParkedInv, LaunchInv, Bind, setup_vmcs_host, Vacant, Usable, Exists, Vmptrld, Enter
  <2>3. LaunchInv'
    BY <1>0, <1>8, NoVmcsAssumption, NoCpuAssumption, SMTT(30)
    DEF LifecycleInv, BoundInv, ParkedInv, LaunchInv, Bind, setup_vmcs_host, Vacant, Usable, Exists, Vmptrld, Enter
  <2> QED
    BY <1>0, <2>1, <2>2, <2>3 DEF LifecycleInv
<1>9. CASE BindFails(c, v)
  <2>1. BoundInv'
    BY <1>0, <1>9, NoVmcsAssumption, NoCpuAssumption
    DEF LifecycleInv, BoundInv, ParkedInv, LaunchInv, BindFails, Enter
  <2>2. ParkedInv'
    BY <1>0, <1>9, NoVmcsAssumption, NoCpuAssumption, SMTT(30)
    DEF LifecycleInv, BoundInv, ParkedInv, LaunchInv, BindFails, Enter
  <2>3. LaunchInv'
    BY <1>0, <1>9, NoVmcsAssumption, NoCpuAssumption, SMTT(30)
    DEF LifecycleInv, BoundInv, ParkedInv, LaunchInv, BindFails, Enter
  <2> QED
    BY <1>0, <2>1, <2>2, <2>3 DEF LifecycleInv
<1>10. CASE VmEntry(c, v)
  <2>1. BoundInv'
    BY <1>0, <1>10, NoVmcsAssumption, NoCpuAssumption
    DEF LifecycleInv, BoundInv, ParkedInv, LaunchInv, VmEntry, CallRun, InstructionFits, Enter
  <2>2. ParkedInv'
    BY <1>0, <1>10, NoVmcsAssumption, NoCpuAssumption
    DEF LifecycleInv, BoundInv, ParkedInv, LaunchInv, VmEntry, CallRun, InstructionFits, Enter
  <2>3. LaunchInv'
    BY <1>0, <1>10, NoVmcsAssumption, NoCpuAssumption, SMTT(30)
    DEF LifecycleInv, BoundInv, ParkedInv, LaunchInv, VmEntry, CallRun, InstructionFits, Enter
  <2> QED
    BY <1>0, <2>1, <2>2, <2>3 DEF LifecycleInv
<1>11. CASE VmEntryFails(c, v)
  <2>1. BoundInv'
    BY <1>0, <1>11, NoVmcsAssumption, NoCpuAssumption, SMTT(30)
    DEF LifecycleInv, BoundInv, ParkedInv, LaunchInv, VmEntryFails, CallRun, InstructionFits
  <2>2. ParkedInv'
    BY <1>0, <1>11, NoVmcsAssumption, NoCpuAssumption, SMTT(30)
    DEF LifecycleInv, BoundInv, ParkedInv, LaunchInv, VmEntryFails, CallRun, InstructionFits
  <2>3. LaunchInv'
    BY <1>0, <1>11, NoVmcsAssumption, NoCpuAssumption, SMTT(30)
    DEF LifecycleInv, BoundInv, ParkedInv, LaunchInv, VmEntryFails, CallRun, InstructionFits
  <2> QED
    BY <1>0, <2>1, <2>2, <2>3 DEF LifecycleInv
<1>12. CASE VmEntryPanics(c, v)
  <2>1. BoundInv'
    BY <1>0, <1>12, NoVmcsAssumption, NoCpuAssumption, SMTT(30)
    DEF LifecycleInv, BoundInv, ParkedInv, LaunchInv, VmEntryPanics, CallRun, InstructionFits, Panic, Enter
  <2>2. ParkedInv'
    BY <1>0, <1>12, NoVmcsAssumption, NoCpuAssumption, SMTT(30)
    DEF LifecycleInv, BoundInv, ParkedInv, LaunchInv, VmEntryPanics, CallRun, InstructionFits, Panic, Enter
  <2>3. LaunchInv'
    BY <1>0, <1>12, NoVmcsAssumption, NoCpuAssumption
    DEF LifecycleInv, BoundInv, ParkedInv, LaunchInv, VmEntryPanics, CallRun, InstructionFits, Panic, Enter
  <2> QED
    BY <1>0, <2>1, <2>2, <2>3 DEF LifecycleInv
<1>13. CASE VmExitHandled(c, v)
  <2>1. BoundInv'
    BY <1>0, <1>13, NoVmcsAssumption, NoCpuAssumption, SMTT(30)
    DEF LifecycleInv, BoundInv, ParkedInv, LaunchInv, VmExitHandled, VmExit, Enter
  <2>2. ParkedInv'
    BY <1>0, <1>13, NoVmcsAssumption, NoCpuAssumption, SMTT(30)
    DEF LifecycleInv, BoundInv, ParkedInv, LaunchInv, VmExitHandled, VmExit, Enter
  <2>3. LaunchInv'
    BY <1>0, <1>13, NoVmcsAssumption, NoCpuAssumption, SMTT(30)
    DEF LifecycleInv, BoundInv, ParkedInv, LaunchInv, VmExitHandled, VmExit, Enter
  <2> QED
    BY <1>0, <2>1, <2>2, <2>3 DEF LifecycleInv
<1>14. CASE VmExitPanics(c, v)
  <2>1. BoundInv'
    BY <1>0, <1>14, NoVmcsAssumption, NoCpuAssumption
    DEF LifecycleInv, BoundInv, ParkedInv, LaunchInv, VmExitPanics, VmExit, Panic
  <2>2. ParkedInv'
    BY <1>0, <1>14, NoVmcsAssumption, NoCpuAssumption
    DEF LifecycleInv, BoundInv, ParkedInv, LaunchInv, VmExitPanics, VmExit, Panic
  <2>3. LaunchInv'
    BY <1>0, <1>14, NoVmcsAssumption, NoCpuAssumption, SMTT(30)
    DEF LifecycleInv, BoundInv, ParkedInv, LaunchInv, VmExitPanics, VmExit, Panic
  <2> QED
    BY <1>0, <2>1, <2>2, <2>3 DEF LifecycleInv
<1>15. CASE Unbind(c, v)
  <2>1. BoundInv'
    BY <1>0, <1>15, NoVmcsAssumption, NoCpuAssumption, SMTT(30)
    DEF LifecycleInv, BoundInv, ParkedInv, LaunchInv, Unbind, Vmclear, Enter
  <2>2. ParkedInv'
    BY <1>0, <1>15, NoVmcsAssumption, NoCpuAssumption, SMTT(30)
    DEF LifecycleInv, BoundInv, ParkedInv, LaunchInv, Unbind, Vmclear, Enter
  <2>3. LaunchInv'
    BY <1>0, <1>15, NoVmcsAssumption, NoCpuAssumption, SMTT(30)
    DEF LifecycleInv, BoundInv, ParkedInv, LaunchInv, Unbind, Vmclear, Enter
  <2> QED
    BY <1>0, <2>1, <2>2, <2>3 DEF LifecycleInv
<1>16. CASE Drop(c, v)
  <2>1. BoundInv'
    BY <1>0, <1>16, NoVmcsAssumption, NoCpuAssumption, SMTT(30)
    DEF LifecycleInv, BoundInv, ParkedInv, LaunchInv, Drop, Vmclear
  <2>2. ParkedInv'
    BY <1>0, <1>16, NoVmcsAssumption, NoCpuAssumption, SMTT(30)
    DEF LifecycleInv, BoundInv, ParkedInv, LaunchInv, Drop, Vmclear
  <2>3. LaunchInv'
    BY <1>0, <1>16, NoVmcsAssumption, NoCpuAssumption
    DEF LifecycleInv, BoundInv, ParkedInv, LaunchInv, Drop, Vmclear
  <2> QED
    BY <1>0, <2>1, <2>2, <2>3 DEF LifecycleInv
<1> QED
  BY <1>1, <1>2, <1>3, <1>4, <1>5, <1>6, <1>7, <1>8, <1>9, <1>10, <1>11, <1>12, <1>13,
     <1>14, <1>15, <1>16, Zenon DEF VcpuStep

\* hardware_enable and hardware_disable, in between, keep it too: the first never
\* touches a CPU in VMX operation, the second is not called on a bound one.
LEMMA CpuInvStep ==
  ASSUME TypeOK, LifecycleInv, NEW c \in Cpus, EnableCpu(c) \/ DisableCpu(c)
  PROVE  TypeOK' /\ LifecycleInv'
<1>1. PerCpuTypeOK' /\ VmxOperationBacked'
  BY PerCpuTypeStep, BackedStep DEF TypeOK, LifecycleInv, EnableCpu, DisableCpu
<1>2. CASE EnableCpu(c)
  <2>1. \A d \in Cpus : vmx_operation[d] => vmx_operation'[d]
    BY <1>2, BackedStep DEF TypeOK, LifecycleInv, EnableCpu
  <2>2. TypeOK'
    BY <1>1, <1>2 DEF TypeOK, EnableCpu, vcpuVars
  <2>3. BoundInv' /\ ParkedInv' /\ LaunchInv'
    BY <1>2, <2>1, SMTT(30) DEF EnableCpu, vcpuVars, LifecycleInv, BoundInv, ParkedInv,
       LaunchInv, Bound
  <2> QED
    BY <1>1, <2>2, <2>3 DEF LifecycleInv
<1>3. CASE DisableCpu(c)
  <2>1. \A d \in Cpus \ {c} : vmx_operation'[d] = vmx_operation[d]
    BY <1>3, BackedStep DEF TypeOK, LifecycleInv, DisableCpu
  <2>2. TypeOK'
    BY <1>1, <1>3, SMTT(30) DEF TypeOK, DisableCpu, structVars
  <2>3. BoundInv' /\ ParkedInv' /\ LaunchInv'
    BY <1>3, <2>1 DEF DisableCpu, Vacant, structVars, TypeOK, LifecycleInv, BoundInv,
                      ParkedInv, LaunchInv, Bound
  <2> QED
    BY <1>1, <2>2, <2>3 DEF LifecycleInv
<1> QED
  BY <1>2, <1>3

\* Initially no vCPU exists and VMX is off everywhere.
LEMMA InitInv == Init => TypeOK /\ LifecycleInv
<1> SUFFICES ASSUME Init PROVE TypeOK /\ LifecycleInv
  OBVIOUS
<1>1. TypeOK
  BY FirmwaresAssumption DEF Init, PerCpuInit, TypeOK, PerCpuTypeOK, Phases, Results
<1>2. LifecycleInv
  BY DEF Init, PerCpuInit, LifecycleInv, VmxOperationBacked, BoundInv, ParkedInv,
         LaunchInv, Bound
<1> QED
  BY <1>1, <1>2

\* A step of any CPU, or none, keeps types and invariant.
LEMMA NextInv == TypeOK /\ LifecycleInv /\ [Next]_vars => TypeOK' /\ LifecycleInv'
<1>1. ASSUME TypeOK, LifecycleInv, Next
      PROVE  TypeOK' /\ LifecycleInv'
  BY <1>1, VcpuTypeStep, VcpuInvStep, CpuInvStep DEF Next
<1>2. ASSUME TypeOK, LifecycleInv, UNCHANGED vars
      PROVE  TypeOK' /\ LifecycleInv'
  BY <1>2, SMTT(30) DEF vars, percpuVars, vcpuVars, TypeOK, PerCpuTypeOK, LifecycleInv,
              VmxOperationBacked, is_enabled, BoundInv, ParkedInv, LaunchInv, Bound
<1> QED
  BY <1>1, <1>2

\* For any sets of CPUs and vCPUs, every variable keeps its type and the
\* ownership of CPUs and VMCSs agrees with the launched flag.
THEOREM LifecycleCorrect == Spec => [](TypeOK /\ LifecycleInv)
BY InitInv, NextInv, PTL DEF Spec

\* Every operation on any CPU, failed setups and panics included, keeps every
\* variable of the vCPUs and of the CPUs in its type.
THEOREM VcpuTypeCorrect == Spec => []TypeOK
BY LifecycleCorrect, PTL

\* No order of binds, unbinds, failed setups and drops makes a VMCS active on
\* two CPUs.
THEOREM VmcsNeverShared == Spec => []VmcsOnOneCpu
<1>1. LifecycleInv => VmcsOnOneCpu
  <2> SUFFICES ASSUME BoundInv, ParkedInv,
                      NEW v \in Vcpus, NEW c \in active[v], NEW d \in active[v]
               PROVE  c = d
    BY Zenon DEF LifecycleInv, VmcsOnOneCpu
  <2>1. CASE Bound(v)
    <3>1. active[v] = {cpu_of[v]}
      BY <2>1, Zenon DEF BoundInv
    <3> QED
      BY <3>1
  <2>2. CASE ~Bound(v)
    BY <2>2, Zenon DEF ParkedInv
  <2> QED
    BY <2>1, <2>2
<1> QED
  BY <1>1, LifecycleCorrect, PTL

\* A guest always executes on its own VMCS, with the host state of the CPU it
\* executes on and HOST_RSP in its own VmxVcpu.
THEOREM GuestAlwaysOnItsOwnVmcs == Spec => []GuestRunsOnItsOwnVmcs
<1>1. LifecycleInv => GuestRunsOnItsOwnVmcs
  BY DEF LifecycleInv, BoundInv, LaunchInv, Bound, GuestRunsOnItsOwnVmcs
<1> QED
  BY <1>1, LifecycleCorrect, PTL

\* VMLAUNCH and VMRESUME are mixed up only by running again after FailEntry.
THEOREM EntryNeverPanicsOtherwise == Spec => []EntryPanicOnlyAfterFailEntry
<1>1. LifecycleInv => EntryPanicOnlyAfterFailEntry
  BY DEF LifecycleInv, LaunchInv, Bound, EntryPanicOnlyAfterFailEntry
<1> QED
  BY <1>1, LifecycleCorrect, PTL

\* Dropping a vCPU leaves no freed VMCS region active, as long as its setup did
\* not fail half-way.
THEOREM NoDanglingVmcs == Spec => []FreedVmcsInactive
<1>1. TypeOK /\ LifecycleInv => FreedVmcsInactive
  BY DEF TypeOK, LifecycleInv, BoundInv, ParkedInv, Bound, FreedVmcsInactive
<1> QED
  BY <1>1, LifecycleCorrect, PTL

\* hardware_disable leaves no VMCS active on a CPU that left VMX operation, as
\* long as its setup did not fail half-way.
THEOREM NothingActiveOutsideVmx == Spec => []NoVmcsActiveOutsideVmx
<1>1. TypeOK /\ LifecycleInv => NoVmcsActiveOutsideVmx
  BY SMTT(30) DEF TypeOK, LifecycleInv, BoundInv, ParkedInv, Bound, NoVmcsActiveOutsideVmx
<1> QED
  BY <1>1, LifecycleCorrect, PTL

\* Each step of VmxVcpu is a step of VcpuResidency, or changes nothing it sees.
LEMMA ResidencyStep ==
  ASSUME TypeOK, LifecycleInv, NEW c \in Cpus, NEW v \in Vcpus, VcpuStep(c, v)
  PROVE  Residency!Next \/ UNCHANGED Residency!resVars
<1> USE DEF Residency!resVars, Residency!Next
<1> DEFINE Guests == {w \in Vcpus : phase[w] = "Running"}
<1>1. CASE \/ New(c, v) \/ SetEntry(c, v) \/ SetEptRoot(c, v) \/ SetupUnwrapsNone(c, v)
           \/ SetupBindFails(c, v) \/ SetupOk(c, v) \/ BindFails(c, v)
           \/ VmEntryFails(c, v) \/ VmExitPanics(c, v)
  <2>1. CASE SetupBindFails(c, v) \/ SetupOk(c, v)
    <3>1. active' = [active EXCEPT ![v] = @ \ {c}]
      BY <2>1 DEF SetupBindFails, SetupOk, setup_vmcs_host, Vmclear
    <3>2. active[v] = {}
      BY <2>1 DEF SetupBindFails, SetupOk, setup_vmcs_host, CallSetup, LifecycleInv,
         ParkedInv, Bound
    <3>3. active' = active
      BY <3>1, <3>2 DEF TypeOK
    <3>4. Guests' = Guests
      BY <2>1, SMTT(30) DEF SetupBindFails, SetupOk, setup_vmcs_host, CallSetup, Enter, TypeOK
    <3> QED
      BY <3>3, <3>4, ZenonT(30)
  <2>2. CASE \/ New(c, v) \/ SetEntry(c, v) \/ SetEptRoot(c, v) \/ SetupUnwrapsNone(c, v)
             \/ BindFails(c, v) \/ VmEntryFails(c, v) \/ VmExitPanics(c, v)
    <3>1. active' = active
      BY <2>2, Zenon DEF New, SetEntry, SetEptRoot, SetupUnwrapsNone, BindFails, VmEntryFails,
                  VmExitPanics, CallRun, VmExit
    <3>2. Guests' = Guests
      BY <2>2, SMTT(30) DEF New, SetEntry, SetEptRoot, SetupUnwrapsNone, BindFails,
         VmEntryFails,
                  VmExitPanics, CallRun, VmExit, Enter, TypeOK
    <3> QED
      BY <3>1, <3>2, SMTT(30)
  <2> QED
    BY <1>1, <2>1, <2>2, Zenon
<1>2. CASE SetupControlFails(c, v) \/ Bind(c, v)
  <2>1. active[v] = {} /\ active' = [active EXCEPT ![v] = {c}]
    BY <1>2 DEF SetupControlFails, setup_vmcs_host, CallSetup, Bind, Vmptrld, TypeOK,
       Bound, LifecycleInv, ParkedInv
  <2>2. Guests' = Guests
    BY <1>2 DEF SetupControlFails, setup_vmcs_host, CallSetup, Bind, Enter, TypeOK
  <2>3. Residency!Arrive(c, v)
    BY <2>1, <2>2 DEF Residency!Arrive
  <2> QED
    BY <2>3
<1>3. CASE VmEntry(c, v) \/ VmEntryPanics(c, v)
  <2>1. active[v] = {c} /\ active' = active
    BY <1>3 DEF VmEntry, VmEntryPanics, CallRun, LifecycleInv, BoundInv, Bound
  <2>2. \A w \in Guests : active[w] # {c}
    <3> SUFFICES ASSUME NEW w \in Guests, active[w] = {c} PROVE FALSE
      OBVIOUS
    <3>1. current[c] = w
      BY SMTT(30) DEF LifecycleInv, BoundInv, Bound
    <3>2. current[c] = v /\ phase[v] = "Ready"
      BY <1>3 DEF VmEntry, VmEntryPanics, CallRun, LifecycleInv, BoundInv, Bound
    <3> QED
      BY <3>1, <3>2
  <2>3. Guests' = Guests \cup {v}
    BY <1>3 DEF VmEntry, VmEntryPanics, Enter, TypeOK
  <2>4. Residency!EnterGuest(c, v)
    BY <2>1, <2>2, <2>3 DEF Residency!EnterGuest
  <2> QED
    BY <2>4, SMTT(30)
<1>4. CASE VmExitHandled(c, v)
  <2>1. v \in Guests /\ Guests' = Guests \ {v} /\ active' = active
    BY <1>4 DEF VmExitHandled, VmExit, Enter, TypeOK
  <2>2. Residency!LeaveGuest(v)
    BY <2>1, SMTT(30) DEF Residency!LeaveGuest
  <2> QED
    BY <2>2
<1>5. CASE Unbind(c, v) \/ Drop(c, v)
  <2>1. v \notin Guests /\ Guests' = Guests
    BY <1>5 DEF Unbind, Drop, Enter, TypeOK
  <2>2. active' = [active EXCEPT ![v] = @ \ {c}]
    BY <1>5, SMTT(30) DEF Unbind, Drop, Vmclear
  <2>3. \A d, e \in active[v] : d = e
    BY DEF LifecycleInv, BoundInv, ParkedInv
  <2>4. CASE c \in active[v]
    <3>1. active[v] = {c} /\ active' = [active EXCEPT ![v] = {}]
      BY <2>2, <2>3, <2>4, Zenon DEF TypeOK
    <3>2. Residency!Leave(c, v)
      BY <2>1, <3>1 DEF Residency!Leave
    <3> QED
      BY <3>2
  <2>5. CASE c \notin active[v]
    <3>1. active' = active
      BY <2>2, <2>5 DEF TypeOK
    <3> QED
      BY <2>1, <3>1
  <2> QED
    BY <2>4, <2>5
<1> QED
  BY <1>1, <1>2, <1>3, <1>4, <1>5, Zenon DEF VcpuStep

\* VmxVcpu implements VcpuResidency: a vCPU is on one CPU at a time, changes CPU
\* only by leaving the old one, and never shares its CPU with another guest.
THEOREM ImplementsResidency == Spec => ResidencySpec
<1>1. Init => Residency!Init
  BY DEF Init, Residency!Init
<1>2. TypeOK /\ LifecycleInv /\ [Next]_vars => [Residency!Next]_(Residency!resVars)
  <2> SUFFICES ASSUME TypeOK, LifecycleInv, [Next]_vars
               PROVE  Residency!Next \/ UNCHANGED Residency!resVars
    OBVIOUS
  <2>1. ASSUME NEW c \in Cpus, EnableCpu(c) \/ DisableCpu(c)
        PROVE  UNCHANGED Residency!resVars
    BY <2>1 DEF EnableCpu, DisableCpu, vcpuVars, Residency!resVars
  <2>2. CASE UNCHANGED vars
    BY <2>2 DEF vars, vcpuVars, Residency!resVars
  <2> QED
    BY <2>1, <2>2, ResidencyStep DEF Next
<1> QED
  BY <1>1, <1>2, LifecycleCorrect, PTL DEF Spec, ResidencySpec, Residency!Spec
=============================================================================
