-------------------------- MODULE VmxXStateProofs --------------------------
(***************************************************************************)
(* Proofs about VmxXState, for any CPUs, vCPUs and register values.        *)
(***************************************************************************)
EXTENDS VmxXState, TLAPS

\* While v runs on c its XState keeps the host's values of c; while it does not run
\* its XState keeps the guest's values.  A vCPU runs on one CPU.
XInv ==
  /\ XTypeOK
  /\ cpu_xcr0 \in [Cpus -> Xcr0Values] /\ cpu_xss \in [Cpus -> XssValues]
  /\ DOMAIN vm_xcr0 = Vcpus /\ DOMAIN vm_xss = Vcpus
  /\ HostStateRestored
  /\ GuestStateLoaded
  /\ \A c \in Cpus : running[c] # "none" =>
       /\ running[c] \in exists
       /\ host_xcr0[running[c]] = cpu_xcr0[c]
       /\ IF Xsaves THEN host_xss[running[c]] = cpu_xss[c] ELSE xss[c] = cpu_xss[c]
  /\ \A v \in exists : Idle(v) =>
       guest_xcr0[v] = vm_xcr0[v] /\ (Xsaves => guest_xss[v] = vm_xss[v])
  /\ \A c, d \in Cpus : running[c] = running[d] /\ running[c] # "none" => c = d

\* handle_xsetbv rejects every value: OPMASK is in it or it is not.
LEMMA XsetbvRejectsAll ==
  ASSUME NEW x
  PROVE  XsetbvRejects(x)
BY DEF XsetbvRejects

LEMMA XInit == Init => XInv
<1> SUFFICES ASSUME Init PROVE XInv
  OBVIOUS
<1>1. (CHOOSE x \in Xcr0Values : TRUE) \in Xcr0Values
  BY XcrAssumption, SMTT(30)
<1> QED
  BY <1>1, XcrAssumption
     DEF Init, XInv, XTypeOK, HostStateRestored, GuestStateLoaded, Idle

\* One step per action: the registers of the CPU that switches, and the fields of the
\* vCPU that switches, are the only ones that move.
LEMMA XStep == XInv /\ [Next]_xVars => XInv'
<1> SUFFICES ASSUME XInv, [Next]_xVars PROVE XInv'
  OBVIOUS
<1> USE DEF XInv, XTypeOK, HostStateRestored, GuestStateLoaded, Idle, HostRuns,
            hardware, saved, owners
<1> USE VcpusAssumption
<1>1. ASSUME NEW c \in Cpus, HostWrites(c) PROVE XInv'
  BY <1>1 DEF HostWrites
<1>2. ASSUME NEW c \in Cpus, GuestWritesXss(c) PROVE XInv'
  BY <1>2 DEF GuestWritesXss
<1>3. ASSUME NEW c \in Cpus, Exit(c) PROVE XInv'
  BY <1>3 DEF Exit, switch_to_host
<1>4. ASSUME NEW c \in Cpus, NEW v \in Vcpus, New(v, c) PROVE XInv'
  BY <1>4, XcrAssumption DEF New
<1>5. ASSUME NEW c \in Cpus, NEW v \in Vcpus, Enter(v, c) PROVE XInv'
  BY <1>5, SMTT(30) DEF Enter, switch_to_guest
<1>6. ASSUME NEW v \in Vcpus, HandleXsetbv(v) PROVE XInv'
  <2>1. panicked' \in XsetbvArgs /\ UNCHANGED <<guest_xcr0, vm_xcr0>>
    BY <1>6, XsetbvRejectsAll DEF HandleXsetbv
  <2> QED
    BY <1>6, <2>1 DEF HandleXsetbv
<1>7. CASE UNCHANGED xVars
  BY <1>7 DEF xVars
<1> QED
  BY <1>1, <1>2, <1>3, <1>4, <1>5, <1>6, <1>7, Zenon DEF Next

\* XInv holds in every reachable state.
THEOREM XStateCorrect == Spec => []XInv
BY XInit, XStep, PTL DEF Spec

\* The host finds XCR0 and IA32_XSS as it left them after any run of any vCPU.
THEOREM HostStateAlwaysRestored == Spec => []HostStateRestored
<1>1. XInv => HostStateRestored
  BY DEF XInv
<1> QED
  BY <1>1, XStateCorrect, PTL

\* A guest runs on its own XCR0 and IA32_XSS, wherever it was moved.
THEOREM GuestStateAlwaysLoaded == Spec => []GuestStateLoaded
<1>1. XInv => GuestStateLoaded
  BY DEF XInv
<1> QED
  BY <1>1, XStateCorrect, PTL
=============================================================================
