--------------------------- MODULE VcpuResidency ---------------------------
(***************************************************************************)
(* What the vCPU life cycle promises its caller, with no VMCS in sight: a  *)
(* vCPU is resident on at most one CPU, it changes CPU only by leaving the *)
(* old one first, it executes only where it is resident, and a CPU         *)
(* executes at most one vCPU.  VmxVcpu implements this.                    *)
(***************************************************************************)
CONSTANTS Cpus, Vcpus

VARIABLES
  resident,   \* [Vcpus -> SUBSET Cpus]: where the processor holds its state
  in_guest    \* vCPUs whose guest code executes

resVars == <<resident, in_guest>>

Init ==
  /\ resident = [v \in Vcpus |-> {}]
  /\ in_guest = {}

Arrive(c, v) ==
  /\ resident[v] = {}
  /\ resident' = [resident EXCEPT ![v] = {c}]
  /\ UNCHANGED in_guest

Leave(c, v) ==
  /\ resident[v] = {c}
  /\ v \notin in_guest
  /\ resident' = [resident EXCEPT ![v] = {}]
  /\ UNCHANGED in_guest

EnterGuest(c, v) ==
  /\ resident[v] = {c}
  /\ \A w \in in_guest : resident[w] # {c}
  /\ in_guest' = in_guest \cup {v}
  /\ UNCHANGED resident

LeaveGuest(v) ==
  /\ v \in in_guest
  /\ in_guest' = in_guest \ {v}
  /\ UNCHANGED resident

Next ==
  \E v \in Vcpus :
    \/ \E c \in Cpus : Arrive(c, v) \/ Leave(c, v) \/ EnterGuest(c, v)
    \/ LeaveGuest(v)

Spec == Init /\ [][Next]_resVars
=============================================================================
