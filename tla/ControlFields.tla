--------------------------- MODULE ControlFields ---------------------------
(***************************************************************************)
(* vmcs::set_control (src/vmx/vmcs.rs).  A 32-bit control field is the set *)
(* of its 1-bits; a capability MSR is the pair of the bits that must be 1  *)
(* (allowed0, its low half) and of those that may be 1 (allowed1).         *)
(***************************************************************************)

\* The processor reports no bit that must be 1 and may not be 1: the assert_eq of
\* set_control.
IsCapability(cap) == cap.allowed0 \subseteq cap.allowed1

\* The three early returns.
SetControlFails(cap, set, clear) ==
  \/ set \cap clear # {}
  \/ ~(set \subseteq cap.allowed1)
  \/ cap.allowed0 \cap clear # {}

\* Mutant: bits fixed to 1 are left to the old value.
SetControlDropsFixed(cap, old, set, clear) ==
  ((cap.allowed1 \ (cap.allowed0 \cup set \cup clear)) \cap old) \cup set

\* Mutant: every bit the caller does not mention is cleared.
SetControlDropsDefault(cap, old, set, clear) == cap.allowed0 \cup set

\* The value written: SDM 31.5.1, algorithm 3.
set_control(cap, old, set, clear) ==
  LET flexible == cap.allowed1 \ cap.allowed0
      unknown  == flexible \ (set \cup clear)
      default  == unknown \cap old
  IN  cap.allowed0 \cup default \cup set
=============================================================================
