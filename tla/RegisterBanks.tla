--------------------------- MODULE RegisterBanks ---------------------------
(***************************************************************************)
(* What the world switch promises: the host and each guest have registers  *)
(* of their own.  Whoever runs changes its own; the host changes a guest's *)
(* only by asking, register by register, with the effect the guest's own   *)
(* instruction would have.  From the host's call of the switch to its      *)
(* return nobody runs but the guest, and switching changes nobody's.       *)
(***************************************************************************)
EXTENDS Integers

CONSTANTS
  Host, Vcpus,  \* the owners of registers
  Nobody,       \* runs during the switch
  Names,        \* registers
  New, Zero     \* what the host writes, and zeros, in a slice of a register

VARIABLES
  bank,     \* the registers of each owner
  running   \* the owner that runs, or Nobody

bankVars == <<bank, running>>

Init == running = Host

Compute ==
  /\ UNCHANGED running
  /\ \A o \in (Vcpus \cup {Host}) \ {running} : bank'[o] = bank[o]

\* The x86-64 rules: a write of 32 bits clears the upper half, a shorter one does not.
Emulate(v, r, slices) ==
  /\ running = Host
  /\ bank' = [bank EXCEPT ![v][r] =
                [l \in 0..3 |-> IF l \in slices THEN New
                                ELSE IF slices = 0..2 THEN Zero ELSE @[l]]]
  /\ UNCHANGED running

\* The host calls the switch, with its argument in a register.
Call ==
  /\ running = Host /\ running' = Nobody
  /\ \A v \in Vcpus : bank'[v] = bank[v]

\* Into a guest, out of it, and back to the host.
Switch ==
  /\ \/ running = Nobody /\ running' \in Vcpus \cup {Host}
     \/ running \in Vcpus /\ running' = Nobody
  /\ UNCHANGED bank

Next ==
  \/ Compute \/ Call \/ Switch
  \/ \E v \in Vcpus, r \in Names, slices \in {{0}, {1}, 0..1, 0..2, 0..3} :
       Emulate(v, r, slices)

Spec == Init /\ [][Next]_bankVars
=============================================================================
