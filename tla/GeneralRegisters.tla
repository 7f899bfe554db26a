-------------------------- MODULE GeneralRegisters --------------------------
(***************************************************************************)
(* GeneralRegisters (src/regs): the guest's registers as words in memory,  *)
(* the accessors by index and by part, and the assembly that moves all of  *)
(* them between the registers and the stack.  A register is four slices:   *)
(* bits 0-7, 8-15, 16-31 and 32-63.                                        *)
(***************************************************************************)
EXTENDS Integers, Sequences

CONSTANT Zero   \* a slice that is all zeros

\* The fields in order: #[repr(C)] makes it their order in memory.
Layout == <<"rax", "rcx", "rdx", "rbx", "_unused_rsp", "rbp", "rsi", "rdi",
            "r8", "r9", "r10", "r11", "r12", "r13", "r14", "r15">>
Words == 0..15

\* The word of a field.
Offset(r) == (CHOOSE i \in 1..16 : Layout[i] = r) - 1
Regs == {Layout[i] : i \in 1..16} \ {"_unused_rsp"}

\* The processor's numbers of the registers, in opcodes and exit qualifications.
Encoding == <<"rax", "rcx", "rdx", "rbx", "rsp", "rbp", "rsi", "rdi",
              "r8", "r9", "r10", "r11", "r12", "r13", "r14", "r15">>

-----------------------------------------------------------------------------
(* get_reg_of_index and set_reg_of_index *)

\* The arms of the match; index 4 falls through to the panic.
ByIndex == <<"rax", "rcx", "rdx", "rbx", "panic", "rbp", "rsi", "rdi",
             "r8", "r9", "r10", "r11", "r12", "r13", "r14", "r15">>

reg_of_index(i) == IF i \in 0..15 THEN ByIndex[i + 1] ELSE "panic"

(* define_reg_getter_setters: the parts of a register *)

\* Slices of a part: the field itself, EAX, AX, AL and AH.
Parts == [q |-> 0..3, d |-> 0..2, w |-> 0..1, b |-> {0}, h |-> {1}]
HasPart(r, p) == p = "h" => r \in {"rax", "rcx", "rdx", "rbx"}

\* A setter; clear_other_bits is true for 32 bits only.  All slices written are alike.
set_part(old, p, slice) ==
  [l \in 0..3 |-> IF l \in Parts[p] THEN slice ELSE IF p = "d" THEN Zero ELSE old[l]]

-----------------------------------------------------------------------------
(* The macros of the world switch: "skip" is `sub rsp, 8` or `add rsp, 8`. *)

save_regs_to_stack ==
  <<"r15", "r14", "r13", "r12", "r11", "r10", "r9", "r8",
    "rdi", "rsi", "rbp", "skip", "rbx", "rdx", "rcx", "rax">>

\* Mutant: RBP is taken from the slot of RSP.
RestoreWithoutSkip ==
  <<"rax", "rcx", "rdx", "rbx", "rbp", "skip", "rsi", "rdi",
    "r8", "r9", "r10", "r11", "r12", "r13", "r14", "r15">>

restore_regs_from_stack ==
  <<"rax", "rcx", "rdx", "rbx", "skip", "rbp", "rsi", "rdi",
    "r8", "r9", "r10", "r11", "r12", "r13", "r14", "r15">>

Op(op, list) == [i \in DOMAIN list |-> [op |-> op, reg |-> list[i]]]
Ins(op) == [op |-> op, reg |-> "skip"]
Saves == Op("push", save_regs_to_stack)
Restores == Op("pop", restore_regs_from_stack)
=============================================================================
