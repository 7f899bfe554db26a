---------------------------- MODULE VmxControls ----------------------------
(***************************************************************************)
(* The VM-execution, exit and entry controls of one VMCS (src/vmx/vcpu.rs, *)
(* setup_vmcs_control): five fields programmed one after the other, each   *)
(* against what the processor allows, and later read, changed and written  *)
(* back by set_interrupt_window, update_efer and the processor itself.     *)
(* Binding to another processor keeps the fields as they are: nothing is   *)
(* negotiated again.                                                       *)
(***************************************************************************)
EXTENDS ControlFields, Integers, Sequences

CONSTANTS
  Processors,        \* the processors of the machine
  Capability(_, _),  \* TRUE capability MSR of a processor for a field
  Default(_, _),     \* old_value argument: the MSR without TRUE
  Features(_),       \* secondary controls for what CPUID reports
  Invept(_)          \* single-context INVEPT works

Fields == {"pin", "primary", "secondary", "exit", "entry"}

\* Interrupt-window exiting and the IA-32e mode guest control are optional on every
\* processor with VMX and 64-bit mode.
ASSUME ProcessorsAssumption ==
  \A p \in Processors :
    /\ \A f \in Fields : IsCapability(Capability(p, f))
    /\ "INTERRUPT_WINDOW" \in Capability(p, "primary").allowed1 \ Capability(p, "primary").allowed0
    /\ "IA32E_MODE_GUEST" \in Capability(p, "entry").allowed1 \ Capability(p, "entry").allowed0
    /\ "INTERRUPT_WINDOW" \notin Default(p, "primary")
    /\ "IA32E_MODE_GUEST" \notin Default(p, "entry")

VARIABLES
  processor,  \* the processor setup runs on
  step,       \* the next field to program, an index of Order
  ctl,        \* the control fields
  state,      \* "setup", "ok", "err" (setup returned an error)
  cpu,        \* the processor the vCPU is bound to
  uniform     \* the fields whose capabilities were the same on all of its processors

place == <<cpu, uniform>>
controlVars == <<processor, step, ctl, state, place>>

\* The fields in the order of the set_control calls.
Order == <<"pin", "primary", "secondary", "exit", "entry">>

ControlsInit ==
  /\ processor \in Processors
  /\ step = 1
  /\ ctl = [f \in Fields |-> {}]
  /\ state = "setup"
  /\ cpu = processor /\ uniform = Fields

-----------------------------------------------------------------------------
(* setup_vmcs_control(ept_root, is_guest = true) *)

\* The `set` argument for each field.
ControlSet(f) ==
  IF f = "pin" THEN {"NMI_EXITING", "EXTERNAL_INTERRUPT_EXITING"}
  ELSE IF f = "primary" THEN {"USE_IO_BITMAPS", "USE_MSR_BITMAPS", "SECONDARY_CONTROLS"}
  ELSE IF f = "secondary" THEN {"ENABLE_EPT", "UNRESTRICTED_GUEST"} \cup Features(processor)
  ELSE IF f = "exit" THEN {"HOST_ADDRESS_SPACE_SIZE", "ACK_INTERRUPT_ON_EXIT", "SAVE_IA32_PAT",
                           "LOAD_IA32_PAT", "SAVE_IA32_EFER", "LOAD_IA32_EFER"}
  ELSE {"LOAD_IA32_PAT", "LOAD_IA32_EFER"}

\* The `clear` argument for each field.
ControlClear(f) ==
  IF f = "primary" THEN {"CR3_LOAD_EXITING", "CR3_STORE_EXITING",
                         "CR8_LOAD_EXITING", "CR8_STORE_EXITING"}
  ELSE {}

SetControl ==
  /\ state = "setup" /\ step \in 1..5
  /\ LET f == Order[step] IN
       /\ ~SetControlFails(Capability(processor, f), ControlSet(f), ControlClear(f))
       /\ ctl' = [ctl EXCEPT ![f] = set_control(Capability(processor, f), Default(processor, f),
                                                ControlSet(f), ControlClear(f))]
  /\ step' = step + 1
  /\ UNCHANGED <<processor, state, place>>

SetControlErr ==
  /\ state = "setup" /\ step \in 1..5
  /\ LET f == Order[step] IN
       SetControlFails(Capability(processor, f), ControlSet(f), ControlClear(f))
  /\ state' = "err"
  /\ UNCHANGED <<processor, step, ctl, place>>

\* set_ept_pointer, whose INVEPT can fail, then counts and bitmap addresses.
SetEptPointer ==
  /\ state = "setup" /\ step = 6
  /\ state' = IF Invept(processor) THEN "ok" ELSE "err"
  /\ UNCHANGED <<processor, step, ctl, place>>

-----------------------------------------------------------------------------
(* The fields written after setup. *)

set_interrupt_window(enable) ==
  /\ state = "ok"
  /\ ctl' = [ctl EXCEPT !["primary"] =
                IF enable THEN @ \cup {"INTERRUPT_WINDOW"} ELSE @ \ {"INTERRUPT_WINDOW"}]
  /\ UNCHANGED <<processor, step, state, place>>

\* Mutant: the capability's default is written back, not the current value.
UpdateEferForgetsOld ==
  /\ state = "ok"
  /\ ctl' = [ctl EXCEPT !["entry"] =
                set_control(Capability(cpu, "entry"), Default(cpu, "entry"),
                            {"IA32E_MODE_GUEST"}, {})]
  /\ UNCHANGED <<processor, step, state, place>>

\* The control part of update_efer, by the capabilities of the processor it runs on.
UpdateEfer ==
  /\ state = "ok"
  /\ ctl' = [ctl EXCEPT !["entry"] =
                set_control(Capability(cpu, "entry"), @, {"IA32E_MODE_GUEST"}, {})]
  /\ UNCHANGED <<processor, step, state, place>>

\* A VM exit of an unrestricted guest stores its EFER.LMA in the entry controls.
VmExitStoresLma ==
  /\ state = "ok"
  /\ \E lma \in SUBSET {"IA32E_MODE_GUEST"} :
       ctl' = [ctl EXCEPT !["entry"] = (@ \ {"IA32E_MODE_GUEST"}) \cup lma]
  /\ UNCHANGED <<processor, step, state, place>>

\* bind_to_current_processor on p: the host state is rewritten, the controls are not.
Bind(p) ==
  /\ state = "ok"
  /\ cpu' = p
  /\ uniform' = {f \in uniform : Capability(p, f) = Capability(processor, f)}
  /\ UNCHANGED <<processor, step, ctl, state>>

ControlsNext ==
  \/ SetControl \/ SetControlErr \/ SetEptPointer
  \/ \E enable \in BOOLEAN : set_interrupt_window(enable)
  \/ UpdateEfer \/ VmExitStoresLma
  \/ \E p \in Processors : Bind(p)

ControlsSpec == ControlsInit /\ [][ControlsNext]_controlVars

-----------------------------------------------------------------------------
Programmed == {Order[i] : i \in 1..(step - 1)}

\* The processor a vCPU is on accepts every control field setup_vmcs_control has
\* programmed, and goes on accepting it after every later read-modify-write and on
\* every processor it is bound to, as far as they allow the same values.
ControlsAllowed ==
  \A f \in Programmed \cap uniform :
    /\ Capability(cpu, f).allowed0 \subseteq ctl[f]
    /\ ctl[f] \subseteq Capability(cpu, f).allowed1

\* A vCPU that was set up keeps, whatever is later written to the fields and wherever
\* it runs, every control the exit handlers rely on and none of the exits handle_cr
\* panics on.  Only update_efer on a processor with other entry controls may differ.
RequiredControls ==
  state = "ok" =>
    \A f \in (Fields \ {"entry"}) \cup uniform :
      ControlSet(f) \subseteq ctl[f] /\ ControlClear(f) \cap ctl[f] = {}

\* What the two writers after setup own.
Owned(f) ==
  IF f = "primary" THEN {"INTERRUPT_WINDOW"}
  ELSE IF f = "entry" THEN {"IA32E_MODE_GUEST"} ELSE {}

\* A control the hypervisor does not know keeps the default the processor of setup
\* gave it, where that processor lets it be either, wherever the vCPU runs later.
DefaultsKept ==
  \A f \in Programmed \cap ((Fields \ {"entry"}) \cup uniform) :
    LET unknown == (Capability(processor, f).allowed1 \ Capability(processor, f).allowed0)
                     \ (ControlSet(f) \cup ControlClear(f) \cup Owned(f))
    IN  ctl[f] \cap unknown = Default(processor, f) \cap unknown
=============================================================================
