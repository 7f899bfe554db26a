-------------------------- MODULE VmcsFieldsProofs --------------------------
(***************************************************************************)
(* Proofs about the fields of a VMCS: the controls (VmxControls), for      *)
(* every set of processors whose capability MSRs satisfy                   *)
(* ProcessorsAssumption, and the control registers of the guest            *)
(* (VmxGuestCr), for every set of register bits and every processor whose  *)
(* fixed bits satisfy CrAssumption.                                        *)
(***************************************************************************)
EXTENDS VmxControls, VmxGuestCr, TLAPS

-----------------------------------------------------------------------------
(* The controls *)


\* What set_control promises when it does not return an error: the field obeys the
\* processor, has what was asked for and keeps the rest of its old value.
THEOREM SetControlSound ==
  ASSUME NEW cap, NEW old, NEW set, NEW clear,
         IsCapability(cap), ~SetControlFails(cap, set, clear)
  PROVE  LET new == set_control(cap, old, set, clear)
             unknown == (cap.allowed1 \ cap.allowed0) \ (set \cup clear)
         IN  /\ cap.allowed0 \subseteq new /\ new \subseteq cap.allowed1
             /\ set \subseteq new /\ clear \cap new = {}
             /\ new \cap unknown = old \cap unknown
BY DEF IsCapability, SetControlFails, set_control

\* What holds of a field that has been programmed.
FieldOK(f) ==
  LET cap == Capability(processor, f)
      unknown == (cap.allowed1 \ cap.allowed0)
                   \ (ControlSet(f) \cup ControlClear(f) \cup Owned(f))
  IN  /\ cap.allowed0 \subseteq ctl[f] /\ ctl[f] \subseteq cap.allowed1
      /\ ControlSet(f) \subseteq ctl[f] /\ ControlClear(f) \cap ctl[f] = {}
      /\ ctl[f] \cap unknown = Default(processor, f) \cap unknown

\* The fields set_control does not write again on a processor with other capabilities.
Steady == (Fields \ {"entry"}) \cup uniform

\* setup programs the fields in order, and only then can anything else write them,
\* or the vCPU change processor.
ControlInv ==
  /\ processor \in Processors
  /\ step \in 1..6
  /\ DOMAIN ctl = Fields /\ ctl = [f \in Fields |-> ctl[f]]
  /\ state \in {"setup", "ok", "err"}
  /\ state = "ok" => step = 6
  /\ state # "ok" => cpu = processor /\ uniform = Fields
  /\ cpu \in Processors /\ uniform \subseteq Fields
  /\ \A f \in uniform : Capability(cpu, f) = Capability(processor, f)
  /\ \A f \in Programmed \cap Steady : FieldOK(f)

LEMMA OrderFields ==
  /\ \A i \in 1..5 : Order[i] \in Fields
  /\ \A f \in Fields : \E i \in 1..5 : Order[i] = f
  /\ \A i, j \in 1..5 : Order[i] = Order[j] => i = j
BY DEF Order, Fields

\* Once setup is over, every field has been programmed.
LEMMA AllProgrammed ==
  ASSUME ControlInv, step = 6
  PROVE  Programmed = Fields
BY OrderFields DEF Programmed

LEMMA ControlInit == ControlsInit => ControlInv
<1> SUFFICES ASSUME ControlsInit PROVE ControlInv
  OBVIOUS
<1>1. Programmed = {}
  BY DEF ControlsInit, Programmed
<1> QED
  BY <1>1 DEF ControlsInit, ControlInv

\* The read-modify-writes after setup change only the bit they own.
LEMMA OwnedWrite ==
  ASSUME ControlInv, NEW f \in Fields, FieldOK(f),
         UNCHANGED processor, NEW b \in Owned(f),
         ctl'[f] = ctl[f] \cup {b} \/ ctl'[f] = ctl[f] \ {b}
  PROVE  FieldOK(f)'
<1>1. \/ f = "primary" /\ b = "INTERRUPT_WINDOW"
      \/ f = "entry" /\ b = "IA32E_MODE_GUEST"
  BY DEF Owned
<1>2. b \in Capability(processor, f).allowed1 \ Capability(processor, f).allowed0
  BY <1>1, ProcessorsAssumption DEF ControlInv
<1>3. b \notin ControlSet(f) \cup ControlClear(f)
  BY <1>1 DEF ControlSet, ControlClear
<1>4. ControlSet(f)' = ControlSet(f) /\ ControlClear(f)' = ControlClear(f)
  BY DEF ControlSet, ControlClear
<1> QED
  BY <1>2, <1>3, <1>4 DEF FieldOK, Owned

LEMMA ControlStep == ControlInv /\ [ControlsNext]_controlVars => ControlInv'
<1> SUFFICES ASSUME ControlInv, [ControlsNext]_controlVars PROVE ControlInv'
  OBVIOUS
<1>same. ASSUME processor' = processor, NEW f, ctl'[f] = ctl[f], FieldOK(f)
         PROVE  FieldOK(f)'
  BY <1>same DEF FieldOK, ControlSet, ControlClear, Owned
<1>place. ASSUME UNCHANGED <<processor, place>>, state' = state \/ state = "setup"
          PROVE  /\ processor' \in Processors /\ cpu' \in Processors /\ uniform' \subseteq Fields
                 /\ \A f \in uniform' : Capability(cpu, f)' = Capability(processor, f)'
                 /\ state' # "ok" => cpu' = processor' /\ uniform' = Fields
                 /\ Steady' = Steady
  BY <1>place DEF ControlInv, place, Steady
<1>1. CASE SetControl
  <2>0. PICK f \in Fields : f = Order[step]
    BY <1>1, OrderFields DEF SetControl
  <2> DEFINE cap == Capability(processor, f)
             new == set_control(cap, Default(processor, f), ControlSet(f), ControlClear(f))
             unknown == (cap.allowed1 \ cap.allowed0) \ (ControlSet(f) \cup ControlClear(f))
  <2>1. /\ step \in 1..5 /\ UNCHANGED <<processor, state, place>> /\ state = "setup"
        /\ step' = step + 1 /\ ctl' = [ctl EXCEPT ![f] = new]
        /\ ~SetControlFails(cap, ControlSet(f), ControlClear(f))
    BY <1>1, <2>0 DEF SetControl
  <2>2. IsCapability(cap)
    BY <2>1, ProcessorsAssumption DEF ControlInv
  <2>3. /\ cap.allowed0 \subseteq new /\ new \subseteq cap.allowed1
        /\ ControlSet(f) \subseteq new /\ ControlClear(f) \cap new = {}
        /\ new \cap unknown = Default(processor, f) \cap unknown
    BY <2>1, <2>2, SetControlSound
  <2>4. ctl'[f] = new /\ ctl' = [g \in Fields |-> ctl'[g]] /\ DOMAIN ctl' = Fields
    BY <2>1 DEF ControlInv
  <2>5. ControlSet(f)' = ControlSet(f) /\ ControlClear(f)' = ControlClear(f)
    BY <2>1 DEF ControlSet, ControlClear
  <2>6. FieldOK(f)'
    BY <2>1, <2>3, <2>4, <2>5 DEF FieldOK, Owned
  <2>7. Programmed' = Programmed \cup {f}
    BY <2>0, <2>1 DEF Programmed
  <2>8. ASSUME NEW g \in Programmed \cap Steady PROVE FieldOK(g)'
    <3>1. g # f /\ g \in Fields
      BY <2>0, <2>1, OrderFields DEF Programmed
    <3> QED
      BY <2>1, <3>1, <1>same, SMTT(30) DEF ControlInv
  <2> QED
    BY <2>1, <2>4, <2>6, <2>7, <2>8, <1>place DEF ControlInv
<1>2. CASE SetControlErr \/ SetEptPointer
  <2>1. /\ UNCHANGED <<processor, step, ctl, place>> /\ Programmed' = Programmed
        /\ state = "setup"
    BY <1>2 DEF SetControlErr, SetEptPointer, Programmed
  <2>2. state' \in {"ok", "err"} /\ (state' = "ok" => step = 6)
    BY <1>2 DEF SetControlErr, SetEptPointer
  <2> QED
    BY <2>1, <2>2, <1>same, <1>place DEF ControlInv
<1>3. ASSUME NEW f \in Fields, NEW v, state = "ok", UNCHANGED <<processor, step, state, place>>,
             ctl' = [ctl EXCEPT ![f] = v],
             f \in Steady => \E b \in Owned(f) : v = ctl[f] \cup {b} \/ v = ctl[f] \ {b}
      PROVE  ControlInv'
  <2>1. Programmed = Fields /\ Programmed' = Programmed /\ Steady' = Steady
    BY <1>3, <1>place, AllProgrammed DEF ControlInv, Programmed
  <2>2. /\ DOMAIN ctl' = Fields /\ ctl' = [g \in Fields |-> ctl'[g]] /\ ctl'[f] = v
        /\ \A g \in Fields : g # f => ctl'[g] = ctl[g]
    BY <1>3 DEF ControlInv
  <2>3. ASSUME f \in Steady PROVE FieldOK(f)'
    BY <1>3, <2>1, <2>2, <2>3, OwnedWrite DEF ControlInv
  <2>4. ASSUME NEW g \in Fields \cap Steady PROVE FieldOK(g)'
    BY <1>3, <2>1, <2>2, <2>3, <1>same DEF ControlInv
  <2> QED
    BY <1>3, <2>1, <2>2, <2>4, <1>place DEF ControlInv
<1>4. ASSUME NEW enable \in BOOLEAN, set_interrupt_window(enable) PROVE ControlInv'
  <2>1. "primary" \in Fields /\ "INTERRUPT_WINDOW" \in Owned("primary")
    BY DEF Fields, Owned
  <2> QED
    BY <1>3, <1>4, <2>1, Zenon DEF set_interrupt_window
<1>5. "entry" \in Fields /\ "IA32E_MODE_GUEST" \in Owned("entry")
  BY DEF Fields, Owned
<1>6. CASE UpdateEfer
  <2> DEFINE v == set_control(Capability(cpu, "entry"), ctl["entry"], {"IA32E_MODE_GUEST"}, {})
  <2>1. ASSUME "entry" \in Steady PROVE v = ctl["entry"] \cup {"IA32E_MODE_GUEST"}
    <3>1. FieldOK("entry") /\ Capability(cpu, "entry") = Capability(processor, "entry")
      BY <1>5, <1>6, <2>1, AllProgrammed DEF ControlInv, UpdateEfer, Steady
    <3> QED
      BY <3>1 DEF FieldOK, set_control
  <2> QED
    BY <1>3, <1>5, <1>6, <2>1, Zenon DEF UpdateEfer
<1>7. CASE VmExitStoresLma
  <2>1. PICK lma \in SUBSET {"IA32E_MODE_GUEST"} :
          ctl' = [ctl EXCEPT !["entry"] = (@ \ {"IA32E_MODE_GUEST"}) \cup lma]
    BY <1>7, Zenon DEF VmExitStoresLma
  <2> DEFINE v == (ctl["entry"] \ {"IA32E_MODE_GUEST"}) \cup lma
  <2>2. v = ctl["entry"] \cup {"IA32E_MODE_GUEST"} \/ v = ctl["entry"] \ {"IA32E_MODE_GUEST"}
    BY Zenon
  <2>3. ctl' = [ctl EXCEPT !["entry"] = v]
    BY <2>1
  <2> QED
    BY <1>3, <1>5, <1>7, <2>2, <2>3, Zenon DEF VmExitStoresLma
<1>8. ASSUME NEW p \in Processors, Bind(p) PROVE ControlInv'
  <2>1. /\ UNCHANGED <<processor, step, ctl, state>> /\ state = "ok" /\ cpu' = p
        /\ uniform' = {f \in uniform : Capability(p, f) = Capability(processor, f)}
        /\ Programmed' = Programmed /\ Steady' \subseteq Steady
    BY <1>8 DEF Bind, Programmed, Steady
  <2>2. ASSUME NEW f \in Programmed' \cap Steady' PROVE FieldOK(f)'
    BY <2>1, <1>same DEF ControlInv
  <2> QED
    BY <2>1, <2>2 DEF ControlInv
<1>9. CASE UNCHANGED controlVars
  <2>1. UNCHANGED <<processor, step, ctl, state, place>> /\ Programmed' = Programmed
    BY <1>9 DEF controlVars, Programmed
  <2> QED
    BY <2>1, <1>same, <1>place DEF ControlInv
<1> QED
  BY <1>1, <1>2, <1>4, <1>6, <1>7, <1>8, <1>9 DEF ControlsNext

\* ControlInv holds in every reachable state.
THEOREM ControlsCorrect == ControlsSpec => []ControlInv
BY ControlInit, ControlStep, PTL DEF ControlsSpec

\* The processor a vCPU is on accepts every control field setup_vmcs_control programmed,
\* for ever, if the processors it is bound to allow the same values.
THEOREM ControlsAlwaysAllowed == ControlsSpec => []ControlsAllowed
<1>1. ControlInv => ControlsAllowed
  BY DEF ControlInv, ControlsAllowed, FieldOK, Steady
<1> QED
  BY <1>1, ControlsCorrect, PTL

\* A vCPU that was set up has the controls its exit handlers rely on, for ever and on
\* any processor.
THEOREM RequiredControlsAlwaysOn == ControlsSpec => []RequiredControls
<1>1. ControlInv => RequiredControls
  BY AllProgrammed, Zenon DEF ControlInv, RequiredControls, FieldOK, Steady
<1> QED
  BY <1>1, ControlsCorrect, PTL

\* Controls the hypervisor does not know keep their defaults, for ever.
THEOREM DefaultsAlwaysKept == ControlsSpec => []DefaultsKept
<1>1. ControlInv => DefaultsKept
  BY DEF ControlInv, DefaultsKept, FieldOK, Steady
<1> QED
  BY <1>1, ControlsCorrect, PTL

-----------------------------------------------------------------------------
(* The control registers *)


\* While the guest runs, IA-32e mode is active exactly under paging with LME.  After an
\* exit LMA may be on without paging or LME, never off with both, and the entry controls
\* agree with it; a failed entry has a reason.
LongModeInv ==
  /\ mode \in {"host", "failed"} =>
       /\ "IA32E_MODE_GUEST" \in entry_ctl <=> "LMA" \in efer
       /\ "PG" \in cr0 /\ "LME" \in efer => "LMA" \in efer
  /\ mode = "failed" => ~GuestStateValid
  /\ mode = "guest" => ("LMA" \in efer <=> "PG" \in cr0 /\ "LME" \in efer)

\* What the processor asks of the mode bits of a guest that runs, and what a legal write
\* leaves of it after an exit, unless handle_cr activates IA-32e mode without LME.
ModeSound ==
  /\ "PG" \in cr0 => "PE" \in cr0
  /\ "LMA" \in efer => "PAE" \in cr4
  /\ "PCIDE" \in cr4 => "LMA" \in efer
  /\ "CET" \in cr4 => "WP" \in cr0

LegalInv ==
  /\ mode = "guest" => ModeSound
  /\ mode \in {"host", "failed"} /\ legal => ModeSound \/ ("PG" \in cr0 /\ "LME" \notin efer)

\* The masks never change after setup, and the shadow of CR4 always has VMXE: what
\* the guest can write without an exit is known.
CrInv ==
  /\ CrTypeOK
  /\ cr0_mask = MaskCr0 /\ cr4_mask = MaskCr4
  /\ "VMXE" \in cr4_shadow
  /\ GuestReadsWhatItWrote
  /\ FixedBitsHeld
  /\ CrAccessNeverPanics
  /\ LongModeInv
  /\ LegalInv

\* The bits the guest owns are bits the processor lets it choose; the low bits of
\* CR0 are among them, CD, NW and CR4.VMXE are not.
LEMMA Masks ==
  /\ MaskCr0 \subseteq Cr0Bits /\ MaskCr4 \subseteq Cr4Bits
  /\ {"PE", "TS", "WP", "PG"} \cap MaskCr0 = {}
  /\ "CD" \in MaskCr0 /\ "NW" \in MaskCr0
  /\ Cr0Bits \ MaskCr0 \subseteq CR0_FIXED1 /\ Cr4Bits \ MaskCr4 \subseteq CR4_FIXED1
  /\ CR0_FIXED0 \ {"PE", "PG"} \subseteq MaskCr0
  /\ CR4_FIXED0 \subseteq MaskCr4 /\ "VMXE" \in MaskCr4
  /\ {"PAE", "PSE", "SMEP", "SMAP", "LA57"} \cap CR4_FIXED1 \cap MaskCr4 = {}
BY CrAssumption, Zenon DEF MaskCr0, MaskCr4, Cr0Must0, Cr0Must1

\* What set_cr(0, val) leaves: a value the processor accepts, through which the guest
\* sees val.
LEMMA SetCr0 ==
  ASSUME NEW val \in SUBSET Cr0Bits
  PROVE  /\ GuestCr0(val) \subseteq CR0_FIXED1 \ {"CD", "NW"}
         /\ CR0_FIXED0 \ {"PE", "PG"} \subseteq GuestCr0(val)
         /\ View(GuestCr0(val), ShadowCr0(val), MaskCr0) = val
BY CrAssumption, Zenon DEF GuestCr0, ShadowCr0, MaskCr0, Cr0Must0, Cr0Must1, View

\* The same for set_cr(4, val), with VMXE forced on.
LEMMA SetCr4 ==
  ASSUME NEW val \in SUBSET Cr4Bits
  PROVE  /\ GuestCr4(val) \subseteq CR4_FIXED1 /\ CR4_FIXED0 \subseteq GuestCr4(val)
         /\ View(GuestCr4(val), ShadowCr4(val), MaskCr4) = val \cup {"VMXE"}
         /\ "VMXE" \in ShadowCr4(val) /\ ShadowCr4(val) \in SUBSET Cr4Bits
BY CrAssumption DEF GuestCr4, ShadowCr4, MaskCr4, View

\* A write that does not exit shows through exactly as written.
LEMMA DirectWrite ==
  ASSUME NEW real, NEW shadow, NEW mask, NEW val,
         ~Exits(val, shadow, mask)
  PROVE  View((real \cap mask) \cup (val \ mask), shadow, mask) = val
BY DEF Exits, View

\* update_efer's set_control never fails, and never leaves what the processor allows.
LEMMA EntryCtlSound ==
  ASSUME NEW old \in SUBSET ENTRY_CTLS.allowed1
  PROVE  /\ ~SetControlFails(ENTRY_CTLS, {"IA32E_MODE_GUEST"}, {})
         /\ set_control(ENTRY_CTLS, old, {"IA32E_MODE_GUEST"}, {}) \in SUBSET ENTRY_CTLS.allowed1
         /\ "IA32E_MODE_GUEST" \in set_control(ENTRY_CTLS, old, {"IA32E_MODE_GUEST"}, {})
BY EntryCtlsAssumption DEF SetControlFails, set_control, IsCapability

LEMMA StoredEntryCtlAllowed ==
  ASSUME CrTypeOK
  PROVE  StoredEntryCtl \in SUBSET ENTRY_CTLS.allowed1
BY EntryCtlsAssumption DEF StoredEntryCtl, CrTypeOK

LEMMA CrInit == Init => CrInv
<1> SUFFICES ASSUME Init PROVE CrInv
  OBVIOUS
<1>1. /\ {"NW", "CD"} \in SUBSET Cr0Bits /\ {} \in SUBSET Cr4Bits
      /\ CR0_FIXED1 \subseteq Cr0Bits /\ CR4_FIXED1 \subseteq Cr4Bits
  BY CrAssumption
<1>2. entry_ctl \subseteq ENTRY_CTLS.allowed1
  BY EntryCtlsAssumption DEF Init, set_control, IsCapability
<1>3. CrTypeOK
  BY <1>1, <1>2, SetCr0, SetCr4, Masks, Zenon DEF Init, CrTypeOK, ShadowCr0
<1>4. GuestReadsWhatItWrote
  <2>1. View(cr0, cr0_shadow, cr0_mask) = written0
    BY <1>1, SetCr0 DEF Init
  <2>2. View(cr4, cr4_shadow, cr4_mask) = written4 \cup {"VMXE"}
    BY <1>1, SetCr4 DEF Init
  <2> QED
    BY <2>1, <2>2 DEF GuestReadsWhatItWrote, cr4_value, View
<1>5. FixedBitsHeld
  BY <1>1, SetCr0, SetCr4 DEF Init, FixedBitsHeld
<1>6. LongModeInv
  <2>1. "IA32E_MODE_GUEST" \notin entry_ctl
    BY EntryCtlsAssumption DEF Init, set_control, IsCapability
  <2> QED
    BY <2>1 DEF Init, LongModeInv
<1>7. LegalInv
  BY CrAssumption DEF Init, LegalInv, ModeSound, GuestCr0, Cr0Must0, Cr0Must1, GuestCr4
<1> QED
  BY <1>1, <1>3, <1>4, <1>5, <1>6, <1>7, SetCr4 DEF Init, CrInv, CrAccessNeverPanics

\* The guest's own writes keep LMA and paging in step, and update_efer never leaves LMA
\* off under paging.
LEMMA LongModeStep ==
  ASSUME CrInv, [Next]_crVars
  PROVE  LongModeInv'
<1> USE DEF LongModeInv
<1>0. LongModeInv /\ cr0_mask = MaskCr0 /\ "PG" \notin MaskCr0
  BY Masks DEF CrInv
<1>1. ASSUME NEW val \in SUBSET Cr0Bits, MovCr0(val) PROVE LongModeInv'
  <2>1. "PG" \in cr0' <=> "PG" \in val
    BY <1>0, <1>1 DEF MovCr0
  <2> QED
    BY <1>0, <1>1, <2>1 DEF MovCr0, LegalCr0, EferAfter
<1>2. ASSUME NEW val \in SUBSET Cr0Bits, HandleCr0(val) PROVE LongModeInv'
  <2>2. "IA32E_MODE_GUEST" \in StoredEntryCtl <=> "LMA" \in efer
    BY DEF StoredEntryCtl
  <2>3. "PG" \in cr0' <=> "PG" \in val
    BY <1>2, CrAssumption DEF HandleCr0, set_cr0, GuestCr0, Cr0Must0, Cr0Must1
  <2>4. CASE "PG" \in val
    <3>1. "IA32E_MODE_GUEST" \in entry_ctl' /\ "LMA" \in efer'
      <4>1. StoredEntryCtl \in SUBSET ENTRY_CTLS.allowed1
        BY StoredEntryCtlAllowed DEF CrInv
      <4> QED
        BY <1>2, <2>2, <2>4, <4>1, EntryCtlSound DEF HandleCr0, update_efer, NeedsLma
    <3> QED
      BY <1>2, <2>4, <3>1 DEF HandleCr0
  <2>5. CASE "PG" \notin val
    BY <1>2, <2>2, <2>3, <2>5 DEF HandleCr0
  <2> QED
    BY <2>4, <2>5
<1>3. ASSUME NEW val \in SUBSET Cr4Bits, MovCr4(val) \/ HandleCr4(val) PROVE LongModeInv'
  BY <1>0, <1>3 DEF MovCr4, HandleCr4, cr0Vars, StoredEntryCtl
<1>4. ASSUME NEW val \in SUBSET {"LME", "NXE"}, WriteEfer(val) PROVE LongModeInv'
  BY <1>0, <1>4 DEF WriteEfer, cr0Vars
<1>5. CASE FarJump \/ OtherExit
  BY <1>0, <1>5 DEF FarJump, OtherExit, cr0Vars, StoredEntryCtl
<1>6. CASE Lmsw \/ Clts
  <2>1. "PG" \in cr0' <=> "PG" \in cr0
    BY <1>0, <1>6 DEF Lmsw, Clts, View
  <2> QED
    BY <1>0, <1>6, <2>1 DEF Lmsw, Clts
<1>7. CASE VmEntry
  <2>1. GuestStateValid' <=> GuestStateValid
    BY <1>7 DEF VmEntry, GuestStateValid, Lma, cr0Vars, cr4Vars
  <2>2. GuestStateValid => ("LMA" \in efer <=> "PG" \in cr0 /\ "LME" \in efer)
    BY DEF GuestStateValid, Lma
  <2> QED
    BY <1>0, <1>7, <2>1, <2>2 DEF VmEntry, cr0Vars
<1>8. CASE UNCHANGED crVars
  <2>1. GuestStateValid' <=> GuestStateValid
    BY <1>8, SMTT(30) DEF crVars, GuestStateValid, Lma, cr0Vars, cr4Vars
  <2> QED
    BY <1>0, <1>8, <2>1 DEF crVars, cr0Vars
<1> QED
  BY <1>1, <1>2, <1>3, <1>4, <1>5, <1>6, <1>7, <1>8, ValuesAssumption DEF Next

\* set_cr changes none of the mode bits of a legal write.
LEMMA ModeBitsKept ==
  /\ \A val : \A b \in {"PE", "PG", "WP"} : b \in GuestCr0(val) <=> b \in val
  /\ \A val : /\ "PAE" \in val => "PAE" \in GuestCr4(val)
              /\ \A b \in {"PCIDE", "CET"} : b \in GuestCr4(val) => b \in val
BY CrAssumption DEF GuestCr0, Cr0Must0, Cr0Must1, GuestCr4

\* A write the processor accepts keeps the mode bits sound, whether it exits or not.
LEMMA LegalStep ==
  ASSUME CrInv, [Next]_crVars
  PROVE  LegalInv'
<1>0. /\ LegalInv /\ LongModeInv /\ cr0_mask = MaskCr0 /\ cr4_mask = MaskCr4
      /\ {"PE", "WP", "PG"} \cap MaskCr0 = {} /\ "PAE" \notin MaskCr4
      /\ cr4 \subseteq CR4_FIXED1
  BY Masks, CrAssumption DEF CrInv, FixedBitsHeld
<1>1. ASSUME NEW val, MovCr0(val) PROVE LegalInv'
  <2>1. /\ mode = "guest" /\ mode' = "guest" /\ UNCHANGED cr4 /\ ModeSound
        /\ "LMA" \in efer <=> "PG" \in cr0 /\ "LME" \in efer
    BY <1>0, <1>1 DEF MovCr0, cr4Vars, LegalInv, LongModeInv
  <2>2. \A b \in {"PE", "WP", "PG"} : b \in cr0' <=> b \in val
    BY <1>0, <1>1 DEF MovCr0
  <2>3. "LMA" \in efer' <=> "PG" \in val /\ "LME" \in efer
    BY <1>1 DEF MovCr0, EferAfter
  <2>4. ModeSound'
    BY <1>1, <2>1, <2>2, <2>3 DEF MovCr0, LegalCr0, ModeSound
  <2> QED
    BY <2>1, <2>4 DEF LegalInv
<1>2. ASSUME NEW val, HandleCr0(val) PROVE LegalInv'
  <2>1. /\ mode = "guest" /\ mode' # "guest" /\ UNCHANGED cr4 /\ ModeSound
        /\ legal' => LegalCr0(val)
    BY <1>0, <1>2 DEF HandleCr0, cr4Vars, LegalInv
  <2>2. \A b \in {"PE", "WP", "PG"} : b \in cr0' <=> b \in val
    BY <1>2, ModeBitsKept DEF HandleCr0, set_cr0
  <2>3. CASE "PG" \in val
    <3>1. "LMA" \in efer' /\ ("LME" \in efer' <=> "LME" \in efer)
      BY <1>2, <2>3 DEF HandleCr0, update_efer, NeedsLma
    <3> QED
      BY <2>1, <2>2, <2>3, <3>1 DEF LegalInv, ModeSound, LegalCr0
  <2>4. CASE "PG" \notin val
    <3>1. efer' = efer
      BY <1>2, <2>4 DEF HandleCr0
    <3> QED
      BY <2>1, <2>2, <2>4, <3>1 DEF LegalInv, ModeSound, LegalCr0
  <2> QED
    BY <2>3, <2>4
<1>3. ASSUME NEW val, MovCr4(val) PROVE LegalInv'
  <2>1. /\ mode = "guest" /\ mode' = "guest" /\ UNCHANGED <<cr0, efer>> /\ ModeSound
        /\ LegalCr4(val)
    BY <1>0, <1>3 DEF MovCr4, cr0Vars, LegalInv
  <2>2. /\ "PAE" \in val => "PAE" \in cr4'
        /\ \A b \in {"PCIDE", "CET"} : b \in cr4' => b \in val
    <3>1. cr4' = (cr4 \cap MaskCr4) \cup (val \ MaskCr4)
      BY <1>0, <1>3 DEF MovCr4
    <3>2. {"PCIDE", "CET"} \cap cr4 \cap MaskCr4 = {}
      BY <1>0, CrAssumption DEF MaskCr4
    <3> QED
      BY <1>0, <3>1, <3>2
  <2> QED
    BY <2>1, <2>2 DEF LegalInv, ModeSound, LegalCr4
<1>4. ASSUME NEW val, HandleCr4(val) PROVE LegalInv'
  <2>1. /\ mode = "guest" /\ mode' = "host" /\ UNCHANGED <<cr0, efer>> /\ ModeSound
        /\ legal' => LegalCr4(val)
    BY <1>0, <1>4 DEF HandleCr4, cr0Vars, LegalInv
  <2>2. /\ "PAE" \in val => "PAE" \in cr4'
        /\ \A b \in {"PCIDE", "CET"} : b \in cr4' => b \in val
    BY <1>4, ModeBitsKept DEF HandleCr4, set_cr4
  <2> QED
    BY <2>1, <2>2 DEF LegalInv, ModeSound, LegalCr4
<1>5. ASSUME NEW val \in SUBSET {"LME", "NXE"}, WriteEfer(val) PROVE LegalInv'
  <2>1. /\ mode = "guest" /\ mode' = "guest" /\ UNCHANGED <<cr0, cr4>> /\ ModeSound
        /\ "LMA" \in efer' <=> "LMA" \in efer
    BY <1>0, <1>5 DEF WriteEfer, cr0Vars, cr4Vars, LegalInv
  <2> QED
    BY <2>1 DEF LegalInv, ModeSound
<1>6. CASE FarJump \/ OtherExit
  <2>1. /\ mode = "guest" /\ mode' \in {"guest", "host"} /\ UNCHANGED <<cr0, cr4, efer>>
        /\ ModeSound
    BY <1>0, <1>6 DEF FarJump, OtherExit, cr0Vars, cr4Vars, LegalInv
  <2> QED
    BY <2>1 DEF LegalInv, ModeSound
<1>7. CASE Lmsw \/ Clts
  <2>1. /\ mode = "guest" /\ mode' \in {"guest", "panic"} /\ UNCHANGED <<cr4, efer>>
        /\ ModeSound
    BY <1>0, <1>7 DEF Lmsw, Clts, cr4Vars, LegalInv
  <2>2. /\ "PG" \in cr0' <=> "PG" \in cr0
        /\ "WP" \in cr0' <=> "WP" \in cr0
        /\ "PE" \in cr0 => "PE" \in cr0'
    BY <1>0, <1>7 DEF Lmsw, Clts, View
  <2> QED
    BY <2>1, <2>2 DEF LegalInv, ModeSound
<1>8. CASE VmEntry
  <2>1. /\ mode = "host" /\ mode' = IF GuestStateValid THEN "guest" ELSE "failed"
        /\ UNCHANGED <<cr0, cr4, efer, legal>>
    BY <1>8 DEF VmEntry, cr0Vars, cr4Vars
  <2>2. GuestStateValid => ModeSound
    BY DEF GuestStateValid, ModeSound, Lma
  <2> QED
    BY <1>0, <2>1, <2>2 DEF LegalInv, ModeSound
<1>9. CASE UNCHANGED crVars
  BY <1>0, <1>9 DEF crVars, cr0Vars, cr4Vars, LegalInv, ModeSound
<1> QED
  BY <1>1, <1>2, <1>3, <1>4, <1>5, <1>6, <1>7, <1>8, <1>9 DEF Next

\* Every step keeps the invariant; the guest's direct writes and handle_cr are the
\* interesting ones.
LEMMA CrStep == CrInv /\ [Next]_crVars => CrInv'
<1> SUFFICES ASSUME CrInv, [Next]_crVars PROVE CrInv'
  OBVIOUS
<1> USE DEF CrInv
<1>a. CrTypeOK /\ mode # "panic"
  BY DEF CrAccessNeverPanics
<1>b. /\ View(cr0, cr0_shadow, MaskCr0) = written0
      /\ View(cr4, cr4_shadow, MaskCr4) = written4 \cup {"VMXE"}
  BY <1>a DEF GuestReadsWhatItWrote, cr4_value, View
<1> DEFINE Cr4Same == UNCHANGED cr4Vars
           Cr0Same == UNCHANGED cr0Vars
           Good0 == /\ cr0' \subseteq Cr0Bits /\ cr0_shadow' \subseteq Cr0Bits
                    /\ cr0_mask' = MaskCr0 /\ written0' \subseteq Cr0Bits
                    /\ View(cr0', cr0_shadow', MaskCr0) = written0'
                    /\ CR0_FIXED0 \ {"PE", "PG"} \subseteq cr0'
                    /\ cr0' \subseteq CR0_FIXED1 \ {"CD", "NW"}
           Good4 == /\ cr4' \subseteq Cr4Bits /\ cr4_shadow' \subseteq Cr4Bits
                    /\ cr4_mask' = MaskCr4 /\ written4' \subseteq Cr4Bits
                    /\ "VMXE" \in cr4_shadow'
                    /\ View(cr4', cr4_shadow', MaskCr4) = written4' \cup {"VMXE"}
                    /\ CR4_FIXED0 \subseteq cr4' /\ cr4' \subseteq CR4_FIXED1
           GoodRest == /\ efer' \subseteq {"LME", "LMA", "NXE"} /\ cs_l' \in BOOLEAN
                       /\ entry_ctl' \subseteq ENTRY_CTLS.allowed1
                       /\ mode' \in {"guest", "host", "failed"} /\ legal' \in BOOLEAN
<1>c. Cr0Same => Good0
  BY <1>a, <1>b DEF cr0Vars, CrTypeOK, FixedBitsHeld
<1>d. Cr4Same => Good4
  BY <1>a, <1>b DEF cr4Vars, CrTypeOK, FixedBitsHeld
<1>e. StoredEntryCtl \in SUBSET ENTRY_CTLS.allowed1
  BY <1>a, StoredEntryCtlAllowed
<1>f. SUFFICES Good0 /\ Good4 /\ GoodRest
  <2>1. LongModeInv' /\ LegalInv'
    BY LongModeStep, LegalStep
  <2> QED
    BY <2>1, Masks DEF CrTypeOK, GuestReadsWhatItWrote, cr4_value, View, FixedBitsHeld,
       CrAccessNeverPanics
<1>1. ASSUME NEW val \in SUBSET Cr0Bits, MovCr0(val) PROVE Good0 /\ Good4 /\ GoodRest
  <2>1. View(cr0', cr0_shadow', MaskCr0) = written0'
    BY <1>1, DirectWrite, Zenon DEF MovCr0
  <2>2. Good0
    BY <1>1, <1>a, <2>1, Masks DEF MovCr0, CrTypeOK, FixedBitsHeld
  <2>3. GoodRest
    BY <1>1, <1>a DEF MovCr0, CrTypeOK, EferAfter
  <2> QED
    BY <1>1, <1>d, <2>2, <2>3 DEF MovCr0
<1>2. ASSUME NEW val \in SUBSET Cr0Bits, HandleCr0(val) PROVE Good0 /\ Good4 /\ GoodRest
  <2>1. Good0
    BY <1>2, SetCr0, CrAssumption DEF HandleCr0, set_cr0, ShadowCr0
  <2>2. legal' \in BOOLEAN
    BY <1>2 DEF HandleCr0, LegalCr0
  <2>3. /\ efer' \subseteq {"LME", "LMA", "NXE"} /\ entry_ctl' \subseteq ENTRY_CTLS.allowed1
        /\ mode' = "host"
    <3>1. CASE "PG" \in val
      BY <1>2, <1>a, <1>e, <3>1, EntryCtlSound, Zenon
         DEF HandleCr0, update_efer, UpdateEferFails, CrTypeOK
    <3>2. CASE "PG" \notin val
      BY <1>2, <1>a, <1>e, <3>2, Zenon DEF HandleCr0, CrTypeOK
    <3> QED
      BY <3>1, <3>2
  <2> QED
    BY <1>2, <1>a, <1>d, <2>1, <2>2, <2>3 DEF HandleCr0, CrTypeOK
<1>3. ASSUME NEW val \in SUBSET Cr4Bits, MovCr4(val) PROVE Good0 /\ Good4 /\ GoodRest
  <2>1. "VMXE" \in val
    BY <1>3, Masks DEF MovCr4, Exits
  <2>2. View(cr4', cr4_shadow', MaskCr4) = written4' \cup {"VMXE"}
    BY <1>3, <2>1, DirectWrite, ZenonT(30) DEF MovCr4
  <2>3. Good4
    BY <1>3, <1>a, <2>2, Masks, ZenonT(30) DEF MovCr4, CrTypeOK, FixedBitsHeld
  <2> QED
    BY <1>3, <1>a, <1>c, <2>3, Zenon DEF MovCr4, CrTypeOK
<1>4. ASSUME NEW val \in SUBSET Cr4Bits, HandleCr4(val) PROVE Good0 /\ Good4 /\ GoodRest
  <2>1. Good4
    BY <1>4, SetCr4, CrAssumption DEF HandleCr4, set_cr4
  <2>2. legal' \in BOOLEAN
    BY <1>4 DEF HandleCr4, LegalCr4
  <2> QED
    BY <1>4, <1>a, <1>c, <1>e, <2>1, <2>2 DEF HandleCr4, CrTypeOK
<1>5. ASSUME NEW val \in SUBSET {"LME", "NXE"}, WriteEfer(val) PROVE Good0 /\ Good4 /\ GoodRest
  BY <1>5, <1>a, <1>c, <1>d DEF WriteEfer, CrTypeOK
<1>6. CASE FarJump
  BY <1>6, <1>a, <1>c, <1>d DEF FarJump, CrTypeOK
<1>7. CASE Lmsw
  <2> DEFINE val == View(cr0, cr0_shadow, cr0_mask) \cup {"PE"}
  <2>1. val \in SUBSET Cr0Bits /\ ~Exits(val, cr0_shadow, cr0_mask)
    BY <1>a, Masks, CrAssumption DEF View, Exits, CrTypeOK
  <2>2. View(cr0', cr0_shadow', MaskCr0) = written0'
    BY <1>7, <2>1, DirectWrite, Zenon DEF Lmsw
  <2>3. Good0
    <3>1. /\ cr0' = (cr0 \cap MaskCr0) \cup (val \ MaskCr0) /\ written0' = val
          /\ cr0_shadow' = cr0_shadow /\ cr0_mask' = MaskCr0
      BY <1>7 DEF Lmsw
    <3>2. /\ CR0_FIXED0 \ {"PE", "PG"} \subseteq cr0 \cap MaskCr0
          /\ cr0 \subseteq CR0_FIXED1 \ {"CD", "NW"} /\ cr0_shadow \subseteq Cr0Bits
          /\ val \ MaskCr0 \subseteq CR0_FIXED1 \ {"CD", "NW"} /\ CR0_FIXED1 \subseteq Cr0Bits
      BY <1>a, <2>1, Masks, CrAssumption DEF CrTypeOK, FixedBitsHeld
    <3> HIDE DEF val
    <3> QED
      BY <2>1, <2>2, <3>1, <3>2, Zenon
  <2> QED
    BY <1>7, <1>a, <1>d, <2>1, <2>3, Zenon DEF Lmsw, CrTypeOK
<1>8. CASE Clts
  <2>1. View(cr0 \ {"TS"}, cr0_shadow, MaskCr0) = written0 \ {"TS"}
    BY <1>b, Masks DEF View
  <2>2. Good0
    BY <1>8, <1>a, <2>1, CrAssumption, SMTT(30) DEF Clts, CrTypeOK, FixedBitsHeld
  <2> QED
    BY <1>8, <1>a, <1>d, <2>2, Masks, Zenon DEF Clts, CrTypeOK
<1>9. CASE OtherExit
  BY <1>9, <1>a, <1>c, <1>d, <1>e DEF OtherExit, CrTypeOK
<1>10. CASE VmEntry
  BY <1>10, <1>a, <1>c, <1>d DEF VmEntry, CrTypeOK
<1>11. CASE UNCHANGED crVars
  BY <1>11, <1>a, <1>c, <1>d DEF crVars, CrTypeOK
<1> QED
  BY <1>1, <1>2, <1>3, <1>4, <1>5, <1>6, <1>7, <1>8, <1>9, <1>10, <1>11, ValuesAssumption,
     Zenon DEF Next

\* CrInv holds in every reachable state.
THEOREM CrCorrect == Spec => []CrInv
BY CrInit, CrStep, PTL DEF Spec

\* set_cr's shadow and mask keep the guest's view of CR0 and CR4 what it wrote.
THEOREM GuestAlwaysReadsWhatItWrote == Spec => []GuestReadsWhatItWrote
<1>1. CrInv => GuestReadsWhatItWrote
  BY DEF CrInv
<1> QED
  BY <1>1, CrCorrect, PTL

\* The guest never runs with a control-register bit the processor forbids, nor with
\* CD or NW.
THEOREM FixedBitsAlwaysHeld == Spec => []FixedBitsHeld
<1>1. CrInv => FixedBitsHeld
  BY DEF CrInv
<1> QED
  BY <1>1, CrCorrect, PTL

\* No guest access to a control register reaches the panic of handle_cr.
THEOREM HandleCrNeverPanics == Spec => []CrAccessNeverPanics
<1>1. CrInv => CrAccessNeverPanics
  BY DEF CrInv
<1> QED
  BY <1>1, CrCorrect, PTL

\* A failed VM entry after handle_cr always has one of the six causes, whatever the guest
\* writes and whatever bits the processor fixes.
THEOREM FailEntryAlwaysExplained == Spec => []FailEntryCauses
<1>1. CrInv => FailEntryCauses
  BY DEF CrInv, LongModeInv, FixedBitsHeld, FailEntryCauses, GuestStateValid, Lma
<1> QED
  BY <1>1, CrCorrect, PTL

\* A write the processor accepts makes the VM entry fail only through the LMA bit that
\* handle_cr sets without LME or leaves on without paging.
THEOREM LegalWritesFailByLma == Spec => []LegalWriteFailures
<1>1. ASSUME CrInv, mode = "failed", legal,
             ~("PG" \in cr0 /\ "LME" \notin efer), ~("PG" \notin cr0 /\ Lma)
      PROVE  FALSE
  <2>1. ModeSound /\ ~GuestStateValid /\ FixedBitsHeld
    BY <1>1 DEF CrInv, LongModeInv, LegalInv
  <2>2. /\ "IA32E_MODE_GUEST" \in entry_ctl <=> "LMA" \in efer
        /\ "PG" \in cr0 /\ "LME" \in efer => "LMA" \in efer
    BY <1>1 DEF CrInv, LongModeInv
  <2> QED
    BY <1>1, <2>1, <2>2 DEF ModeSound, GuestStateValid, FixedBitsHeld, Lma
<1>2. CrInv => LegalWriteFailures
  BY <1>1 DEF LegalWriteFailures
<1> QED
  BY <1>2, CrCorrect, PTL

\* get_ptw_info describes the page walk the guest set up, on a processor with any of
\* PSE, SMEP, SMAP and LA57, but for the level of 5-level paging.
THEOREM PageWalkAlwaysGuests == Spec => []PageWalkIsGuests
<1>1. ASSUME CrInv, mode = "guest" \/ GuestStateValid 
      PROVE  get_ptw_info = IF GuestPagingLevel = 5 THEN [GuestWalk EXCEPT !.level = 4]
                            ELSE GuestWalk
  <2>1. /\ View(cr0, cr0_shadow, MaskCr0) = written0
        /\ View(cr4, cr4_shadow, MaskCr4) = written4 \cup {"VMXE"}
        /\ cr4 \subseteq CR4_FIXED1
    BY <1>1 DEF CrInv, CrAccessNeverPanics, GuestReadsWhatItWrote, cr4_value, View,
       FixedBitsHeld
  <2>2. ("PG" \in cr0) = ("PG" \in written0) /\ ("WP" \in cr0) = ("WP" \in written0)
    BY <2>1, Masks DEF View
  <2>3. ASSUME NEW b \in {"PAE", "PSE", "SMEP", "SMAP", "LA57"}
        PROVE  (b \in cr4) = (b \in written4 \cap CR4_FIXED1)
    <3>1. b # "VMXE"
      BY <2>3
    <3> QED
      BY <2>1, <3>1, Masks DEF View
  <2>4. ("PAE" \in cr4) = ("PAE" \in written4)
    BY <2>3, CrAssumption
  <2>5. "PG" \in cr0 => ("LMA" \in efer <=> "LME" \in efer)
    BY <1>1 DEF CrInv, LongModeInv, GuestStateValid, Lma
  <2>6. /\ get_paging_level = IF GuestPagingLevel = 5 THEN 4 ELSE GuestPagingLevel
        /\ GuestPagingLevel \in {0, 2, 3, 4, 5}
    BY <2>2, <2>4, <2>5 DEF get_paging_level, GuestPagingLevel, Lma
  <2>7. (IF get_paging_level \in {3, 4} THEN 9 ELSE IF get_paging_level = 2 THEN 10 ELSE 0)
          = (IF GuestPagingLevel = 0 THEN 0 ELSE IF GuestPagingLevel = 2 THEN 10 ELSE 9)
    BY <2>6
  <2>8. /\ ("PSE" \in cr4) = ("PSE" \in written4 \cap CR4_FIXED1)
        /\ ("SMAP" \in cr4) = ("SMAP" \in written4 \cap CR4_FIXED1)
        /\ ("SMEP" \in cr4) = ("SMEP" \in written4 \cap CR4_FIXED1)
        /\ (get_paging_level = 2) = (GuestPagingLevel = 2)
    BY <2>3, <2>6
  <2> DEFINE Walk(level) == [level |-> level,
                             width |-> IF GuestPagingLevel = 0 THEN 0
                                       ELSE IF GuestPagingLevel = 2 THEN 10 ELSE 9,
                             pse |-> GuestPagingLevel = 2 => "PSE" \in cr4,
                             nxe |-> ~(GuestPagingLevel = 2) /\ "NXE" \in efer,
                             wp |-> "WP" \in cr0, smap |-> "SMAP" \in cr4,
                             smep |-> "SMEP" \in cr4]
  <2>9. GuestWalk = Walk(GuestPagingLevel)
    BY <2>2, <2>8, Zenon DEF GuestWalk
  <2>10. get_ptw_info = Walk(get_paging_level)
    BY <2>7, <2>8, Zenon DEF get_ptw_info
  <2>11. [GuestWalk EXCEPT !.level = 4] = Walk(4)
    BY <2>9, SMT
  <2> QED
    BY <2>6, <2>9, <2>10, <2>11, Zenon
<1> QED
  BY <1>1, CrCorrect, PTL DEF PageWalkIsGuests
=============================================================================
