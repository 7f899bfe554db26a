----------------------------- MODULE VmxGuestCr -----------------------------
(***************************************************************************)
(* The guest's control registers and IA32_EFER (src/vmx/vcpu.rs, vmcs.rs): *)
(* set_cr keeps the value the processor needs in the VMCS and the value    *)
(* the guest wrote in a read shadow, with a mask that says which bits the  *)
(* hypervisor owns; handle_cr and update_efer run when the guest writes a  *)
(* bit it does not own.  A register is the set of its 1-bits.              *)
(***************************************************************************)
EXTENDS ControlFields

CONSTANTS
  Cr0Bits, Cr4Bits,            \* the bits of CR0 and CR4
  CR0_FIXED0, CR0_FIXED1,      \* IA32_VMX_CR0_FIXED0 and _FIXED1
  CR4_FIXED0, CR4_FIXED1,      \* IA32_VMX_CR4_FIXED0 and _FIXED1
  Cr0Values, Cr4Values,        \* the values the guest writes to CR0 and CR4
  ENTRY_CTLS                   \* IA32_VMX_TRUE_ENTRY_CTLS

\* Of every processor so far: PE, NE and PG alone can be fixed to 1 in CR0, VMXE is in
\* CR4, and the bits named here can be 1.  TS stands for the low bits of CR0 but PE;
\* the bits kept out of CR4_FIXED0 are ones a processor may lack.
ASSUME CrAssumption ==
  /\ {"PE", "TS", "NE", "WP", "NW", "CD", "PG"} \subseteq CR0_FIXED1 /\ CR0_FIXED1 \subseteq Cr0Bits
  /\ CR0_FIXED0 \subseteq {"PE", "NE", "PG"}
  /\ {"PAE", "VMXE"} \subseteq CR4_FIXED1 /\ CR4_FIXED1 \subseteq Cr4Bits
  /\ "VMXE" \in CR4_FIXED0 /\ CR4_FIXED0 \subseteq CR4_FIXED1
  /\ CR4_FIXED0 \cap {"PAE", "PSE", "SMEP", "SMAP", "PCIDE", "CET", "LA57"} = {}

ASSUME ValuesAssumption ==
  /\ Cr0Values \subseteq SUBSET Cr0Bits
  /\ Cr4Values \subseteq SUBSET Cr4Bits

ASSUME EntryCtlsAssumption ==
  /\ IsCapability(ENTRY_CTLS)
  /\ "IA32E_MODE_GUEST" \in ENTRY_CTLS.allowed1 \ ENTRY_CTLS.allowed0
  /\ {"LOAD_IA32_PAT", "LOAD_IA32_EFER"} \subseteq ENTRY_CTLS.allowed1

VARIABLES
  cr0, cr0_shadow, cr0_mask,   \* GUEST_CR0, CR0_READ_SHADOW, CR0_GUEST_HOST_MASK
  cr4, cr4_shadow, cr4_mask,   \* the same for CR4
  efer,                        \* guest IA32_EFER: "LME", "LMA", "NXE"
  cs_l,                        \* CS.L in CS_ACCESS_RIGHTS
  entry_ctl,                   \* VMENTRY_CONTROLS
  mode,                        \* "guest", "host", "failed" (FailEntry), "panic"
  written0, written4,          \* the values the guest last wrote to CR0 and CR4
  legal                        \* whether a processor would have accepted the last write

cr0Vars == <<cr0, cr0_shadow, cr0_mask, written0>>
cr4Vars == <<cr4, cr4_shadow, cr4_mask, written4>>
crVars == <<cr0Vars, cr4Vars, efer, cs_l, entry_ctl, mode, legal>>

CrTypeOK ==
  /\ cr0 \subseteq Cr0Bits /\ cr0_shadow \subseteq Cr0Bits
  /\ cr0_mask \subseteq Cr0Bits /\ written0 \subseteq Cr0Bits
  /\ cr4 \subseteq Cr4Bits /\ cr4_shadow \subseteq Cr4Bits
  /\ cr4_mask \subseteq Cr4Bits /\ written4 \subseteq Cr4Bits
  /\ efer \subseteq {"LME", "LMA", "NXE"}
  /\ cs_l \in BOOLEAN
  /\ entry_ctl \subseteq ENTRY_CTLS.allowed1
  /\ mode \in {"guest", "host", "failed", "panic"}
  /\ legal \in BOOLEAN

-----------------------------------------------------------------------------
(* set_cr *)

Cr0Must0 == CR0_FIXED1 \ {"NW", "CD"}
Cr0Must1 == CR0_FIXED0 \ {"PG", "PE"}

\* Mutant: the bits fixed to 1 are left out.
Cr0WithoutMust1(val) == val \cap Cr0Must0

\* Mutant: the shadow gets the value the processor gets.
ShadowCr0Masked(val) == (val \cap Cr0Must0) \cup Cr0Must1

\* Mutant: the hypervisor owns every bit.
MaskCr0All == Cr0Bits

GuestCr0(val) == (val \cap Cr0Must0) \cup Cr0Must1

ShadowCr0(val) == val

MaskCr0 == Cr0Must1 \cup (Cr0Bits \ Cr0Must0)

set_cr0(val) ==
  /\ cr0' = GuestCr0(val)
  /\ cr0_shadow' = ShadowCr0(val)
  /\ cr0_mask' = MaskCr0

\* `val` has VMXE set first.
GuestCr4(val) == ((val \cup {"VMXE"}) \cap CR4_FIXED1) \cup CR4_FIXED0

ShadowCr4(val) == val \cup {"VMXE"}

MaskCr4 == CR4_FIXED0 \cup (Cr4Bits \ CR4_FIXED1)

set_cr4(val) ==
  /\ cr4' = GuestCr4(val)
  /\ cr4_shadow' = ShadowCr4(val)
  /\ cr4_mask' = MaskCr4

\* setup_vmcs_guest: CR0 as after a reset, and entry controls without IA-32e mode.
Init ==
  /\ cr0 = GuestCr0({"NW", "CD"}) /\ cr0_shadow = ShadowCr0({"NW", "CD"}) /\ cr0_mask = MaskCr0
  /\ cr4 = GuestCr4({}) /\ cr4_shadow = ShadowCr4({}) /\ cr4_mask = MaskCr4
  /\ efer = {}
  /\ cs_l = FALSE
  /\ entry_ctl = set_control(ENTRY_CTLS, {}, {"LOAD_IA32_PAT", "LOAD_IA32_EFER"}, {})
  /\ mode = "host"
  /\ written0 = {"NW", "CD"} /\ written4 = {}
  /\ legal = TRUE

-----------------------------------------------------------------------------
(* The processor in VMX non-root operation (SDM 2.5, 4.1, 25.1.3, 25.3). *)

\* The write changes a bit the hypervisor owns.
Exits(val, shadow, mask) == val \cap mask # shadow \cap mask

\* What the guest reads.
View(real, shadow, mask) == (shadow \cap mask) \cup (real \ mask)

\* Writes a processor accepts: the others raise #GP (MOV to control registers in SDM 2B).
LegalCr0(val) ==
  /\ "PG" \in val => "PE" \in val
  /\ "NW" \in val => "CD" \in val
  /\ "PG" \in val /\ "LME" \in efer => "PAE" \in cr4
  /\ "PG" \in val \ cr0 /\ "LME" \in efer => ~cs_l
  /\ "PG" \notin val => "PCIDE" \notin cr4 /\ ~("LMA" \in efer /\ cs_l)
  /\ "WP" \notin val => "CET" \notin cr4

\* The guest's PCID is taken to be 0 when it sets PCIDE.
LegalCr4(val) ==
  /\ val \subseteq CR4_FIXED1
  /\ "LMA" \in efer => "PAE" \in val /\ ("LA57" \in val <=> "LA57" \in cr4)
  /\ "PCIDE" \in val \ cr4 => "LMA" \in efer
  /\ "CET" \in val => "WP" \in cr0

\* EFER after CR0.PG was written.
EferAfter(val) ==
  (efer \ {"LMA"}) \cup (IF "PG" \in val /\ "LME" \in efer THEN {"LMA"} ELSE {})

\* A VM exit stores EFER.LMA in the entry controls.
StoredEntryCtl ==
  (entry_ctl \ {"IA32E_MODE_GUEST"})
    \cup (IF "LMA" \in efer THEN {"IA32E_MODE_GUEST"} ELSE {})

\* MOV to CR0 without an exit.
MovCr0(val) ==
  /\ mode = "guest"
  /\ ~Exits(val, cr0_shadow, cr0_mask) /\ LegalCr0(val)
  /\ cr0' = (cr0 \cap cr0_mask) \cup (val \ cr0_mask)
  /\ efer' = EferAfter(val)
  /\ written0' = val
  /\ UNCHANGED <<cr0_shadow, cr0_mask, cr4Vars, cs_l, entry_ctl, mode, legal>>

\* MOV to CR4 without an exit.
MovCr4(val) ==
  /\ mode = "guest"
  /\ ~Exits(val, cr4_shadow, cr4_mask) /\ LegalCr4(val)
  /\ cr4' = (cr4 \cap cr4_mask) \cup (val \ cr4_mask)
  /\ written4' = val
  /\ UNCHANGED <<cr0Vars, cr4_shadow, cr4_mask, efer, cs_l, entry_ctl, mode, legal>>

\* WRMSR IA32_EFER, which the MSR bitmap passes through.
\* LME cannot change under paging.
WriteEfer(val) ==
  /\ mode = "guest"
  /\ "PG" \in cr0 => val \cap {"LME"} = efer \cap {"LME"}
  /\ efer' = (efer \cap {"LMA"}) \cup val
  /\ UNCHANGED <<cr0Vars, cr4Vars, cs_l, entry_ctl, mode, legal>>

\* A far jump to a code segment with or without L, which only IA-32e mode looks at.
FarJump ==
  /\ mode = "guest"
  /\ "PE" \in cr0
  /\ cs_l' = ~cs_l
  /\ UNCHANGED <<cr0Vars, cr4Vars, efer, entry_ctl, mode, legal>>

\* LMSW, which can set PE, and CLTS: handle_cr panics if one of them exits.
Lmsw ==
  /\ mode = "guest"
  /\ LET val == View(cr0, cr0_shadow, cr0_mask) \cup {"PE"} IN
       /\ mode' = IF Exits(val, cr0_shadow, cr0_mask) THEN "panic" ELSE "guest"
       /\ cr0' = (cr0 \cap cr0_mask) \cup (val \ cr0_mask)
       /\ written0' = val
  /\ UNCHANGED <<cr0_shadow, cr0_mask, cr4Vars, efer, cs_l, entry_ctl, legal>>

Clts ==
  /\ mode = "guest"
  /\ mode' = IF "TS" \in cr0_mask \cap cr0_shadow THEN "panic" ELSE "guest"
  /\ cr0' = cr0 \ {"TS"}
  /\ written0' = written0 \ {"TS"}
  /\ UNCHANGED <<cr0_shadow, cr0_mask, cr4Vars, efer, cs_l, entry_ctl, legal>>

\* Any other VM exit.
OtherExit ==
  /\ mode = "guest"
  /\ mode' = "host"
  /\ entry_ctl' = StoredEntryCtl
  /\ UNCHANGED <<cr0Vars, cr4Vars, efer, cs_l, legal>>

-----------------------------------------------------------------------------
(* handle_cr *)

\* Mutant: IA-32e mode is not made active once LME is set.
NeedsLmaWithoutLme == "LME" \notin efer

\* Whether update_efer has something to do, and whether its set_control fails.
NeedsLma == ~({"LME", "LMA"} \subseteq efer)

UpdateEferFails == NeedsLma /\ SetControlFails(ENTRY_CTLS, {"IA32E_MODE_GUEST"}, {})

\* Mutant: LMA is set and the entry controls are not.
UpdateEferKeepsEntryCtl ==
  /\ efer' = efer \cup {"LMA"}
  /\ entry_ctl' = StoredEntryCtl

update_efer ==
  IF NeedsLma
  THEN /\ efer' = efer \cup {"LMA"}
       /\ entry_ctl' = set_control(ENTRY_CTLS, StoredEntryCtl, {"IA32E_MODE_GUEST"}, {})
  ELSE /\ efer' = efer
       /\ entry_ctl' = StoredEntryCtl

\* MOV to CR0, after an exit.
HandleCr0(val) ==
  /\ mode = "guest"
  /\ Exits(val, cr0_shadow, cr0_mask)
  /\ set_cr0(val)
  /\ IF "PG" \in val
     THEN update_efer /\ mode' = IF UpdateEferFails THEN "panic" ELSE "host"
     ELSE efer' = efer /\ entry_ctl' = StoredEntryCtl /\ mode' = "host"
  /\ written0' = val
  /\ legal' = LegalCr0(val)
  /\ UNCHANGED <<cr4Vars, cs_l>>

\* MOV to CR4, after an exit.
HandleCr4(val) ==
  /\ mode = "guest"
  /\ Exits(val, cr4_shadow, cr4_mask)
  /\ set_cr4(val)
  /\ entry_ctl' = StoredEntryCtl
  /\ mode' = "host"
  /\ written4' = val
  /\ legal' = LegalCr4(val)
  /\ UNCHANGED <<cr0Vars, efer, cs_l>>

-----------------------------------------------------------------------------
(* The next VM entry: the checks of SDM 26.3.1.1 on CR0, CR4 and IA32_EFER. *)

Lma == "LMA" \in efer

GuestStateValid ==
  /\ "PG" \in cr0 => "PE" \in cr0
  /\ CR0_FIXED0 \ {"PE", "PG"} \subseteq cr0 /\ cr0 \subseteq CR0_FIXED1
  /\ CR4_FIXED0 \subseteq cr4 /\ cr4 \subseteq CR4_FIXED1
  /\ "CET" \in cr4 => "WP" \in cr0
  /\ "IA32E_MODE_GUEST" \in entry_ctl => "PG" \in cr0 /\ "PAE" \in cr4
  /\ "PCIDE" \in cr4 => "IA32E_MODE_GUEST" \in entry_ctl
  /\ Lma = ("IA32E_MODE_GUEST" \in entry_ctl)
  /\ "PG" \in cr0 => Lma = ("LME" \in efer)

VmEntry ==
  /\ mode = "host"
  /\ mode' = IF GuestStateValid THEN "guest" ELSE "failed"
  /\ UNCHANGED <<cr0Vars, cr4Vars, efer, cs_l, entry_ctl, legal>>

Next ==
  \/ \E val \in Cr0Values : MovCr0(val) \/ HandleCr0(val)
  \/ \E val \in Cr4Values : MovCr4(val) \/ HandleCr4(val)
  \/ \E val \in SUBSET {"LME", "NXE"} : WriteEfer(val)
  \/ FarJump \/ Lmsw \/ Clts \/ OtherExit
  \/ VmEntry

Spec == Init /\ [][Next]_crVars

-----------------------------------------------------------------------------
(* What the rest of the hypervisor reads. *)

\* cr(4); cr(0) and cr(3) are the guest-state fields themselves.
cr4_value == (cr4_shadow \cap cr4_mask) \cup (cr4 \ cr4_mask)

\* Mutant: the read shadows, which hold the last values whose write exited.
PagingLevelOfShadows ==
  IF "PG" \notin cr0_shadow THEN 0
  ELSE IF "PAE" \notin cr4_shadow THEN 2
  ELSE IF Lma THEN 4 ELSE 3

get_paging_level ==
  IF "PG" \notin cr0 THEN 0
  ELSE IF "PAE" \notin cr4 THEN 2
  ELSE IF Lma THEN 4 ELSE 3

\* Without CR3 and the CPL, copied from their fields, and is_write_access and
\* is_inst_fetch, always false.
get_ptw_info ==
  [level |-> get_paging_level,
   width |-> IF get_paging_level \in {3, 4} THEN 9 ELSE IF get_paging_level = 2 THEN 10 ELSE 0,
   pse |-> get_paging_level = 2 => "PSE" \in cr4,
   nxe |-> get_paging_level # 2 /\ "NXE" \in efer,
   wp |-> "WP" \in cr0, smap |-> "SMAP" \in cr4, smep |-> "SMEP" \in cr4]

\* get_cpu_mode reads IA32_EFER with RDMSR, in VMX root operation: the host's, in
\* 64-bit mode.
HostEfer == {"LME", "LMA"}
get_cpu_mode ==
  IF "LMA" \in HostEfer THEN (IF cs_l THEN "Mode64" ELSE "Compatibility")
  ELSE IF "PE" \in cr0 THEN "Protected" ELSE "Real"

\* What gla2gva adds to the guest's RIP.
gla2gva_base == IF get_cpu_mode = "Mode64" THEN "zero" ELSE "CS_BASE"

-----------------------------------------------------------------------------
\* The guest reads back from CR0 and CR4 what it last wrote, whichever of its writes
\* exited, but for CR4.VMXE, which set_cr always sets in the shadow.
GuestReadsWhatItWrote ==
  mode # "panic" =>
    /\ View(cr0, cr0_shadow, cr0_mask) = written0
    /\ cr4_value = written4 \cup {"VMXE"}

\* Whatever the guest writes, with or without an exit, the registers it runs on obey
\* the processor's fixed bits, and CD and NW stay off.
FixedBitsHeld ==
  /\ CR0_FIXED0 \ {"PE", "PG"} \subseteq cr0
  /\ cr0 \subseteq CR0_FIXED1 \ {"CD", "NW"}
  /\ CR4_FIXED0 \subseteq cr4 /\ cr4 \subseteq CR4_FIXED1

\* handle_cr's panic, "Guest's access to cr not allowed", and the error of update_efer
\* are out of the guest's reach: no access but MOV to CR0 and CR4 exits, and those are
\* carried out, though builtin_vmexit_handler says "cr access: just panic".
CrAccessNeverPanics == mode # "panic"

\* "cr access: just panic", in the comment on builtin_vmexit_handler.
CrAccessPanics == [][(\E val \in Cr0Values : HandleCr0(val)) => mode' = "panic"]_crVars

\* The VM entry after handle_cr fails in six cases only: PG without PE, PG without LME
\* (update_efer sets LMA all the same), LMA left on when PG or PAE goes off, PCIDE
\* outside IA-32e mode and CET without WP.  Neither the fixed bits nor the entry
\* controls, which follow LMA, are ever the reason.
FailEntryCauses ==
  mode = "failed" =>
    \/ "PG" \in cr0 /\ "PE" \notin cr0
    \/ "PG" \in cr0 /\ "LME" \notin efer
    \/ "PG" \notin cr0 /\ Lma
    \/ "PAE" \notin cr4 /\ Lma
    \/ "PCIDE" \in cr4 /\ ~Lma
    \/ "CET" \in cr4 /\ "WP" \notin cr0

\* If the last write that exited was one a processor accepts, the VM entry fails only
\* because handle_cr gets IA32_EFER wrong: it sets LMA when paging is turned on without
\* LME, and leaves LMA on when paging is turned off in IA-32e mode.
LegalWriteFailures ==
  mode = "failed" /\ legal =>
    \/ "PG" \in cr0 /\ "LME" \notin efer
    \/ "PG" \notin cr0 /\ Lma

\* The paging mode the guest asked for with its writes to CR0, CR4 and EFER, and the
\* page walk the processor does for it (SDM 4.1): large pages and execute-disable are
\* options of CR4.PSE in 32-bit paging and of EFER.NXE in the other modes.
GuestPagingLevel ==
  IF "PG" \notin written0 THEN 0
  ELSE IF "PAE" \notin written4 THEN 2
  ELSE IF "LME" \notin efer THEN 3
  ELSE IF "LA57" \in written4 \cap CR4_FIXED1 THEN 5 ELSE 4

GuestWalk ==
  LET level == GuestPagingLevel IN
  [level |-> level,
   width |-> IF level = 0 THEN 0 ELSE IF level = 2 THEN 10 ELSE 9,
   pse |-> level = 2 => "PSE" \in written4 \cap CR4_FIXED1,
   nxe |-> level # 2 /\ "NXE" \in efer,
   wp |-> "WP" \in written0,
   smap |-> "SMAP" \in written4 \cap CR4_FIXED1, smep |-> "SMEP" \in written4 \cap CR4_FIXED1]

\* get_ptw_info describes the page walk the guest set up, whichever of its writes
\* exited: whenever the guest runs, and after an exit if the next entry can succeed.  The
\* exception is 5-level paging, which set_cr lets the guest turn on though CPUID hides it:
\* get_paging_level calls it 4, and all else is right.
PageWalkIsGuests ==
  mode = "guest" \/ GuestStateValid =>
    get_ptw_info = IF GuestPagingLevel = 5 THEN [GuestWalk EXCEPT !.level = 4] ELSE GuestWalk

\* "Translate guest virtual addr to linear addr": gla2gva adds the base that the guest's
\* processor adds.
CodeBaseIsGuests == gla2gva_base = IF Lma /\ cs_l THEN "zero" ELSE "CS_BASE"

\* "PE and PG can be freely chosen (by the guest)": a write a processor accepts never
\* ends in a failed VM entry.
PgFreelyChosen == mode = "failed" => ~legal

\* "Get CPU mode of the guest".
CpuModeIsGuests ==
  mode = "host" =>
    get_cpu_mode = IF Lma THEN (IF cs_l THEN "Mode64" ELSE "Compatibility")
                   ELSE IF "PE" \in cr0 THEN "Protected" ELSE "Real"
=============================================================================
