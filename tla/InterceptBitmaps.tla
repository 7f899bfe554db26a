-------------------------- MODULE InterceptBitmaps --------------------------
(***************************************************************************)
(* IOBitmap and MsrBitmap (src/vmx/structs.rs) and the calls that change   *)
(* them (src/vmx/vcpu.rs), against the way the processor looks a port or   *)
(* an MSR up.  A bitmap is the set of its 1-bits, each a frame, a byte and *)
(* a bit of the byte.  An MSR is the range of numbers it is in, "low"      *)
(* (0..1fff), "high" (c0000000..c0001fff) or "other", and its low 13 bits. *)
(***************************************************************************)
EXTENDS Integers, FiniteSets

CONSTANTS
  Ports,       \* ports the run is about
  Msrs,        \* MSRs the run is about
  IoRanges,    \* (port_base, count) pairs set_io_intercept_of_range is called with
  ApicOffsets  \* 0x800..=0x83f, or the part of it the run is about

Msr == [range: {"low", "high", "other"}, offset: {o \in Nat : o < 8192}]

ASSUME PortsAssumption == \A port \in Ports : port \in Nat /\ port < 65536
ASSUME MsrsAssumption == Msrs \subseteq Msr /\ ApicOffsets \subseteq 2048..2111
ASSUME IoRangesAssumption == IoRanges \subseteq Nat \X Nat

VARIABLES
  io_bitmap,    \* 1-bits of frames "a" and "b"
  msr_bitmap,   \* 1-bits of the four parts, 0..3, of the frame
  io_wanted,    \* the ports of Ports intercepted, going by the calls
  msr_wanted,   \* the MSRs intercepted, going by the calls
  ready,        \* setup_vmcs has run
  panicked

bitmapVars == <<io_bitmap, msr_bitmap, io_wanted, msr_wanted, ready, panicked>>

QEMU_EXIT_PORT == 1540       \* 0x604
IA32_UMWAIT_CONTROL == [range |-> "low", offset |-> 225]   \* 0xe1

\* The number of bytes of a frame the code makes a slice of.
SliceLen == 1024

-----------------------------------------------------------------------------
(* IOBitmap::set_intercept *)

\* Mutant: the port is rebased and the first frame is used all the same.
IoSlotOneFrame(port) ==
  [frame |-> "a", byte |-> (port % 32768) \div 8, bit |-> port % 8]

IoSlot(port) ==
  LET p == IF port <= 32767 THEN port ELSE port - 32768 IN
  [frame |-> IF port <= 32767 THEN "a" ELSE "b", byte |-> p \div 8, bit |-> p % 8]

\* The slice index is out of bounds.
IoPanics(port) == IoSlot(port).byte >= SliceLen

IoSetIntercept(ports, intercept) ==
  LET slots == {IoSlot(port) : port \in ports} IN
  io_bitmap' = IF intercept THEN io_bitmap \cup slots ELSE io_bitmap \ slots

(* MsrBitmap::set_intercept *)

\* Mutant: the parts for high reads and low writes are swapped.
MsrPartSwapped(msr, write) ==
  IF msr.range = "low" THEN IF write THEN 1 ELSE 0
  ELSE IF write THEN 3 ELSE 2

MsrPart(msr, write) ==
  IF msr.range = "low" THEN IF write THEN 2 ELSE 0
  ELSE IF write THEN 3 ELSE 1

\* unreachable!()
MsrPanics(msr) == msr.range = "other"

MsrSlot(msr, write) ==
  [part |-> MsrPart(msr, write), byte |-> msr.offset \div 8, bit |-> msr.offset % 8]

\* set_read_intercept and set_write_intercept for each MSR.
MsrSetIntercept(msrs, intercept) ==
  LET slots == {MsrSlot(msr, write) : msr \in msrs, write \in BOOLEAN} IN
  msr_bitmap' = IF intercept THEN msr_bitmap \cup slots ELSE msr_bitmap \ slots

-----------------------------------------------------------------------------
\* VmxVcpu::new: passthrough_all for both.
Init ==
  /\ io_bitmap = {} /\ msr_bitmap = {}
  /\ io_wanted = {} /\ msr_wanted = {}
  /\ ready = FALSE
  /\ panicked = FALSE

\* What a call asks for.
Want(wanted, items, intercept) == IF intercept THEN wanted \cup items ELSE wanted \ items

SetupMsrs ==
  {IA32_UMWAIT_CONTROL} \cup {[range |-> "low", offset |-> o] : o \in ApicOffsets}

\* setup_msr_bitmap and setup_io_bitmap, in setup_vmcs.
Setup ==
  /\ ~ready /\ ~panicked
  /\ MsrSetIntercept(SetupMsrs, TRUE)
  /\ IoSetIntercept({QEMU_EXIT_PORT}, TRUE)
  /\ msr_wanted' = Want(msr_wanted, SetupMsrs, TRUE)
  /\ io_wanted' = Want(io_wanted, {QEMU_EXIT_PORT}, TRUE)
  /\ ready' = TRUE
  /\ UNCHANGED panicked

\* set_io_intercept_of_range, port by port until one panics.
SetIoInterceptOfRange(base, count, intercept) ==
  LET ports == base..(base + count - 1)
      done  == {port \in ports : \A p \in base..port : ~IoPanics(p)}
  IN
  /\ ~panicked
  /\ IoSetIntercept(done, intercept)
  /\ io_wanted' = Want(io_wanted, done, intercept)
  /\ panicked' = (done # ports)
  /\ UNCHANGED <<msr_bitmap, msr_wanted, ready>>

\* set_msr_intercept_of_range, one MSR in spite of its name.
SetMsrInterceptOfRange(msr, intercept) ==
  /\ ~panicked
  /\ IF MsrPanics(msr)
     THEN /\ panicked' = TRUE
          /\ UNCHANGED <<msr_bitmap, msr_wanted>>
     ELSE /\ MsrSetIntercept({msr}, intercept)
          /\ msr_wanted' = Want(msr_wanted, {msr}, intercept)
          /\ UNCHANGED panicked
  /\ UNCHANGED <<io_bitmap, io_wanted, ready>>

Next ==
  \/ Setup
  \/ \E intercept \in BOOLEAN :
       \/ \E r \in IoRanges : SetIoInterceptOfRange(r[1], r[2], intercept)
       \/ \E msr \in Msrs : SetMsrInterceptOfRange(msr, intercept)

Spec == Init /\ [][Next]_bitmapVars

-----------------------------------------------------------------------------
(* The processor (SDM 25.6.4, 25.6.9, 26.1.3). *)

IoExits(port) ==
  [frame |-> IF port < 32768 THEN "a" ELSE "b", byte |-> (port % 32768) \div 8, bit |-> port % 8]
    \in io_bitmap

\* The four parts are, in order: reads of low and of high MSRs, writes of low and high.
MsrExits(msr, write) ==
  \/ msr.range = "other"
  \/ [part |-> (IF write THEN 2 ELSE 0) + (IF msr.range = "high" THEN 1 ELSE 0),
      byte |-> msr.offset \div 8, bit |-> msr.offset % 8] \in msr_bitmap

\* A port causes an exit exactly if the last call that names it asked for it: no call
\* touches the bit of another port, in either frame.
IoInterceptExact == \A port \in Ports : IoExits(port) <=> port \in io_wanted

\* The same for reads and for writes of an MSR the bitmap has a bit for.
MsrInterceptExact ==
  \A msr \in Msrs, write \in BOOLEAN :
    msr.range # "other" => (MsrExits(msr, write) <=> msr \in msr_wanted)

\* "I/O bitmap A contains one bit for each I/O port in the range 0000H through 7FFFH;
\* I/O bitmap B contains bits for ports in the range 8000H through FFFFH": every call
\* that names only ports succeeds.
EveryPortHasABit ==
  [][\A r \in IoRanges, intercept \in BOOLEAN :
       SetIoInterceptOfRange(r[1], r[2], intercept) /\ r[1] + r[2] <= 65536 => ~panicked']_bitmapVars

\* "By default, I/O bitmap is set as `intercept_all`": right after setup every port exits.
DefaultInterceptsAll == [][Setup => \A port \in Ports : IoExits(port)']_bitmapVars
=============================================================================
