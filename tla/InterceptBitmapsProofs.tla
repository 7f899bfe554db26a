----------------------- MODULE InterceptBitmapsProofs -----------------------
(***************************************************************************)
(* Proofs about InterceptBitmaps: every port and every MSR, and any calls  *)
(* whatever, ranges that leave the bitmap included.                        *)
(***************************************************************************)
EXTENDS InterceptBitmaps, TLAPS

AllPorts == {p \in Nat : p < 65536}
BitmapMsrs == {msr \in Msr : msr.range # "other"}

\* What a byte and a bit number determine.
LEMMA ByteAndBit ==
  ASSUME NEW x \in Int, NEW y \in Int
  PROVE  /\ x \div 8 = y \div 8 /\ x % 8 = y % 8 => x = y
         /\ x >= 0 /\ x \div 8 < 1024 => x < 8192
<1>1. x = 8 * (x \div 8) + (x % 8) /\ y = 8 * (y \div 8) + (y % 8)
  BY SMT
<1> QED
  BY <1>1, SMT

\* A port is rebased to its frame by the remainder the processor takes.
LEMMA Rebased ==
  ASSUME NEW p \in Int
  PROVE  /\ 0 <= p /\ p <= 32767 => p % 32768 = p
         /\ 32767 < p /\ p <= 65535 => p % 32768 = p - 32768 /\ p % 8 = (p - 32768) % 8
BY SMT

\* No two ports share a bit, and the processor looks a port up in the bit the code
\* computes for it.
LEMMA IoSlotInjective ==
  /\ \A p, q \in AllPorts : IoSlot(p) = IoSlot(q) => p = q
  /\ \A p \in AllPorts : IoExits(p) <=> IoSlot(p) \in io_bitmap
<1> DEFINE In(p) == IF p <= 32767 THEN p ELSE p - 32768
<1>0. ASSUME NEW p \in AllPorts
      PROVE  /\ p \in Int /\ 0 <= p /\ p <= 65535
             /\ In(p) \in Int
             /\ IoSlot(p) = [frame |-> IF p <= 32767 THEN "a" ELSE "b",
                             byte |-> In(p) \div 8, bit |-> In(p) % 8]
  <2>1. p \in Int /\ 0 <= p /\ p <= 65535
    BY SMT DEF AllPorts
  <2> QED
    BY <2>1, SMT DEF IoSlot
<1>1. ASSUME NEW p \in AllPorts, NEW q \in AllPorts, IoSlot(p) = IoSlot(q) PROVE p = q
  <2>1. /\ (IF p <= 32767 THEN "a" ELSE "b") = (IF q <= 32767 THEN "a" ELSE "b")
        /\ In(p) \div 8 = In(q) \div 8 /\ In(p) % 8 = In(q) % 8
    <3> HIDE DEF In
    <3> QED
      BY <1>0, <1>1, SMT
  <2>2. In(p) = In(q)
    <3> HIDE DEF In
    <3> QED
      BY <1>0, <2>1, ByteAndBit, SMT
  <2> QED
    BY <1>0, <2>1, <2>2, SMT
<1>2. ASSUME NEW p \in AllPorts PROVE IoExits(p) <=> IoSlot(p) \in io_bitmap
  <2>1. In(p) = p % 32768 /\ In(p) % 8 = p % 8 /\ (p <= 32767 <=> p < 32768)
    BY <1>0, Rebased, SMT
  <2> HIDE DEF In
  <2> QED
    BY <1>0, <2>1, SMT DEF IoExits
<1> HIDE DEF In
<1> QED
  BY <1>1, <1>2, SMT

\* A port whose byte is in the slice is a port.
LEMMA NoPanicIsPort ==
  ASSUME NEW p \in Nat, ~IoPanics(p)
  PROVE  p \in AllPorts
<1> DEFINE In == IF p <= 32767 THEN p ELSE p - 32768
<1>1. In \in Int /\ In >= 0
  BY SMT
<1>2. In \div 8 < 1024
  <2>1. IoSlot(p).byte = In \div 8
    BY SMT DEF IoSlot
  <2>2. In \div 8 \in Int
    BY <1>1, SMT
  <2> HIDE DEF In
  <2> QED
    BY <2>1, <2>2, SMT DEF IoPanics, SliceLen
<1>3. In < 8192
  <2> HIDE DEF In
  <2> QED
    BY <1>1, <1>2, ByteAndBit, SMT
<1> QED
  BY <1>3, SMT DEF AllPorts

\* The same for the MSRs the bitmap has bits for.
LEMMA MsrSlotInjective ==
  /\ \A m, n \in BitmapMsrs, v, w \in BOOLEAN :
       MsrSlot(m, v) = MsrSlot(n, w) => m = n /\ v = w
  /\ \A m \in BitmapMsrs, w \in BOOLEAN : MsrExits(m, w) <=> MsrSlot(m, w) \in msr_bitmap
<1>0. ASSUME NEW m \in BitmapMsrs
      PROVE  /\ m.range \in {"low", "high"} /\ m.offset \in Int
             /\ m = [range |-> m.range, offset |-> m.offset]
  BY SMT DEF BitmapMsrs, Msr
<1>1. ASSUME NEW m \in BitmapMsrs, NEW n \in BitmapMsrs, NEW v \in BOOLEAN, NEW w \in BOOLEAN,
             MsrSlot(m, v) = MsrSlot(n, w)
      PROVE  m = n /\ v = w
  <2>2. /\ MsrPart(m, v) = MsrPart(n, w) /\ m.offset \div 8 = n.offset \div 8
        /\ m.offset % 8 = n.offset % 8
    BY <1>1, SMT DEF MsrSlot
  <2>3. m.offset = n.offset
    BY <1>0, <2>2, ByteAndBit, SMT
  <2>4. m.range = n.range /\ v = w
    BY <1>0, <2>2, SMT DEF MsrPart
  <2> QED
    BY <1>0, <2>3, <2>4, SMT
<1>2. ASSUME NEW m \in BitmapMsrs, NEW w \in BOOLEAN
      PROVE  MsrExits(m, w) <=> MsrSlot(m, w) \in msr_bitmap
  <2>2. MsrPart(m, w) = (IF w THEN 2 ELSE 0) + (IF m.range = "high" THEN 1 ELSE 0)
    BY <1>0, SMT DEF MsrPart
  <2> QED
    BY <1>0, <2>2, SMT DEF MsrExits, MsrSlot
<1> QED
  BY <1>1, <1>2, SMT

-----------------------------------------------------------------------------
\* The bits are those of the ports and MSRs asked for, for all of them and not only
\* those the run is about.
IoInv ==
  /\ io_wanted \subseteq AllPorts
  /\ \A p \in AllPorts : IoSlot(p) \in io_bitmap <=> p \in io_wanted

MsrInv ==
  /\ msr_wanted \subseteq BitmapMsrs
  /\ \A m \in BitmapMsrs, w \in BOOLEAN : MsrSlot(m, w) \in msr_bitmap <=> m \in msr_wanted

\* A call that sets or clears the bits of some ports keeps the bitmap exact.
LEMMA IoCall ==
  ASSUME IoInv, NEW ports \in SUBSET AllPorts, NEW intercept \in BOOLEAN,
         IoSetIntercept(ports, intercept), io_wanted' = Want(io_wanted, ports, intercept)
  PROVE  IoInv'
<1> DEFINE slots == {IoSlot(port) : port \in ports}
<1>1. \A p \in AllPorts : IoSlot(p) \in slots <=> p \in ports
  BY IoSlotInjective
<1>2. io_bitmap' = IF intercept THEN io_bitmap \cup slots ELSE io_bitmap \ slots
  BY DEF IoSetIntercept
<1> HIDE DEF slots
<1> QED
  BY <1>1, <1>2 DEF IoInv, Want

LEMMA MsrCall ==
  ASSUME MsrInv, NEW msrs \in SUBSET BitmapMsrs, NEW intercept \in BOOLEAN,
         MsrSetIntercept(msrs, intercept), msr_wanted' = Want(msr_wanted, msrs, intercept)
  PROVE  MsrInv'
<1> DEFINE slots == {MsrSlot(msr, write) : msr \in msrs, write \in BOOLEAN}
<1>1. \A m \in BitmapMsrs, w \in BOOLEAN : MsrSlot(m, w) \in slots <=> m \in msrs
  BY MsrSlotInjective
<1>2. msr_bitmap' = IF intercept THEN msr_bitmap \cup slots ELSE msr_bitmap \ slots
  BY DEF MsrSetIntercept
<1> HIDE DEF slots
<1> QED
  BY <1>1, <1>2 DEF MsrInv, Want

BitmapInv == IoInv /\ MsrInv

LEMMA BitmapInit == Init => BitmapInv
BY DEF Init, BitmapInv, IoInv, MsrInv

LEMMA BitmapStep == BitmapInv /\ [Next]_bitmapVars => BitmapInv'
<1> SUFFICES ASSUME BitmapInv, [Next]_bitmapVars PROVE BitmapInv'
  OBVIOUS
<1>io. IoInv /\ UNCHANGED <<io_bitmap, io_wanted>> => IoInv'
  BY DEF IoInv
<1>msr. MsrInv /\ UNCHANGED <<msr_bitmap, msr_wanted>> => MsrInv'
  BY DEF MsrInv
<1>1. CASE Setup
  <2>1. {QEMU_EXIT_PORT} \in SUBSET AllPorts
    BY DEF QEMU_EXIT_PORT, AllPorts
  <2>2. SetupMsrs \in SUBSET BitmapMsrs
    BY MsrsAssumption DEF SetupMsrs, BitmapMsrs, Msr, IA32_UMWAIT_CONTROL
  <2>3. IoInv'
    BY <1>1, <2>1, IoCall, Zenon DEF Setup, BitmapInv
  <2>4. MsrInv'
    BY <1>1, <2>2, MsrCall, Zenon DEF Setup, BitmapInv
  <2> QED
    BY <2>3, <2>4 DEF BitmapInv
<1>2. ASSUME NEW intercept \in BOOLEAN, NEW r \in IoRanges,
             SetIoInterceptOfRange(r[1], r[2], intercept)
      PROVE  BitmapInv'
  <2> DEFINE ports == r[1]..(r[1] + r[2] - 1)
             done  == {port \in ports : \A p \in r[1]..port : ~IoPanics(p)}
  <2>1. r[1] \in Nat /\ r[2] \in Nat
    BY IoRangesAssumption
  <2>2. done \in SUBSET AllPorts
    <3>1. ASSUME NEW p \in done PROVE p \in Nat /\ ~IoPanics(p)
      BY <2>1, <3>1
    <3> QED
      BY <3>1, NoPanicIsPort
  <2>3. /\ IoSetIntercept(done, intercept) /\ io_wanted' = Want(io_wanted, done, intercept)
        /\ UNCHANGED <<msr_bitmap, msr_wanted>>
    BY <1>2 DEF SetIoInterceptOfRange
  <2> HIDE DEF done
  <2> QED
    BY <2>2, <2>3, IoCall, <1>msr DEF BitmapInv
<1>3. ASSUME NEW intercept \in BOOLEAN, NEW msr \in Msrs, SetMsrInterceptOfRange(msr, intercept)
      PROVE  BitmapInv'
  <2>1. UNCHANGED <<io_bitmap, io_wanted>>
    BY <1>3 DEF SetMsrInterceptOfRange
  <2>2. CASE MsrPanics(msr)
    BY <1>3, <1>io, <1>msr, <2>1, <2>2 DEF SetMsrInterceptOfRange, BitmapInv
  <2>3. CASE ~MsrPanics(msr)
    <3>1. {msr} \in SUBSET BitmapMsrs
      BY <2>3, MsrsAssumption DEF MsrPanics, BitmapMsrs
    <3>2. MsrSetIntercept({msr}, intercept) /\ msr_wanted' = Want(msr_wanted, {msr}, intercept)
      BY <1>3, <2>3 DEF SetMsrInterceptOfRange
    <3> QED
      BY <1>io, <2>1, <3>1, <3>2, MsrCall DEF BitmapInv
  <2> QED
    BY <2>2, <2>3
<1>4. CASE UNCHANGED bitmapVars
  BY <1>4, <1>io, <1>msr DEF bitmapVars, BitmapInv
<1> QED
  BY <1>1, <1>2, <1>3, <1>4 DEF Next

\* BitmapInv holds in every reachable state.
THEOREM BitmapsCorrect == Spec => []BitmapInv
BY BitmapInit, BitmapStep, PTL DEF Spec

\* A port exits exactly if the last call that names it asked for it: for all ports.
THEOREM IoAlwaysExact == Spec => []IoInterceptExact
<1>1. BitmapInv => IoInterceptExact
  BY IoSlotInjective, PortsAssumption DEF BitmapInv, IoInv, IoInterceptExact, AllPorts
<1> QED
  BY <1>1, BitmapsCorrect, PTL

\* The same for reads and for writes of the MSRs the bitmap has bits for.
THEOREM MsrAlwaysExact == Spec => []MsrInterceptExact
<1>1. BitmapInv => MsrInterceptExact
  BY MsrSlotInjective, MsrsAssumption DEF BitmapInv, MsrInv, MsrInterceptExact, BitmapMsrs
<1> QED
  BY <1>1, BitmapsCorrect, PTL
=============================================================================
