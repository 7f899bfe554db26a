--------------------------- MODULE VmxEventsProofs ---------------------------
(***************************************************************************)
(* Proofs about VmxEvents: any interrupts and exceptions, any number of    *)
(* them queued, any guest.                                                 *)
(***************************************************************************)
EXTENDS VmxEvents, SequenceTheorems, TLAPS

\* What a valid VMENTRY_INTERRUPTION_INFO_FIELD says, and where it can be valid: the
\* type and the error code are those of the vector; the guest is not in an event of the
\* host's making; in the host only an NMI that was held back is left over, and run
\* said FailEntry; before the entry, an interrupt can be taken and the instruction
\* length is that of the last exit.
EntryFieldsInv ==
  entry_info.valid =>
    /\ entry_info.type = from_vector(entry_info.vector)
    /\ entry_info.err # NoErr <=> vector_has_error_code(entry_info.vector)
    /\ mode # "guest"
    /\ mode = "host" =>
         entry_info.type = "NMI" /\ blocking \cap NmiBlockers # {} /\ returned = "FailEntry"
    /\ mode = "entering" =>
         /\ entry_info.type = "External" => Interruptible
         /\ is_soft(entry_info.type) => entry_len = exit_len

EventInv == EventsTypeOK /\ EntryFieldsInv /\ BlockedInterruptArmsWindow

-----------------------------------------------------------------------------
LEMMA VectorTypes ==
  ASSUME NEW v \in 0..255
  PROVE  /\ from_vector(v) \in Types
         /\ from_vector(v) = "Other" <=> v \in 21..31
         /\ from_vector(v) = "External" <=> ~(v < 32)
         /\ vector_has_error_code(v) => from_vector(v) = "HardException"
         /\ is_soft(from_vector(v)) <=> v \in {1, 3, 4}
<1>1. v \in Nat /\ v < 256
  OBVIOUS
<1>2. /\ v \in 0..20 <=> v <= 20
      /\ v \in 32..255 <=> v >= 32
      /\ v \in 21..31 <=> 21 <= v /\ v <= 31
  BY <1>1
<1>3. CASE v <= 20
  BY <1>1, <1>2, <1>3 DEF from_vector, Types, vector_has_error_code, is_soft
<1>4. CASE v > 20 /\ v < 32
  BY <1>1, <1>2, <1>4 DEF from_vector, Types, vector_has_error_code, is_soft
<1>5. CASE v >= 32
  BY <1>1, <1>2, <1>5 DEF from_vector, Types, vector_has_error_code, is_soft
<1> QED
  BY <1>1, <1>3, <1>4, <1>5

\* The field inject_event writes.
LEMMA InjectedFields ==
  ASSUME NEW e \in Event
  PROVE  /\ InjectedErr(e) \in ErrCodes
         /\ InjectedErr(e) # NoErr <=> vector_has_error_code(e.vector)
BY ErrAssumption DEF InjectedErr, Event, ErrCodes

\* A valid field has the fields of an event.
LEMMA ValidFields ==
  ASSUME EventsTypeOK, entry_info.valid
  PROVE  entry_info.id \in 1..MaxEvents /\ entry_info.vector \in 0..255
<1>1. entry_info \in EntryInfo \cup {NoEvent}
  BY Zenon DEF EventsTypeOK
<1>2. NoEvent.valid = FALSE
  BY DEF NoEvent
<1>3. entry_info # NoEvent
  BY <1>2, Zenon
<1>4. entry_info \in EntryInfo
  BY <1>1, <1>3
<1> QED
  BY <1>4 DEF EntryInfo

LEMMA EventInit == Init => EventInv
<1> SUFFICES ASSUME Init PROVE EventInv
  OBVIOUS
<1>1. EventsTypeOK
  <2>1. pending_events \in Seq(Event) /\ delivered \in Seq(1..MaxEvents)
    BY EmptySeq DEF Init
  <2>2. issued \in 0..MaxEvents
    BY MaxEventsAssumption DEF Init
  <2>3. entry_info \in EntryInfo \cup {NoEvent}
    BY DEF Init
  <2>4. entry_len \in 0..15 /\ exit_len \in 0..15
    BY DEF Init
  <2> QED
    BY <2>1, <2>2, <2>3, <2>4, Zenon DEF Init, EventsTypeOK
<1>2. ~entry_info.valid /\ mode = "host"
  BY DEF Init, NoEvent
<1> QED
  BY <1>1, <1>2, Zenon DEF EventInv, EntryFieldsInv, BlockedInterruptArmsWindow

\* Both callers queue a vector that fits in u8.
LEMMA QueuedEvent ==
  ASSUME QueueEvent \/ InjectInterrupt
  PROVE  \E v \in 0..255, err \in ErrCodes : queue_event(v, err)
<1>1. CASE QueueEvent
  BY <1>1, ExceptionsAssumption DEF QueueEvent, ErrCodes
<1>2. CASE InjectInterrupt
  <2>1. ASSUME NEW i \in Irqs PROVE i % 256 \in 0..255
    BY IrqsAssumption, SMT
  <2> QED
    BY <1>2, <2>1 DEF InjectInterrupt, ErrCodes
<1> QED
  BY <1>1, <1>2

\* The caller's steps.
LEMMA QueueStep ==
  ASSUME EventInv, QueueEvent \/ InjectInterrupt
  PROVE  EventInv'
<1>1. PICK v \in 0..255, err \in ErrCodes : queue_event(v, err)
  BY QueuedEvent
<1>2. mode = "host"
  BY DEF QueueEvent, InjectInterrupt
<1>3. EventsTypeOK'
  <2>1. issued' \in 0..MaxEvents /\ issued + 1 \in 1..MaxEvents
    <3>1. issued \in 0..MaxEvents
      BY Zenon DEF EventInv, EventsTypeOK
    <3>2. issued < MaxEvents /\ issued' = issued + 1
      BY <1>1 DEF queue_event
    <3> QED
      BY <3>1, <3>2, MaxEventsAssumption
  <2>2. [id |-> issued + 1, vector |-> v, err |-> err] \in Event
    BY <2>1 DEF Event
  <2>3. pending_events' \in Seq(Event)
    BY <1>1, <2>2, AppendProperties, ZenonT(30) DEF queue_event, PushBack, EventInv,
       EventsTypeOK
  <2> QED
    BY <1>1, <2>1, <2>3, ZenonT(30) DEF queue_event, EventInv, EventsTypeOK
<1>4. EntryFieldsInv'
  BY <1>1, Zenon DEF queue_event, EventInv, EntryFieldsInv, Interruptible
<1>5. BlockedInterruptArmsWindow'
  BY <1>1, <1>2 DEF queue_event, BlockedInterruptArmsWindow
<1> QED
  BY <1>3, <1>4, <1>5 DEF EventInv

\* inject_pending_events.
LEMMA InjectStep ==
  ASSUME EventInv, InjectPendingEvents
  PROVE  EventInv'
<1>1. CASE InjectFront
  <2> DEFINE e == Head(pending_events)
  <2>1. /\ e \in Event /\ Tail(pending_events) \in Seq(Event)
    BY <1>1, HeadTailProperties, ZenonT(30) DEF InjectFront, EventInv, EventsTypeOK
  <2>2. e.vector \in 0..255 /\ e.id \in 1..MaxEvents
    BY <2>1, SMTT(30) DEF Event
  <2>3. /\ entry_info' = [valid |-> TRUE, id |-> e.id, vector |-> e.vector,
                          type |-> from_vector(e.vector), err |-> InjectedErr(e)]
        /\ entry_len' = IF is_soft(from_vector(e.vector)) THEN exit_len ELSE entry_len
        /\ lost' = IF entry_info.valid THEN lost \cup {entry_info.id} ELSE lost
        /\ e.vector < 32 \/ allow_interrupt
        /\ mode = "host" /\ mode' = "entering"
        /\ UNCHANGED <<exit_len, if_flag, blocking, pe, returned, issued, delivered, window>>
        /\ pending_events' = Tail(pending_events)
    BY <1>1 DEF InjectFront, inject_event, StartRun
  <2> HIDE DEF e
  <2>4. entry_info' \in EntryInfo
    BY <2>1, <2>2, <2>3, VectorTypes, InjectedFields, Zenon DEF EntryInfo
  <2>5. EventsTypeOK'
    <3>1. entry_info.valid => entry_info.id \in 1..MaxEvents
      BY ValidFields DEF EventInv
    <3> QED
      BY <2>1, <2>3, <2>4, <3>1, Zenon DEF EventInv, EventsTypeOK
  <2>6. EntryFieldsInv'
    <3>1. e.vector < 32 \/ Interruptible'
      BY <2>3 DEF allow_interrupt, Interruptible
    <3> QED
      BY <2>1, <2>2, <2>3, <3>1, VectorTypes, InjectedFields, Zenon DEF EntryFieldsInv
  <2>7. BlockedInterruptArmsWindow'
    BY <2>3 DEF BlockedInterruptArmsWindow
  <2> QED
    BY <2>5, <2>6, <2>7 DEF EventInv
<1>2. CASE BlockedFront \/ NothingPending
  <2>1. /\ mode = "host" /\ mode' = "entering" /\ window' \in BOOLEAN
        /\ UNCHANGED <<pending_events, entry_info, entry_len, lost, exit_len, if_flag,
                       blocking, pe, returned, issued, delivered>>
        /\ window' \/ pending_events = <<>>
    BY <1>2, Zenon DEF BlockedFront, NothingPending, StartRun, EventInv, EventsTypeOK
  <2>2. EventsTypeOK'
    BY <2>1, Zenon DEF EventInv, EventsTypeOK
  <2>3. EntryFieldsInv'
    BY <2>1, Zenon DEF EventInv, EntryFieldsInv, is_soft
  <2>4. BlockedInterruptArmsWindow'
    BY <2>1 DEF BlockedInterruptArmsWindow
  <2> QED
    BY <2>2, <2>3, <2>4 DEF EventInv
<1> QED
  BY <1>1, <1>2 DEF InjectPendingEvents

\* The VM entry, and an exit in the middle of it.
LEMMA EntryStep ==
  ASSUME EventInv, EnterGuest \/ ExitDuringDelivery
  PROVE  EventInv'
<1>1. CASE VmEntryPanics \/ VmEntryPlain
  <2>1. /\ mode' \in {"panic", "guest"} /\ (mode' = "guest" => ~entry_info.valid)
        /\ UNCHANGED <<pending_events, window, entry_info, entry_len, exit_len, if_flag,
                       blocking, pe, returned, issued, delivered, lost>>
    BY <1>1 DEF VmEntryPanics, VmEntryPlain
  <2> QED
    BY <2>1, ZenonT(30) DEF EventInv, EventsTypeOK, EntryFieldsInv, BlockedInterruptArmsWindow
<1>2. CASE VmEntryFails
  <2>1. entry_info.type = "NMI" /\ blocking \cap NmiBlockers # {}
    BY <1>2, Zenon DEF VmEntryFails, GuestCanTakeEvent, EventInv, EntryFieldsInv
  <2> QED
    BY <1>2, <2>1, Zenon DEF VmEntryFails, EventInv, EventsTypeOK, EntryFieldsInv,
       BlockedInterruptArmsWindow
<1>3. CASE VmEntryDelivers \/ ExitDuringDelivery
  <2>1. entry_info.valid /\ entry_info.id \in 1..MaxEvents
    BY <1>3, ValidFields DEF VmEntryDelivers, ExitDuringDelivery, EventInv
  <2>2. entry_info' = NoEvent /\ mode' \in {"guest", "host"}
    BY <1>3 DEF VmEntryDelivers, ExitDuringDelivery
  <2>3. EventsTypeOK'
    <3>1. CASE VmEntryDelivers
      <4>1. delivered' \in Seq(1..MaxEvents)
        BY <2>1, <3>1, AppendProperties, Zenon DEF VmEntryDelivers, EventInv, EventsTypeOK
      <4>2. blocking' \subseteq {"STI", "MOV_SS", "NMI"}
        BY <3>1, Zenon DEF VmEntryDelivers
      <4>3. /\ entry_info' = NoEvent /\ mode' = "guest" /\ if_flag' = FALSE
            /\ UNCHANGED <<pending_events, window, entry_len, exit_len, pe, returned, issued, lost>>
        BY <3>1 DEF VmEntryDelivers
      <4> QED
        BY <4>1, <4>2, <4>3, Zenon DEF EventInv, EventsTypeOK
    <3>2. CASE ExitDuringDelivery
      BY <2>1, <3>2, Zenon DEF ExitDuringDelivery, EventInv, EventsTypeOK
    <3> QED
      BY <1>3, <3>1, <3>2
  <2> QED
    BY <2>2, <2>3, Zenon DEF EventInv, EntryFieldsInv, BlockedInterruptArmsWindow, NoEvent
<1> QED
  BY <1>1, <1>2, <1>3 DEF EnterGuest

\* The guest's instructions, and its exits.
LEMMA GuestStep ==
  ASSUME EventInv,
         \/ GuestSetsIf \/ GuestMovSs \/ GuestSwitchesMode
         \/ InterruptWindowExit \/ ExternalInterruptExit \/ InstructionExit
  PROVE  EventInv'
<1>1. mode = "guest" /\ mode' \in {"guest", "host"} /\ UNCHANGED entry_info
  BY Zenon DEF GuestSetsIf, GuestMovSs, GuestSwitchesMode, GuestRuns, InterruptWindowExit,
     ExternalInterruptExit, InstructionExit, Exit
<1>2. ~entry_info.valid
  BY <1>1 DEF EventInv, EntryFieldsInv
<1>3. EventsTypeOK'
  <2>1. CASE GuestSetsIf \/ GuestMovSs \/ GuestSwitchesMode
    <3>1. blocking' \subseteq {"STI", "MOV_SS", "NMI"}
      BY <2>1, Zenon DEF GuestSetsIf, GuestMovSs, GuestSwitchesMode, GuestRuns
    <3>2. /\ if_flag' \in BOOLEAN /\ pe' \in BOOLEAN
          /\ UNCHANGED <<pending_events, window, entry_info, entry_len, exit_len, mode,
                         returned, issued, delivered, lost>>
      BY <2>1, Zenon DEF GuestSetsIf, GuestMovSs, GuestSwitchesMode, GuestRuns, EventInv,
         EventsTypeOK
    <3> QED
      BY <3>1, <3>2, Zenon DEF EventInv, EventsTypeOK
  <2>2. CASE InterruptWindowExit \/ ExternalInterruptExit \/ InstructionExit
    <3>1. /\ window' \in BOOLEAN /\ exit_len' \in 0..15 /\ mode' = "host"
          /\ returned' \in {"none", "Nothing", "ExternalInterrupt", "Hypercall", "Halt"}
          /\ UNCHANGED <<pending_events, entry_info, entry_len, if_flag, blocking, pe,
                         issued, delivered, lost>>
      <4>1. window \in BOOLEAN /\ exit_len \in 0..15
        BY Zenon DEF EventInv, EventsTypeOK
      <4>2. CASE InterruptWindowExit
        BY <4>1, <4>2, Zenon DEF InterruptWindowExit, Exit
      <4>3. CASE ExternalInterruptExit
        BY <4>1, <4>3 DEF ExternalInterruptExit, Exit
      <4>4. CASE InstructionExit
        BY <4>1, <4>4 DEF InstructionExit, Exit
      <4> QED
        BY <2>2, <4>2, <4>3, <4>4
    <3> QED
      BY <3>1, Zenon DEF EventInv, EventsTypeOK
  <2> QED
    BY <2>1, <2>2
<1> QED
  BY <1>1, <1>2, <1>3, Zenon DEF EventInv, EntryFieldsInv, BlockedInterruptArmsWindow

LEMMA EventStep == EventInv /\ [Next]_eventVars => EventInv'
<1> SUFFICES ASSUME EventInv, [Next]_eventVars PROVE EventInv'
  OBVIOUS
<1>1. CASE InjectInterruptZero
  BY <1>1, Zenon DEF InjectInterruptZero, EventInv, EventsTypeOK, EntryFieldsInv,
     BlockedInterruptArmsWindow
<1>2. CASE UNCHANGED eventVars
  BY <1>2, ZenonT(60) DEF eventVars, EventInv, EventsTypeOK, EntryFieldsInv,
     BlockedInterruptArmsWindow, Interruptible
<1> QED
  BY <1>1, <1>2, QueueStep, InjectStep, EntryStep, GuestStep DEF Next

\* EventInv holds in every reachable state.
THEOREM EventsCorrect == Spec => []EventInv
BY EventInit, EventStep, PTL DEF Spec

\* The queue, the entry fields and what the guest has been given keep their types.
THEOREM EventTypesCorrect == Spec => []EventsTypeOK
<1>1. EventInv => EventsTypeOK
  BY DEF EventInv
<1> QED
  BY <1>1, EventsCorrect, PTL

\* An entry that fails on the guest's interrupt state fails for an NMI behind MOV SS.
THEOREM OnlyNmiFailsEntry == Spec => []FailEntryOnlyForNmi
<1>1. EventInv => FailEntryOnlyForNmi
  BY Zenon DEF EventInv, EntryFieldsInv, FailEntryOnlyForNmi
<1> QED
  BY <1>1, EventsCorrect, PTL

\* A blocked interrupt never waits without interrupt-window exiting.
THEOREM BlockedAlwaysArms == Spec => []BlockedInterruptArmsWindow
<1>1. EventInv => BlockedInterruptArmsWindow
  BY DEF EventInv
<1> QED
  BY <1>1, EventsCorrect, PTL

\* The three ways an entry instruction fails on the event fields, for every vector.
THEOREM PanicCauses == Spec => []EntryPanicCauses
<1>1. EventInv => EntryPanicCauses
  <2> SUFFICES ASSUME EventInv, mode = "entering", ~EventFieldsValid
               PROVE  \/ entry_info.vector \in 21..31
                      \/ vector_has_error_code(entry_info.vector) /\ ~pe
                      \/ entry_info.vector \in {1, 3, 4} /\ exit_len = 0
    BY DEF EntryPanicCauses
  <2>1. entry_info.valid /\ entry_info.vector \in 0..255
    BY ValidFields DEF EventFieldsValid, EventInv
  <2>2. /\ entry_info.type = from_vector(entry_info.vector)
        /\ entry_info.err # NoErr <=> vector_has_error_code(entry_info.vector)
        /\ is_soft(entry_info.type) => entry_len = exit_len
    BY <2>1 DEF EventInv, EntryFieldsInv
  <2> QED
    BY <2>1, <2>2, VectorTypes DEF EventFieldsValid
<1> QED
  BY <1>1, EventsCorrect, PTL

\* No event is lost without a run that says so.
THEOREM LossAlwaysReported == Spec => LossIsReported
<1>1. ASSUME EventInv, [Next]_eventVars PROVE LosesReporting
  <2>1. CASE InjectFront
    <3>1. entry_info.valid => returned = "FailEntry"
      <4>1. mode = "host"
        BY <2>1 DEF InjectFront, StartRun
      <4>2. EntryFieldsInv
        BY <1>1 DEF EventInv
      <4> QED
        BY <4>1, <4>2, Zenon DEF EntryFieldsInv
    <3> QED
      BY <2>1, <3>1 DEF InjectFront, inject_event, LosesReporting
  <2>2. CASE ExitDuringDelivery
    BY <2>2 DEF ExitDuringDelivery, LosesReporting
  <2>3. ASSUME ~InjectFront, ~ExitDuringDelivery PROVE UNCHANGED lost
    BY <1>1, <2>3, Zenon DEF Next, eventVars, QueueEvent, InjectInterrupt, queue_event,
       InjectInterruptZero, InjectPendingEvents, BlockedFront, NothingPending, EnterGuest,
       VmEntryPanics, VmEntryFails, VmEntryPlain, VmEntryDelivers, GuestSetsIf, GuestMovSs,
       GuestSwitchesMode, GuestRuns, InterruptWindowExit, ExternalInterruptExit,
       InstructionExit, Exit
  <2> QED
    BY <2>1, <2>2, <2>3 DEF LosesReporting
<1> QED
  BY <1>1, EventsCorrect, PTL DEF Spec, LossIsReported

-----------------------------------------------------------------------------
(* The queue is first in, first out. *)

LEMMA IdsOfEvents ==
  ASSUME NEW q \in Seq(Event)
  PROVE  /\ Ids(q) \in Seq(Nat) /\ Len(Ids(q)) = Len(q)
         /\ \A i \in 1..Len(q) : Ids(q)[i] = q[i].id
<1>1. Len(q) \in Nat
  BY LenProperties
<1>2. \A i \in 1..Len(q) : q[i].id \in Nat
  <2>1. \A i \in 1..Len(q) : q[i] \in Event
    BY ElementOfSeq
  <2>2. \A e \in Event : e.id \in Nat
    BY DEF Event
  <2> QED
    BY <2>1, <2>2
<1> QED
  BY <1>1, <1>2 DEF Ids

LEMMA IdsAppend ==
  ASSUME NEW q \in Seq(Event), NEW e \in Event
  PROVE  Ids(Append(q, e)) = Append(Ids(q), e.id)
<1>1. /\ Append(q, e) \in Seq(Event) /\ Len(Append(q, e)) = Len(q) + 1
      /\ \A i \in 1..Len(q) : Append(q, e)[i] = q[i]
      /\ Append(q, e)[Len(q) + 1] = e
  BY AppendProperties
<1>2. e.id \in Nat /\ Len(q) \in Nat
  BY LenProperties DEF Event
<1>3. /\ Append(Ids(q), e.id) \in Seq(Nat) /\ Len(Append(Ids(q), e.id)) = Len(q) + 1
      /\ \A i \in 1..Len(q) : Append(Ids(q), e.id)[i] = q[i].id
      /\ Append(Ids(q), e.id)[Len(q) + 1] = e.id
  BY <1>2, IdsOfEvents, AppendProperties
<1>4. /\ Ids(Append(q, e)) \in Seq(Nat) /\ Len(Ids(Append(q, e))) = Len(q) + 1
      /\ \A i \in 1..Len(q) : Ids(Append(q, e))[i] = q[i].id
      /\ Ids(Append(q, e))[Len(q) + 1] = e.id
  <2> DEFINE a == Append(q, e)
  <2>1. /\ a \in Seq(Event) /\ Len(a) = Len(q) + 1 /\ \A i \in 1..Len(q) : a[i] = q[i]
        /\ a[Len(q) + 1] = e
    BY <1>1
  <2> HIDE DEF a
  <2>2. /\ Ids(a) \in Seq(Nat) /\ Len(Ids(a)) = Len(a)
        /\ \A i \in 1..Len(a) : Ids(a)[i] = a[i].id
    BY <2>1, IdsOfEvents
  <2>3. /\ \A i \in 1..Len(q) : Ids(a)[i] = q[i].id
        /\ Ids(a)[Len(q) + 1] = e.id
    BY <1>2, <2>1, <2>2
  <2> QED
    BY <2>1, <2>2, <2>3 DEF a
<1>5. \A i \in 1..(Len(q) + 1) : Ids(Append(q, e))[i] = Append(Ids(q), e.id)[i]
  BY <1>2, <1>3, <1>4
<1> QED
  BY <1>3, <1>4, <1>5, SeqEqual

\* A sequence with an element put in front.
LEMMA InFront ==
  ASSUME NEW s \in Seq(Nat), NEW x \in Nat
  PROVE  /\ <<x>> \o s \in Seq(Nat) /\ <<x>> \o s # <<>>
         /\ Head(<<x>> \o s) = x /\ Tail(<<x>> \o s) = s
         /\ \A y \in Nat : <<x>> \o Append(s, y) = Append(<<x>> \o s, y)
<1> DEFINE t == <<x>> \o s
<1>1. <<x>> \in Seq(Nat) /\ Len(<<x>>) = 1 /\ <<x>>[1] = x /\ Len(s) \in Nat
  BY LenProperties
<1>2. /\ t \in Seq(Nat) /\ Len(t) = Len(s) + 1 /\ t[1] = x
      /\ \A i \in 1..Len(s) : t[i + 1] = s[i]
  BY <1>1, ConcatProperties
<1>3. t # <<>>
  BY <1>1, <1>2, EmptySeq
<1>4. Head(t) = x
  BY <1>2
<1>5. Tail(t) = s
  <2>1. /\ Tail(t) \in Seq(Nat) /\ Len(Tail(t)) = Len(s)
        /\ \A i \in 1..Len(s) : Tail(t)[i] = t[i + 1]
    BY <1>1, <1>2, <1>3, HeadTailProperties
  <2> QED
    BY <1>2, <2>1, SeqEqual, SMTT(30)
<1>6. ASSUME NEW y \in Nat PROVE <<x>> \o Append(s, y) = Append(t, y)
  <2>1. <<y>> \in Seq(Nat)
    OBVIOUS
  <2>2. Append(s, y) = s \o <<y>> /\ Append(t, y) = t \o <<y>>
    BY <1>2, <2>1, AppendIsConcat
  <2> QED
    BY <1>1, <2>1, <2>2, ConcatAssociative, SMTT(30)
<1> QED
  BY <1>2, <1>3, <1>4, <1>5, <1>6, SMTT(30)

\* The first event of the queue and the rest.
LEMMA IdsHeadTail ==
  ASSUME NEW q \in Seq(Event), q # <<>>
  PROVE  Ids(q) = <<Head(q).id>> \o Ids(Tail(q))
<1>1. /\ Tail(q) \in Seq(Event) /\ Len(Tail(q)) = Len(q) - 1 /\ Head(q) \in Event
      /\ \A i \in 1..Len(Tail(q)) : Tail(q)[i] = q[i + 1]
  BY HeadTailProperties
<1>2. Len(q) \in Nat /\ Len(q) >= 1 /\ Head(q) = q[1] /\ Head(q).id \in Nat
  <2>1. Len(q) \in Nat \ {0}
    BY EmptySeq
  <2>2. Head(q).id \in Nat
    BY <1>1 DEF Event
  <2> QED
    BY <2>1, <2>2
<1> DEFINE t == <<Head(q).id>> \o Ids(Tail(q))
<1>3. <<Head(q).id>> \in Seq(Nat) /\ Len(<<Head(q).id>>) = 1 /\ <<Head(q).id>>[1] = q[1].id
  BY <1>2
<1>4. /\ Ids(Tail(q)) \in Seq(Nat) /\ Len(Ids(Tail(q))) = Len(q) - 1
      /\ \A i \in 1..(Len(q) - 1) : Ids(Tail(q))[i] = q[i + 1].id
  BY <1>1, IdsOfEvents, ZenonT(30)
<1>5. /\ t \in Seq(Nat) /\ Len(t) = Len(q)
      /\ \A i \in 1..Len(q) : t[i] = IF i <= 1 THEN <<Head(q).id>>[i] ELSE Ids(Tail(q))[i - 1]
  BY <1>2, <1>3, <1>4, ConcatProperties
<1>6. \A i \in 1..Len(q) : t[i] = q[i].id
  BY <1>2, <1>3, <1>4, <1>5
<1>7. Ids(q) \in Seq(Nat) /\ Len(Ids(q)) = Len(q) /\ \A i \in 1..Len(q) : Ids(q)[i] = q[i].id
  BY IdsOfEvents
<1> QED
  BY <1>5, <1>6, <1>7, SeqEqual, Zenon

\* Each step of VmxEvents is a step of EventFifo, or changes nothing it sees.
LEMMA FifoStep ==
  ASSUME EventInv, [Next]_eventVars
  PROVE  (Fifo!Put \/ Fifo!Take \/ Fifo!Lose) \/ UNCHANGED Fifo!fifoVars
<1>q. pending_events \in Seq(Event) /\ Ids(pending_events) \in Seq(Nat)
  BY IdsOfEvents, Zenon DEF EventInv, EventsTypeOK
<1>id. entry_info.valid => entry_info.id \in Nat
  BY ValidFields DEF EventInv
<1>n. issued \in Nat
  <2>1. issued \in 0..MaxEvents
    BY Zenon DEF EventInv, EventsTypeOK
  <2> QED
    BY <2>1, MaxEventsAssumption
<1>no. ~NoEvent.valid
  BY DEF NoEvent
<1>none. /\ ~entry_info.valid => Held = Ids(pending_events)
         /\ entry_info.valid => Held = <<entry_info.id>> \o Ids(pending_events)
  BY <1>q, ConcatEmptySeq DEF Held
<1>1. CASE QueueEvent \/ InjectInterrupt
  <2>1. PICK v \in 0..255, err \in ErrCodes : queue_event(v, err)
    BY <1>1, QueuedEvent
  <2> DEFINE e == [id |-> issued + 1, vector |-> v, err |-> err]
  <2>2. e \in Event /\ e.id = issued + 1
    <3>1. issued + 1 \in 1..MaxEvents
      BY <1>n, <2>1, MaxEventsAssumption DEF queue_event
    <3> QED
      BY <3>1 DEF Event
  <2>3. /\ pending_events' = Append(pending_events, e)
        /\ issued' = issued + 1 /\ UNCHANGED <<entry_info, delivered>>
    BY <2>1 DEF queue_event, PushBack
  <2> HIDE DEF e
  <2>4. Ids(pending_events') = Append(Ids(pending_events), issued + 1)
    BY <1>q, <2>2, <2>3, IdsAppend
  <2>5. Ids(pending_events') \in Seq(Nat)
    BY <1>q, <1>n, <2>4, AppendProperties
  <2>6. Held' = Append(Held, issued + 1)
    <3>1. CASE entry_info.valid
      BY <1>q, <1>id, <1>n, <1>none, <2>3, <2>4, <3>1, InFront, SMTT(30) DEF Held
    <3>2. CASE ~entry_info.valid
      BY <1>none, <2>3, <2>4, <2>5, <3>2, ConcatEmptySeq DEF Held
    <3> QED
      BY <3>1, <3>2
  <2>7. Fifo!Put
    BY <2>3, <2>6 DEF Fifo!Put
  <2> QED
    BY <2>7
<1>2. CASE InjectFront
  <2> DEFINE h == Head(pending_events)
             t == Tail(pending_events)
  <2>1. pending_events # <<>> /\ h \in Event /\ t \in Seq(Event)
    BY <1>2, <1>q, HeadTailProperties DEF InjectFront
  <2>2. Ids(pending_events) = <<h.id>> \o Ids(t)
    BY <1>q, <2>1, IdsHeadTail
  <2>3. /\ entry_info'.valid /\ entry_info'.id = h.id /\ pending_events' = t
        /\ UNCHANGED <<issued, delivered>>
    BY <1>2 DEF InjectFront, inject_event, StartRun
  <2>4. Held' = Ids(pending_events)
    BY <2>2, <2>3 DEF Held
  <2>5. CASE entry_info.valid
    <3>1. Held # <<>> /\ Tail(Held) = Ids(pending_events)
      BY <1>q, <1>id, <1>none, <2>5, InFront, SMTT(30)
    <3>2. Fifo!Lose
      BY <2>3, <2>4, <3>1 DEF Fifo!Lose
    <3> QED
      BY <3>2
  <2>6. CASE ~entry_info.valid
    BY <1>none, <2>3, <2>4, <2>6 DEF Fifo!fifoVars
  <2> QED
    BY <2>5, <2>6
<1>3. CASE VmEntryDelivers \/ ExitDuringDelivery
  <2>1. /\ entry_info.valid /\ entry_info' = NoEvent /\ UNCHANGED <<pending_events, issued>>
    BY <1>3 DEF VmEntryDelivers, ExitDuringDelivery
  <2>2. Held # <<>> /\ Head(Held) = entry_info.id /\ Tail(Held) = Ids(pending_events)
    BY <1>q, <1>id, <1>none, <2>1, InFront, SMTT(30)
  <2>3. Held' = Ids(pending_events)
    BY <1>q, <1>no, <2>1, ConcatEmptySeq DEF Held
  <2>4. CASE VmEntryDelivers
    <3>1. delivered' = Append(delivered, entry_info.id)
      BY <2>4 DEF VmEntryDelivers
    <3>2. Fifo!Take
      BY <2>1, <2>2, <2>3, <3>1 DEF Fifo!Take
    <3> QED
      BY <3>2
  <2>5. CASE ExitDuringDelivery
    <3>1. UNCHANGED delivered
      BY <2>5 DEF ExitDuringDelivery
    <3>2. Fifo!Lose
      BY <2>1, <2>2, <2>3, <3>1 DEF Fifo!Lose
    <3> QED
      BY <3>2
  <2> QED
    BY <1>3, <2>4, <2>5
<1>4. ASSUME ~QueueEvent, ~InjectInterrupt, ~InjectFront, ~VmEntryDelivers, ~ExitDuringDelivery
      PROVE  UNCHANGED <<pending_events, entry_info, issued, delivered>>
  BY <1>4, Zenon DEF Next, eventVars, InjectInterruptZero, InjectPendingEvents, BlockedFront,
     NothingPending, StartRun, EnterGuest, VmEntryPanics, VmEntryFails, VmEntryPlain,
     GuestSetsIf, GuestMovSs, GuestSwitchesMode, GuestRuns, InterruptWindowExit,
     ExternalInterruptExit, InstructionExit, Exit
<1>5. UNCHANGED <<pending_events, entry_info, issued, delivered>> => UNCHANGED Fifo!fifoVars
  BY DEF Fifo!fifoVars, Held
<1> QED
  BY <1>1, <1>2, <1>3, <1>4, <1>5

\* VmxEvents implements EventFifo: events leave in the order they were queued, each
\* once, and none that is neither delivered nor counted as lost.
THEOREM ImplementsFifo == Spec => FifoSpec
<1>1. Init => Fifo!Init
  BY ConcatEmptySeq, EmptySeq DEF Init, Fifo!Init, Held, Ids, NoEvent
<1>2. EventInv /\ [Next]_eventVars
        => [Fifo!Put \/ Fifo!Take \/ Fifo!Lose]_(Fifo!fifoVars)
  BY FifoStep
<1> QED
  BY <1>1, <1>2, EventsCorrect, PTL DEF Spec, FifoSpec, Fifo!Spec
=============================================================================
