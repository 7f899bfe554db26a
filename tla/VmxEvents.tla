----------------------------- MODULE VmxEvents -----------------------------
(***************************************************************************)
(* Event injection of one bound VmxVcpu (src/vmx/vcpu.rs, vmcs.rs and      *)
(* definitions.rs): the pending_events queue, interrupt-window exiting and *)
(* the VM-entry event fields, against a guest that masks and unmasks       *)
(* interrupts and a processor that checks what it is asked to inject.      *)
(*                                                                         *)
(* Each queued event carries a number, its position in the order of        *)
(* queue_event calls, that the code does not have: the properties count    *)
(* events by it.                                                           *)
(***************************************************************************)
EXTENDS Integers, Sequences, FiniteSets

CONSTANTS
  Irqs,        \* arguments inject_interrupt is called with
  Exceptions,  \* (vector, err_code) pairs queue_event is called with
  NoErr,       \* err_code = None
  StaleErr,    \* what VMEXIT_INTERRUPTION_ERR_CODE happens to hold
  NmiBlockers, \* the kinds of blocking under which the processor refuses to inject an NMI
  MaxEvents    \* bound on queue_event calls

ASSUME IrqsAssumption == Irqs \subseteq Nat
ASSUME ExceptionsAssumption == Exceptions \subseteq (0..255) \X (0..1 \cup {NoErr})
ASSUME MaxEventsAssumption == MaxEvents \in Nat
\* MOV SS on every processor, STI on some (SDM 26.3.1.5).
ASSUME NmiBlockersAssumption == NmiBlockers \in {{"MOV_SS"}, {"MOV_SS", "STI"}}
ASSUME ErrAssumption == NoErr \notin 0..1 /\ StaleErr \notin 0..1 /\ NoErr # StaleErr

VARIABLES
  pending_events,  \* VmxVcpu.pending_events
  window,          \* INTERRUPT_WINDOW_EXITING
  entry_info,      \* VMENTRY_INTERRUPTION_INFO_FIELD with its error code
  entry_len,       \* VMENTRY_INSTRUCTION_LEN
  exit_len,        \* VMEXIT_INSTRUCTION_LEN
  if_flag,         \* guest RFLAGS.IF
  blocking,        \* guest INTERRUPTIBILITY_STATE: "STI", "MOV_SS", "NMI"
  pe,              \* guest CR0.PE
  mode,            \* "host", "entering" (before the VM entry), "guest", "panic"
  returned,        \* what run last returned
  issued,          \* number of events queued so far
  delivered,       \* numbers of the events the guest took, in order
  lost             \* numbers of the events that will never be delivered

eventVars == <<pending_events, window, entry_info, entry_len, exit_len, if_flag,
               blocking, pe, mode, returned, issued, delivered, lost>>

ErrCodes == 0..1 \cup {NoErr, StaleErr}
Event == [id: 1..MaxEvents, vector: 0..255, err: ErrCodes]
Types == {"External", "NMI", "HardException", "PrivSoftException",
          "SoftException", "Other"}

\* VMENTRY_INTERRUPTION_INFO_FIELD with its valid bit clear.
NoEvent == [valid |-> FALSE]
EntryInfo == [valid: {TRUE}, id: 1..MaxEvents, vector: 0..255, type: Types, err: ErrCodes]

EventsTypeOK ==
  /\ pending_events \in Seq(Event)
  /\ window \in BOOLEAN
  /\ entry_info \in EntryInfo \cup {NoEvent}
  /\ entry_len \in 0..15 /\ exit_len \in 0..15
  /\ if_flag \in BOOLEAN
  /\ blocking \subseteq {"STI", "MOV_SS", "NMI"}
  /\ pe \in BOOLEAN
  /\ mode \in {"host", "entering", "guest", "panic"}
  /\ returned \in {"none", "Nothing", "ExternalInterrupt", "Hypercall", "Halt", "FailEntry"}
  /\ issued \in 0..MaxEvents
  /\ delivered \in Seq(1..MaxEvents)
  /\ lost \subseteq 1..MaxEvents

\* After setup_vmcs_guest: RFLAGS = 2, INTERRUPTIBILITY_STATE = 0, real mode.
Init ==
  /\ pending_events = <<>>
  /\ window = FALSE
  /\ entry_info = NoEvent
  /\ entry_len = 0 /\ exit_len = 0
  /\ if_flag = FALSE
  /\ blocking = {}
  /\ pe = FALSE
  /\ mode = "host"
  /\ returned = "none"
  /\ issued = 0
  /\ delivered = <<>>
  /\ lost = {}

-----------------------------------------------------------------------------
(* VmxInterruptionType *)

vector_has_error_code(vector) == vector \in {8, 10, 11, 12, 13, 14, 17}

\* VIRTUALIZATION_VECTOR is 20 in the x86 crate.
from_vector(vector) ==
  IF vector = 1 THEN "PrivSoftException"
  ELSE IF vector = 2 THEN "NMI"
  ELSE IF vector \in {3, 4} THEN "SoftException"
  ELSE IF vector \in 0..20 THEN "HardException"
  ELSE IF vector \in 32..255 THEN "External"
  ELSE "Other"

is_soft(type) == type \in {"SoftIntr", "SoftException", "PrivSoftException"}

-----------------------------------------------------------------------------
(* The caller queues events between runs. *)

\* Mutant: an event is queued at the front.
PushFront(q, e) == <<e>> \o q

\* pending_events.push_back
PushBack(q, e) == Append(q, e)

\* queue_event
queue_event(vector, err) ==
  /\ issued < MaxEvents
  /\ issued' = issued + 1
  /\ pending_events' =
       PushBack(pending_events, [id |-> issued + 1, vector |-> vector, err |-> err])
  /\ UNCHANGED <<window, entry_info, entry_len, exit_len, if_flag, blocking, pe,
                 mode, returned, delivered, lost>>

QueueEvent ==
  /\ mode = "host"
  /\ \E x \in Exceptions : queue_event(x[1], x[2])

\* Mutant: the vector is not truncated.
InjectWideInterrupt ==
  /\ mode = "host"
  /\ \E vector \in Irqs \ {0} : queue_event(vector, NoErr)

\* inject_interrupt: `vector as u8`, no error code.
InjectInterrupt ==
  /\ mode = "host"
  /\ \E vector \in Irqs \ {0} : queue_event(vector % 256, NoErr)

\* inject_interrupt(0) panics.
InjectInterruptZero ==
  /\ mode = "host"
  /\ 0 \in Irqs
  /\ mode' = "panic"
  /\ UNCHANGED <<pending_events, window, entry_info, entry_len, exit_len, if_flag,
                 blocking, pe, returned, issued, delivered, lost>>

-----------------------------------------------------------------------------
(* inner_run up to the VM entry: inject_pending_events. *)

\* Mutant: only RFLAGS.IF is looked at.
AllowIgnoresBlocking == if_flag

allow_interrupt == if_flag /\ blocking = {}

\* Mutant: every vector gets the error code it was queued with.
ErrCodeUnfiltered(e) == e.err

\* The error code inject_event ends up with.
InjectedErr(e) ==
  IF ~vector_has_error_code(e.vector) THEN NoErr
  ELSE IF e.err = NoErr THEN StaleErr ELSE e.err

\* vmcs::inject_event.  An event left valid by an entry that failed is overwritten.
inject_event(e) ==
  /\ entry_info' = [valid |-> TRUE, id |-> e.id, vector |-> e.vector,
                    type |-> from_vector(e.vector), err |-> InjectedErr(e)]
  /\ entry_len' = IF is_soft(from_vector(e.vector)) THEN exit_len ELSE entry_len
  /\ lost' = IF entry_info.valid THEN lost \cup {entry_info.id} ELSE lost

StartRun ==
  /\ mode = "host"
  /\ mode' = "entering"
  /\ UNCHANGED <<exit_len, if_flag, blocking, pe, returned, issued, delivered>>

InjectFront ==
  /\ StartRun
  /\ pending_events # <<>>
  /\ Head(pending_events).vector < 32 \/ allow_interrupt
  /\ inject_event(Head(pending_events))
  /\ pending_events' = Tail(pending_events)
  /\ UNCHANGED window

\* Mutant: a blocked interrupt waits without interrupt-window exiting.
BlockedWithoutWindow ==
  /\ StartRun
  /\ pending_events # <<>>
  /\ ~(Head(pending_events).vector < 32 \/ allow_interrupt)
  /\ UNCHANGED <<pending_events, window, entry_info, entry_len, lost>>

\* set_interrupt_window(true)
BlockedFront ==
  /\ StartRun
  /\ pending_events # <<>>
  /\ ~(Head(pending_events).vector < 32 \/ allow_interrupt)
  /\ window' = TRUE
  /\ UNCHANGED <<pending_events, entry_info, entry_len, lost>>

NothingPending ==
  /\ StartRun
  /\ pending_events = <<>>
  /\ UNCHANGED <<pending_events, window, entry_info, entry_len, lost>>

-----------------------------------------------------------------------------
(* The VM entry, as the processor performs it (SDM 26.2.1.3, 26.3.1.4). *)

\* Checks on the event fields; failing one is a VMfail.
EventFieldsValid ==
  entry_info.valid =>
    /\ entry_info.type # "Other"
    /\ entry_info.err # NoErr <=>
         entry_info.type = "HardException" /\ pe /\ vector_has_error_code(entry_info.vector)
    /\ is_soft(entry_info.type) => entry_len # 0

\* The guest takes maskable interrupts: blocking by NMI does not hold them back.
Interruptible == if_flag /\ blocking \subseteq {"NMI"}

\* Checks of the event against the guest state; failing one is FailEntry.  With
\* "virtual NMIs" off, blocking by NMI does not keep an NMI from being injected.
GuestCanTakeEvent ==
  entry_info.valid =>
    /\ entry_info.type = "External" => Interruptible
    /\ entry_info.type = "NMI" => blocking \cap NmiBlockers = {}

\* vmx_entry_failed panics.
VmEntryPanics ==
  /\ mode = "entering"
  /\ ~EventFieldsValid
  /\ mode' = "panic"
  /\ UNCHANGED <<pending_events, window, entry_info, entry_len, exit_len, if_flag,
                 blocking, pe, returned, issued, delivered, lost>>

\* Mutant: entry_failure is not looked at, and the exit is one run does not know.
EntryFailureUnchecked ==
  /\ mode = "entering"
  /\ EventFieldsValid /\ ~GuestCanTakeEvent
  /\ mode' = "host"
  /\ returned' = "Halt"
  /\ UNCHANGED <<pending_events, window, entry_info, entry_len, exit_len, if_flag,
                 blocking, pe, issued, delivered, lost>>

\* run returns FailEntry; the event fields keep their valid bit.
VmEntryFails ==
  /\ mode = "entering"
  /\ EventFieldsValid /\ ~GuestCanTakeEvent
  /\ mode' = "host"
  /\ returned' = "FailEntry"
  /\ UNCHANGED <<pending_events, window, entry_info, entry_len, exit_len, if_flag,
                 blocking, pe, issued, delivered, lost>>

VmEntryPlain ==
  /\ mode = "entering"
  /\ ~entry_info.valid
  /\ mode' = "guest"
  /\ UNCHANGED <<pending_events, window, entry_info, entry_len, exit_len, if_flag,
                 blocking, pe, returned, issued, delivered, lost>>

\* The guest takes the event through an interrupt gate, which clears RFLAGS.IF.
\* An injected NMI blocks NMIs, and with NMI exiting on IRET does not unblock them
\* (SDM 25.3, 26.6.1): the bit stays in INTERRUPTIBILITY_STATE.
VmEntryDelivers ==
  /\ mode = "entering"
  /\ entry_info.valid /\ EventFieldsValid /\ GuestCanTakeEvent
  /\ mode' = "guest"
  /\ delivered' = Append(delivered, entry_info.id)
  /\ entry_info' = NoEvent
  /\ if_flag' = FALSE
  /\ blocking' = (blocking \cap {"NMI"})
                   \cup (IF entry_info.type = "NMI" THEN {"NMI"} ELSE {})
  /\ UNCHANGED <<pending_events, window, entry_len, exit_len, pe, returned, issued, lost>>

\* Delivering the event itself causes a VM exit (an EPT violation on the guest's
\* stack or IDT).  IDT_VECTORING_INFO is not read: run returns Halt.
ExitDuringDelivery ==
  /\ mode = "entering"
  /\ entry_info.valid /\ EventFieldsValid /\ GuestCanTakeEvent
  /\ mode' = "host"
  /\ returned' = "Halt"
  /\ lost' = lost \cup {entry_info.id}
  /\ entry_info' = NoEvent
  /\ UNCHANGED <<pending_events, window, entry_len, exit_len, if_flag, blocking, pe,
                 issued, delivered>>

-----------------------------------------------------------------------------
(* The guest runs, until a VM exit. *)

\* The interrupt-window exit comes before the next guest instruction.
WindowOpen == window /\ Interruptible

\* Blocking by STI or MOV SS ends with the next instruction.
GuestRuns(blocks) ==
  /\ mode = "guest"
  /\ ~WindowOpen
  /\ blocking' = (blocking \cap {"NMI"}) \cup blocks
  /\ UNCHANGED <<pending_events, window, entry_info, entry_len, exit_len, mode,
                 returned, issued, delivered, lost>>

\* CLI; STI (blocks one instruction when IF was 0) or IRET (does not).
GuestSetsIf ==
  /\ \/ if_flag' = FALSE /\ GuestRuns({})
     \/ if_flag' = TRUE /\ GuestRuns({})
     \/ if_flag' = TRUE /\ ~if_flag /\ GuestRuns({"STI"})
  /\ UNCHANGED pe

GuestMovSs ==
  /\ GuestRuns({"MOV_SS"})
  /\ UNCHANGED <<if_flag, pe>>

GuestSwitchesMode ==
  /\ GuestRuns({})
  /\ pe' = ~pe
  /\ UNCHANGED if_flag

\* An exit to inner_run that returns r.
Exit(r) ==
  /\ mode = "guest"
  /\ mode' = "host"
  /\ returned' = r
  /\ UNCHANGED <<pending_events, entry_info, entry_len, if_flag, blocking, pe,
                 issued, delivered, lost>>

\* Mutant: interrupt-window exiting stays on.
WindowExitLeavesWindow ==
  /\ WindowOpen
  /\ Exit("Nothing")
  /\ UNCHANGED <<window, exit_len>>

\* builtin_vmexit_handler: set_interrupt_window(false).
InterruptWindowExit ==
  /\ WindowOpen
  /\ Exit("Nothing")
  /\ window' = FALSE
  /\ UNCHANGED exit_len

\* A host interrupt, whatever the guest is doing; the window exit comes first.
ExternalInterruptExit ==
  /\ ~WindowOpen
  /\ Exit("ExternalInterrupt")
  /\ UNCHANGED <<window, exit_len>>

\* An instruction that exits: one emulated here, a hypercall, or one that run
\* does not support.
InstructionExit ==
  /\ ~WindowOpen
  /\ \E r \in {"Nothing", "Hypercall", "Halt"} : Exit(r)
  /\ exit_len' = 3
  /\ UNCHANGED window

InjectPendingEvents == InjectFront \/ BlockedFront \/ NothingPending

EnterGuest == VmEntryPanics \/ VmEntryFails \/ VmEntryPlain \/ VmEntryDelivers

Next ==
  \/ QueueEvent \/ InjectInterrupt \/ InjectInterruptZero
  \/ InjectPendingEvents
  \/ EnterGuest \/ ExitDuringDelivery
  \/ GuestSetsIf \/ GuestMovSs \/ GuestSwitchesMode
  \/ InterruptWindowExit \/ ExternalInterruptExit \/ InstructionExit

Spec == Init /\ [][Next]_eventVars

\* The VMM keeps calling run, the code and the processor keep going, the pending
\* window exit happens, and the host's timer interrupts the guest: nothing is
\* assumed of the guest or of the caller that queues events.
FairSpec ==
  /\ Spec
  /\ WF_eventVars(InjectPendingEvents)
  /\ WF_eventVars(EnterGuest)
  /\ WF_eventVars(InterruptWindowExit)
  /\ WF_eventVars(ExternalInterruptExit)

-----------------------------------------------------------------------------
\* Numbers of the events the code holds, in the order it will let them go.
Ids(events) == [i \in 1..Len(events) |-> events[i].id]

Held == (IF entry_info.valid THEN <<entry_info.id>> ELSE <<>>) \o Ids(pending_events)

\* queue_event, inject_pending_events and the VM entries form a first-in,
\* first-out queue: nothing is reordered, delivered twice or lost silently.
Fifo == INSTANCE EventFifo WITH next <- issued + 1, waiting <- Held, taken <- delivered
FifoSpec == Fifo!Spec

LosesReporting ==
  lost' # lost => (mode' = "host" /\ returned' = "Halt") \/ returned = "FailEntry"

\* An event is lost only together with a run that returned Halt (the exit came
\* while the event was being delivered) or after one that returned FailEntry
\* (the next injection overwrites the event fields).
LossIsReported == [][LosesReporting]_eventVars

\* inject_pending_events never makes a VM entry fail on the guest's interrupt
\* state, but for an NMI behind MOV SS, or behind STI where the processor minds,
\* since it does not look at blocking for a vector below 32.
FailEntryOnlyForNmi ==
  mode = "host" /\ entry_info.valid =>
    entry_info.type = "NMI" /\ blocking \cap NmiBlockers # {}

\* The guest is never entered with an interrupt waiting and neither an event to
\* deliver nor interrupt-window exiting on: the wait is bounded by the guest.
BlockedInterruptArmsWindow ==
  mode = "entering" /\ pending_events # <<>> /\ ~entry_info.valid => window

\* The event fields the code writes make the entry instruction fail in three
\* cases only: a vector in 21..31, an exception with an error code for a guest
\* in real mode, and a software exception before any instruction has exited.
EntryPanicCauses ==
  mode = "entering" /\ ~EventFieldsValid =>
    \/ entry_info.vector \in 21..31
    \/ vector_has_error_code(entry_info.vector) /\ ~pe
    \/ entry_info.vector \in {1, 3, 4} /\ exit_len = 0

\* What the liveness properties assume of the guest.
GuestUnmasks == []<>(mode = "guest" /\ Interruptible)

\* An NMI the guest took leaves blocking by NMI on, and allow_interrupt then refuses
\* the interrupt at the head of the queue at every run.
StuckBehindNmi ==
  "NMI" \in blocking /\ pending_events # <<>> /\ Head(pending_events).vector >= 32

\* If the guest keeps unmasking interrupts, a queued event leaves the queue, whatever
\* order interrupts, exceptions and exits come in, as long as no interrupt waits
\* behind an NMI that was delivered: that one, and all behind it, stay for ever.
EventsLeaveQueue ==
  GuestUnmasks =>
    \A n \in 1..MaxEvents :
      (\E i \in DOMAIN Held : Held[i] = n)
        ~> (\A i \in DOMAIN Held : Held[i] # n) \/ StuckBehindNmi

\* Interrupt-window exiting left on by an interrupt that went out on another exit
\* costs one more exit, not one at every entry.
SpuriousWindowCloses ==
  GuestUnmasks => (window /\ pending_events = <<>> ~> ~window)

\* from_vector, "All other vectors from 0 to 21 are exceptions": an event with
\* such a vector is injected as a hardware exception.
LowVectorsAreExceptions ==
  entry_info.valid /\ entry_info.vector \in (0..21) \ {1, 2, 3, 4} =>
    entry_info.type = "HardException"

\* inject_pending_events, "interrupts are blocked, enable interrupt-window exiting":
\* it turns interrupt-window exiting on only when the guest cannot take an
\* interrupt.
WindowOnlyWhenBlocked == [][BlockedFront => ~Interruptible]_eventVars
=============================================================================
