------------------------------ MODULE MediaRing ------------------------------
(***************************************************************************)
(* The shared-memory media ring of src/wireless/data_plane.rs: one         *)
(* producer and one consumer, usually in two processes, over one memfd     *)
(* (slots and cursors) and one eventfd (wakeups).                          *)
(*                                                                         *)
(* Every access to shared memory that the other side can observe is a step *)
(* of its own.  A slot is written in two steps per field, so a reader that *)
(* looks too early finds Torn bytes.  Cursors are u64 and wrap; a slot is  *)
(* chosen by the cursor cut down to usize and reduced modulo slot_count.   *)
(* A frame stands for a descriptor together with the payload it describes. *)
(***************************************************************************)
EXTENDS Integers, Sequences, FiniteSets

CONSTANTS Frames,        \* frames the application publishes
          Torn,          \* zeroed memory, or a field that is being written
          SlotCount,     \* RingHeader.slot_count
          CursorModulus, \* 2^64: head, tail and dropped are AtomicU64
          IndexModulus,  \* 2^32 or 2^64: "index as usize" in Mapping::slot
          EventMax       \* the value at which an eventfd write would block

ASSUME RingAssumption ==
  /\ SlotCount \in Nat /\ SlotCount >= 2
  /\ CursorModulus \in Nat /\ SlotCount < CursorModulus
  /\ IndexModulus \in Nat \ {0}
  /\ EventMax \in Nat \ {0}
  /\ Torn \notin Frames

\* Cursor arithmetic wraps on a slot boundary.  RingPair::create accepts every
\* slot_count >= 2, but a count that is not a power of two would make slot 0
\* follow a slot other than the last one when a cursor wraps.  The callers in
\* src/ use 2, 8 and 16.
ASSUME WrapAssumption ==
  /\ IndexModulus % SlotCount = 0
  /\ CursorModulus % IndexModulus = 0

VARIABLES
  slots,      \* slot index -> [descriptor, payload]
  head,       \* next cursor to publish; written by the producer only
  tail,       \* oldest cursor not given back; written by the consumer only
  dropped,    \* reservations refused because the ring was full
  pstate,     \* where the producer is in try_reserve .. commit
  pframe,     \* the frame the producer is publishing
  cstate,     \* where the consumer is in try_acquire, its lease or its wait
  cframe,     \* the descriptor the current lease copied out of the slot
  event,      \* the eventfd counter
  edge,       \* epoll holds an event that the runtime has not collected
  ready,      \* the runtime's readiness flag for the eventfd
  guardFresh  \* no event was collected since readable() returned its guard

producerVars == <<pstate, pframe>>
consumerVars == <<cstate, cframe>>
wakeVars == <<event, edge, ready, guardFresh>>
vars == <<slots, head, tail, dropped, producerVars, consumerVars, wakeVars>>

Cursors == 0 .. CursorModulus - 1
Slots == 0 .. SlotCount - 1
Fields == Frames \cup {Torn}

WrappingAdd(c) == (c + 1) % CursorModulus
WrappingSub(c, d) == (c - d) % CursorModulus

Slot(index) == (index % IndexModulus) % SlotCount

\* Frames published and not given back: queued_frames, and the test of
\* try_reserve.  A frame under lease is one of them.
Queued == WrappingSub(head, tail)

\* The slot of the i-th published frame, counted from the oldest.
SlotAt(t, i) == Slot((t + i) % CursorModulus)

Init ==
  /\ slots = [s \in Slots |-> [descriptor |-> Torn, payload |-> Torn]]
  /\ head = 0
  /\ tail = 0
  /\ dropped = 0
  /\ pstate = "idle"
  /\ pframe = Torn
  /\ cstate = "idle"
  /\ cframe = Torn
  /\ event = 0
  /\ edge = FALSE
  /\ ready = FALSE
  /\ guardFresh = FALSE

-----------------------------------------------------------------------------
(* The producer: Producer::try_reserve, ProducerLease::commit.             *)

\* Seeded fault: off by one, a full ring is written to.
TryReserveOffByOne(f) ==
  /\ pstate = "idle"
  /\ Queued <= SlotCount
  /\ pstate' = "reserved"
  /\ pframe' = f
  /\ UNCHANGED <<slots, head, tail, dropped, consumerVars, wakeVars>>

TryReserve(f) ==
  /\ pstate = "idle"
  /\ Queued < SlotCount
  /\ pstate' = "reserved"
  /\ pframe' = f
  /\ UNCHANGED <<slots, head, tail, dropped, consumerVars, wakeVars>>

TryReserveFull ==
  /\ pstate = "idle"
  /\ Queued >= SlotCount
  /\ dropped' = WrappingAdd(dropped)
  /\ UNCHANGED <<slots, head, tail, producerVars, consumerVars, wakeVars>>

\* One step of filling the reserved slot: `field` becomes `value`.
WriteField(from, to, field, value) ==
  /\ pstate = from
  /\ pstate' = to
  /\ slots' = [slots EXCEPT ![Slot(head)][field] = value]
  /\ UNCHANGED <<head, tail, dropped, pframe, consumerVars, wakeVars>>

PayloadMutBegin == WriteField("reserved", "filling", "payload", Torn)
PayloadMutEnd == WriteField("filling", "filled", "payload", pframe)
WriteDescriptorBegin == WriteField("filled", "describing", "descriptor", Torn)
WriteDescriptorEnd == WriteField("describing", "described", "descriptor", pframe)

\* The lease is dropped uncommitted: read_exact failed or was cancelled, the
\* caller returned early, or a length check refused the frame.
DropReservation ==
  /\ pstate \in {"reserved", "filling", "filled"}
  /\ pstate' = "idle"
  /\ pframe' = Torn
  /\ UNCHANGED <<slots, head, tail, dropped, consumerVars, wakeVars>>

\* Seeded fault: head moves before the descriptor is written.
PublishUndescribed ==
  /\ pstate = "filled"
  /\ pstate' = "published"
  /\ head' = WrappingAdd(head)
  /\ UNCHANGED <<slots, tail, dropped, pframe, consumerVars, wakeVars>>

Publish ==
  /\ pstate = "described"
  /\ pstate' = "published"
  /\ head' = WrappingAdd(head)
  /\ UNCHANGED <<slots, tail, dropped, pframe, consumerVars, wakeVars>>

\* A saturated eventfd would block, which signal_eventfd treats as success.  The
\* other errors of write, after which commit reports the failure of a frame that
\* is published, need a descriptor that is no eventfd and are left out.
SignalEventfd ==
  /\ pstate = "published"
  /\ pstate' = "idle"
  /\ pframe' = Torn
  /\ IF event < EventMax
       THEN event' = event + 1 /\ edge' = (cstate # "descriptor")
       ELSE UNCHANGED <<event, edge>>
  /\ UNCHANGED <<slots, head, tail, dropped, consumerVars, ready, guardFresh>>

-----------------------------------------------------------------------------
(* The consumer: Consumer::try_acquire, FrameLease, wait_readable.         *)

\* A descriptor that fails its checks is an error and keeps its slot.
TryAcquire ==
  /\ cstate = "idle"
  /\ tail # head
  /\ cframe' = slots[Slot(tail)].descriptor
  /\ cstate' = IF cframe' \in Frames THEN "leased" ELSE "corrupt"
  /\ UNCHANGED <<slots, head, tail, dropped, producerVars, wakeVars>>

\* Nothing to acquire; a pump then enters wait_readable, a PipeWire process
\* callback simply returns (a stuttering step).
TryAcquireEmpty ==
  /\ cstate = "idle"
  /\ tail = head
  /\ cstate' = "await"
  /\ UNCHANGED <<slots, head, tail, dropped, producerVars, cframe, wakeVars>>

\* Seeded fault: giving a frame back discards the ones behind it.
DropLeaseSkipsToNewest ==
  /\ cstate = "leased"
  /\ cstate' = "idle"
  /\ cframe' = Torn
  /\ tail' = head
  /\ UNCHANGED <<slots, head, dropped, producerVars, wakeVars>>

DropLease ==
  /\ cstate = "leased"
  /\ cstate' = "idle"
  /\ cframe' = Torn
  /\ tail' = WrappingAdd(tail)
  /\ UNCHANGED <<slots, head, dropped, producerVars, wakeVars>>

Readable ==
  /\ cstate = "await"
  /\ ready
  /\ cstate' = "read"
  /\ guardFresh' = TRUE
  /\ UNCHANGED <<slots, head, tail, dropped, producerVars, cframe, event, edge, ready>>

\* Seeded fault: the wait goes on after the wakeup was taken.
ReadEventfdKeepsWaiting ==
  /\ cstate = "read"
  /\ event > 0
  /\ event' = 0
  /\ cstate' = "await"
  /\ UNCHANGED <<slots, head, tail, dropped, producerVars, cframe, edge, ready, guardFresh>>

\* read takes the count.  As for write, errors other than WouldBlock are left out,
\* and so is readable() failing when the runtime shuts down.
ReadEventfd ==
  /\ cstate = "read"
  /\ event > 0
  /\ event' = 0
  /\ cstate' = "idle"
  /\ UNCHANGED <<slots, head, tail, dropped, producerVars, cframe, edge, ready, guardFresh>>

ReadWouldBlock ==
  /\ cstate = "read"
  /\ event = 0
  /\ cstate' = "clear"
  /\ UNCHANGED <<slots, head, tail, dropped, producerVars, cframe, wakeVars>>

\* Seeded fault: readiness is cleared whatever arrived in between.
ClearReadyAlways ==
  /\ cstate = "clear"
  /\ cstate' = "await"
  /\ ready' = FALSE
  /\ UNCHANGED <<slots, head, tail, dropped, producerVars, cframe, event, edge, guardFresh>>

\* clear_ready leaves the flag set if an event was collected in between.
ClearReady ==
  /\ cstate = "clear"
  /\ cstate' = "await"
  /\ ready' = (ready /\ ~guardFresh)
  /\ UNCHANGED <<slots, head, tail, dropped, producerVars, cframe, event, edge, guardFresh>>

\* The future of wait_readable is dropped at its only await.
CancelWait ==
  /\ cstate = "await"
  /\ cstate' = "idle"
  /\ UNCHANGED <<slots, head, tail, dropped, producerVars, cframe, wakeVars>>

-----------------------------------------------------------------------------
(* The async runtime's I/O driver, and moving an endpoint to another       *)
(* process: an endpoint keeps nothing outside the shared memory, except    *)
(* that the consumer's eventfd is registered anew.                         *)

DriverCollect ==
  /\ edge
  /\ edge' = FALSE
  /\ ready' = TRUE
  /\ guardFresh' = FALSE
  /\ UNCHANGED <<slots, head, tail, dropped, producerVars, consumerVars, event>>

ProducerIntoDescriptor ==
  /\ pstate = "idle"
  /\ pstate' = "descriptor"
  /\ UNCHANGED <<slots, head, tail, dropped, pframe, consumerVars, wakeVars>>

ProducerFromDescriptor ==
  /\ pstate = "descriptor"
  /\ pstate' = "idle"
  /\ UNCHANGED <<slots, head, tail, dropped, pframe, consumerVars, wakeVars>>

ConsumerIntoDescriptor ==
  /\ cstate = "idle"
  /\ cstate' = "descriptor"
  /\ edge' = FALSE
  /\ ready' = FALSE
  /\ UNCHANGED <<slots, head, tail, dropped, producerVars, cframe, event, guardFresh>>

\* Seeded fault: registering the eventfd overlooks what it already holds.
ConsumerFromDescriptorSilent ==
  /\ cstate = "descriptor"
  /\ cstate' = "idle"
  /\ edge' = FALSE
  /\ UNCHANGED <<slots, head, tail, dropped, producerVars, cframe, event, ready, guardFresh>>

ConsumerFromDescriptor ==
  /\ cstate = "descriptor"
  /\ cstate' = "idle"
  /\ edge' = (event > 0)
  /\ UNCHANGED <<slots, head, tail, dropped, producerVars, cframe, event, ready, guardFresh>>

-----------------------------------------------------------------------------
Producer ==
  \/ \E f \in Frames : TryReserve(f)
  \/ TryReserveFull
  \/ PayloadMutBegin \/ PayloadMutEnd
  \/ WriteDescriptorBegin \/ WriteDescriptorEnd
  \/ DropReservation
  \/ Publish
  \/ SignalEventfd
  \/ ProducerIntoDescriptor \/ ProducerFromDescriptor

Consumer ==
  \/ TryAcquire \/ TryAcquireEmpty \/ DropLease
  \/ Readable \/ ReadEventfd \/ ReadWouldBlock \/ ClearReady
  \/ CancelWait
  \/ ConsumerIntoDescriptor \/ ConsumerFromDescriptor

Next == Producer \/ Consumer \/ DriverCollect

Spec == Init /\ [][Next]_vars

\* Both sides keep running once they are inside an operation, the consumer
\* drops its leases, and whoever owns the consumer polls it time and again.
\* Nothing obliges the producer to publish or an endpoint to move.
Fairness ==
  /\ WF_vars(SignalEventfd)
  /\ WF_vars(DriverCollect)
  /\ SF_vars(TryAcquire)
  /\ WF_vars(DropLease)
  /\ WF_vars(Readable)
  /\ WF_vars(ReadEventfd \/ ReadWouldBlock \/ ClearReady)
  /\ WF_vars(ConsumerFromDescriptor)

FairSpec == Spec /\ Fairness

-----------------------------------------------------------------------------
(* Properties.                                                             *)

TypeOK ==
  /\ slots \in [Slots -> [descriptor : Fields, payload : Fields]]
  /\ head \in Cursors
  /\ tail \in Cursors
  /\ dropped \in Cursors
  /\ pstate \in {"idle", "reserved", "filling", "filled", "describing",
                 "described", "published", "descriptor"}
  /\ pframe \in Fields
  /\ cstate \in {"idle", "leased", "corrupt", "await", "read", "clear",
                 "descriptor"}
  /\ cframe \in Fields
  /\ event \in 0 .. EventMax
  /\ edge \in BOOLEAN
  /\ ready \in BOOLEAN
  /\ guardFresh \in BOOLEAN

Writing == pstate \in {"reserved", "filling", "filled", "describing", "described"}

\* The SAFETY comments of payload_mut and commit: from try_reserve until the
\* head store, the producer's slot holds no published frame, so that neither
\* a queued frame nor one under lease is overwritten.
SlotExclusive ==
  Writing => \A i \in 0 .. Queued - 1 :
               SlotAt(tail, i) # Slot(head)

\* try_acquire and FrameLease::payload: the descriptor a lease copied is
\* intact, and for as long as the lease lives the bytes it borrows are the
\* payload published with that very descriptor.
LeaseIntact ==
  /\ cstate # "corrupt"
  /\ cstate = "leased" =>
       slots[Slot(tail)] = [descriptor |-> cframe, payload |-> cframe]

\* commit stores head before it signals, wait_readable follows a failed
\* try_acquire: a consumer that waits while a frame is queued has a wakeup
\* pending, or the producer is about to send one.
NoLostWakeup ==
  (cstate \in {"await", "read", "clear"} /\ head # tail) =>
    (event > 0 \/ pstate = "published")

\* The runtime's side of the same promise: a counted wakeup is noticed.  A
\* non-zero eventfd of a registered consumer is announced by an uncollected
\* event, by the readiness flag, or by both.
WakeupAnnounced ==
  (event > 0 /\ cstate # "descriptor") => (edge \/ ready)

\* wait_readable and try_acquire together: the oldest published frame is
\* always consumed, through any number of waits, cancelled waits, spurious
\* wakeups, saturated signals, and moves of either endpoint.
OldestFrameConsumed ==
  \A c \in Cursors : (tail = c /\ head # tail) ~> (tail # c)

\* The frames between tail and head, oldest first.
QueuedFrames ==
  [i \in 1 .. Queued |-> slots[SlotAt(tail, i - 1)].payload]

Queue == INSTANCE FrameQueue WITH
           Capacity <- SlotCount,
           CountModulus <- CursorModulus,
           queue <- QueuedFrames,
           lent <- (cstate = "leased")

\* The ring implements the bounded queue: frames leave in the order and with
\* the contents they were committed with, none twice, none lost, a retained
\* lease holds its place, and dropped counts exactly the refusals at a full
\* ring.
ImplementsQueue == Queue!Spec
=============================================================================
