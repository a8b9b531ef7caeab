----------------------------- MODULE RingLayout ------------------------------
(***************************************************************************)
(* The shape of the shared memory of a media ring                          *)
(* (src/wireless/data_plane.rs): what RingPair::create computes from a     *)
(* slot count and a payload capacity, and what validate_header accepts.    *)
(* usize has 64 bits; no sum or product of two u32 overflows it.           *)
(***************************************************************************)
EXTENDS Integers

CONSTANT WordSize  \* 2^32, the number of values of a u32

ASSUME WordAssumption == WordSize \in Nat /\ WordSize > 256

CacheLine == 64
HeaderBytes == 256     \* size_of::<RingHeader>()
DescriptorBytes == 64  \* size_of::<FrameDescriptor>()

\* `v as u32`.
AsU32(v) == v % WordSize

\* align_up, for an alignment that is a power of two.
AlignUp(v, alignment) == ((v + alignment - 1) \div alignment) * alignment

SlotStride(capacity) == AlignUp(DescriptorBytes + capacity, CacheLine)

MapLen(slots, capacity) == HeaderBytes + SlotStride(capacity) * slots

\* The ensure!s of RingPair::create.
Creates(slots, capacity) ==
  slots >= 2 /\ capacity > 0 /\ SlotStride(capacity) < WordSize

\* The header it writes.
Header(slots, capacity) ==
  [header_bytes |-> HeaderBytes, slot_count |-> slots,
   slot_stride |-> AsU32(SlotStride(capacity)), payload_capacity |-> capacity]

\* validate_header: magic and ABI version are those of this build.
HeaderValid(header, len) ==
  /\ header.header_bytes = HeaderBytes
  /\ header.slot_count >= 2
  /\ header.slot_stride % CacheLine = 0
  /\ HeaderBytes + header.slot_stride * header.slot_count = len

\* Mapping::slot: the offset of the slot of a cursor.
SlotOffset(header, index) ==
  HeaderBytes + (index % header.slot_count) * header.slot_stride

\* The bytes of the descriptor and the payload of the slot of a cursor.
SlotEnd(header, index) ==
  SlotOffset(header, index) + DescriptorBytes + header.payload_capacity

\* A ring whose two cursors cannot touch each other's bytes: every slot is
\* aligned, lies inside the mapping and past the header, and the slots of any
\* two cursors are the same or disjoint.
LayoutSound(header, len, cursors) ==
  \A i \in cursors :
    /\ SlotOffset(header, i) % CacheLine = 0
    /\ SlotOffset(header, i) >= HeaderBytes
    /\ SlotEnd(header, i) <= len
    /\ \A j \in cursors :
         i % header.slot_count < j % header.slot_count =>
           SlotEnd(header, i) <= SlotOffset(header, j)
=============================================================================
