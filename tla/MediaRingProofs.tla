--------------------------- MODULE MediaRingProofs ---------------------------
EXTENDS MediaRing, SequenceTheorems, TLAPS

\* Division with remainder, as one existential fact.
LEMMA DivMod ==
  ASSUME NEW a \in Nat, NEW n \in Nat \ {0}
  PROVE  \E q \in Nat, r \in 0 .. n - 1 : a = q * n + r /\ a % n = r
<1>1. a % n \in 0 .. n - 1
  BY SMT
<1>2. a \div n \in Nat /\ a = (a \div n) * n + (a % n)
  BY SMT
<1>. QED  BY <1>1, <1>2

\* Quotient and remainder are unique.
LEMMA ModUnique ==
  ASSUME NEW n \in Nat \ {0}, NEW q \in Nat, NEW r \in 0 .. n - 1,
         NEW a \in Nat, a = q * n + r
  PROVE  a % n = r
BY SMT

\* Adding a multiple of the divisor does not change the remainder.
LEMMA ModOfMultiple ==
  ASSUME NEW a \in Nat, NEW n \in Nat \ {0}, NEW k \in Nat
  PROVE  (a + k * n) % n = a % n
<1>1. PICK q \in Nat, r \in 0 .. n - 1 : a = q * n + r /\ a % n = r
  BY DivMod
<1>2. PICK b \in Nat, p \in Nat : b = a + k * n /\ p = q + k
  BY SMT
<1>3. b = p * n + r
  BY <1>1, <1>2, SMT
<1>4. b % n = r
  BY <1>3, ModUnique
<1>. QED  BY <1>1, <1>2, <1>4

\* Numbers less than a divisor apart have different remainders.
LEMMA ModDistinct ==
  ASSUME NEW a \in Nat, NEW n \in Nat \ {0}, NEW d \in 1 .. n - 1
  PROVE  (a + d) % n # a % n
<1>1. PICK q \in Nat, r \in 0 .. n - 1 : a = q * n + r /\ a % n = r
  BY DivMod
<1>2. PICK b \in Nat, p \in Nat : b = a + d /\ p = q + 1
  OBVIOUS
<1>3. CASE r + d < n
  <2>1. PICK t \in 0 .. n - 1 : t = r + d
    BY <1>3
  <2>2. b = q * n + t
    BY <1>1, <1>2, <2>1, SMT
  <2>3. b % n = t
    BY <2>2, ModUnique
  <2>. QED  BY <1>1, <1>2, <2>1, <2>3
<1>4. CASE r + d >= n
  <2>1. PICK t \in 0 .. n - 1 : t = r + d - n
    BY <1>4
  <2>2. b = p * n + t
    BY <1>1, <1>2, <2>1, SMT
  <2>3. b % n = t
    BY <2>2, ModUnique
  <2>. QED  BY <1>1, <1>2, <2>1, <2>3
<1>. QED  BY <1>3, <1>4

\* Reducing by a multiple of the slot count first does not change the slot.
LEMMA ModMod ==
  ASSUME NEW a \in Nat, NEW m \in Nat \ {0}, NEW n \in Nat \ {0}, m % n = 0
  PROVE  (a % m) % n = a % n
<1>1. PICK k \in Nat : m = k * n
  <2>1. PICK q \in Nat, r \in 0 .. n - 1 : m = q * n + r /\ m % n = r
    BY DivMod
  <2>2. m = q * n
    BY <2>1, SMT
  <2>. QED  BY <2>2
<1>2. PICK q \in Nat, r \in 0 .. m - 1 : a = q * m + r /\ a % m = r
  BY DivMod
<1>3. r \in Nat /\ q * k \in Nat
  BY SMT
<1>4. a = r + (q * k) * n
  BY <1>1, <1>2, SMT
<1>5. a % n = r % n
  BY <1>3, <1>4, ModOfMultiple, Zenon
<1>. QED  BY <1>2, <1>5

\* Whatever the wrap, consecutive cursors walk the slots in a cycle.
LEMMA SlotOfCursor ==
  ASSUME NEW a \in Nat
  PROVE  /\ Slot(a % CursorModulus) = a % SlotCount
         /\ Slot(a % CursorModulus) \in Slots
<1>0. /\ SlotCount \in Nat \ {0} /\ IndexModulus \in Nat \ {0}
      /\ CursorModulus \in Nat \ {0}
      /\ IndexModulus % SlotCount = 0 /\ CursorModulus % IndexModulus = 0
  BY RingAssumption, WrapAssumption
<1>1. (a % CursorModulus) % IndexModulus = a % IndexModulus
  BY <1>0, ModMod, Zenon
<1>2. (a % IndexModulus) % SlotCount = a % SlotCount
  BY <1>0, ModMod, Zenon
<1>3. a % SlotCount \in Slots
  BY DivMod, RingAssumption DEF Slots
<1>. QED  BY <1>1, <1>2, <1>3 DEF Slot

\* Two published frames, or a published and a reserved one, never share a slot.
LEMMA SlotsDistinct ==
  ASSUME NEW c \in Cursors, NEW i \in 0 .. SlotCount - 1,
         NEW j \in 0 .. SlotCount - 1, i # j
  PROVE  SlotAt(c, i) # SlotAt(c, j)
<1>1. c \in Nat /\ c + i \in Nat /\ c + j \in Nat /\ SlotCount \in Nat \ {0}
  BY RingAssumption DEF Cursors
<1>2. /\ SlotAt(c, i) = (c + i) % SlotCount
      /\ SlotAt(c, j) = (c + j) % SlotCount
  BY <1>1, SlotOfCursor DEF SlotAt
<1>3. CASE i < j
  <2>1. (c + i) + (j - i) = c + j /\ j - i \in 1 .. SlotCount - 1
    BY <1>1, <1>3
  <2>. QED  BY <1>1, <1>2, <2>1, ModDistinct
<1>4. CASE j < i
  <2>1. (c + j) + (i - j) = c + i /\ i - j \in 1 .. SlotCount - 1
    BY <1>1, <1>4
  <2>. QED  BY <1>1, <1>2, <2>1, ModDistinct
<1>. QED  BY <1>3, <1>4

\* Wrapping arithmetic on cursors, case by case.
LEMMA WrapCases ==
  /\ \A a \in Nat : a < CursorModulus => a % CursorModulus = a
  /\ \A a \in Nat : (CursorModulus <= a /\ a < 2 * CursorModulus)
                      => a % CursorModulus = a - CursorModulus
<1>. DEFINE M == CursorModulus
<1>0. M \in Nat \ {0}
  BY RingAssumption
<1>. HIDE DEF M
<1>1. ASSUME NEW a \in Nat, a < M  PROVE a % M = a
  BY <1>0, <1>1
<1>2. ASSUME NEW a \in Nat, M <= a, a < 2 * M  PROVE a % M = a - M
  <2>1. PICK t \in 0 .. M - 1 : t = a - M
    BY <1>0, <1>2
  <2>2. a = 1 * M + t
    BY <1>0, <2>1
  <2>. QED  BY <1>0, <2>1, <2>2, ModUnique
<1>. QED  BY <1>1, <1>2 DEF M

\* wrapping_sub of two cursors, with and without a borrow.
LEMMA WrappingSubCases ==
  ASSUME NEW c \in Cursors, NEW d \in Cursors
  PROVE  WrappingSub(c, d) = IF d <= c THEN c - d ELSE c - d + CursorModulus
<1>. DEFINE M == CursorModulus
<1>0. M \in Nat \ {0} /\ c \in 0 .. M - 1 /\ d \in 0 .. M - 1
  BY RingAssumption DEF Cursors
<1>1. WrappingSub(c, d) = (c - d) % M
  BY DEF WrappingSub
<1>. HIDE DEF M
<1>2. (c - d) % M = IF d <= c THEN c - d ELSE c - d + M
  BY <1>0, SMT
<1>. QED  BY <1>1, <1>2 DEF M

\* What the cursor moves of commit and of a dropped lease do to the distance.
LEMMA CursorMoves ==
  ASSUME NEW h \in Cursors, NEW t \in Cursors
  PROVE  /\ WrappingSub(h, t) \in Cursors
         /\ WrappingAdd(h) \in Cursors
         /\ (t + WrappingSub(h, t)) % CursorModulus = h
         /\ WrappingSub(h, t) = 0 <=> h = t
         /\ WrappingSub(h, t) < SlotCount
              => WrappingSub(WrappingAdd(h), t) = WrappingSub(h, t) + 1
         /\ h # t => WrappingSub(h, WrappingAdd(t)) = WrappingSub(h, t) - 1
<1>0. /\ CursorModulus \in Nat /\ SlotCount \in Nat /\ SlotCount < CursorModulus
      /\ h \in 0 .. CursorModulus - 1 /\ t \in 0 .. CursorModulus - 1
  BY RingAssumption DEF Cursors
<1>1. WrappingAdd(h) = IF h + 1 = CursorModulus THEN 0 ELSE h + 1
  BY <1>0, WrapCases DEF WrappingAdd
<1>2. WrappingAdd(t) = IF t + 1 = CursorModulus THEN 0 ELSE t + 1
  BY <1>0, WrapCases DEF WrappingAdd
<1>3. WrappingAdd(h) \in Cursors /\ WrappingAdd(t) \in Cursors
  BY <1>0, <1>1, <1>2 DEF Cursors
<1>4. WrappingSub(h, t) = IF t <= h THEN h - t ELSE h - t + CursorModulus
  BY WrappingSubCases
<1>5. WrappingSub(WrappingAdd(h), t) =
        IF t <= WrappingAdd(h) THEN WrappingAdd(h) - t
                               ELSE WrappingAdd(h) - t + CursorModulus
  BY <1>3, WrappingSubCases
<1>6. WrappingSub(h, WrappingAdd(t)) =
        IF WrappingAdd(t) <= h THEN h - WrappingAdd(t)
                               ELSE h - WrappingAdd(t) + CursorModulus
  BY <1>3, WrappingSubCases
<1>7. (t + WrappingSub(h, t)) % CursorModulus = h
  BY <1>0, <1>4, WrapCases
<1>. QED  BY <1>0, <1>1, <1>2, <1>3, <1>4, <1>5, <1>6, <1>7 DEF Cursors

\* Moving tail by one renumbers the slots of the frames that stay.
LEMMA SlotAtNext ==
  ASSUME NEW t \in Cursors, NEW i \in 0 .. SlotCount - 1
  PROVE  SlotAt(WrappingAdd(t), i) = SlotAt(t, i + 1)
<1>0. /\ CursorModulus \in Nat /\ SlotCount \in Nat /\ SlotCount < CursorModulus
      /\ t \in 0 .. CursorModulus - 1
  BY RingAssumption DEF Cursors
<1>1. WrappingAdd(t) = IF t + 1 = CursorModulus THEN 0 ELSE t + 1
  BY <1>0, WrapCases DEF WrappingAdd
<1>2. (WrappingAdd(t) + i) % CursorModulus = (t + (i + 1)) % CursorModulus
  BY <1>0, <1>1, WrapCases
<1>. QED  BY <1>2 DEF SlotAt
-----------------------------------------------------------------------------
(* The inductive invariant.                                                *)

\* The ring never holds more than SlotCount frames, a reservation still has
\* room, and a lease is a lease on a published frame.
Occupancy ==
  /\ Queued <= SlotCount
  /\ Writing => Queued < SlotCount
  /\ cstate = "leased" => head # tail

\* A frame as commit leaves it in a slot.
Whole(slot, f) == f \in Frames /\ slot = [descriptor |-> f, payload |-> f]

PublishedWhole ==
  \A i \in 0 .. Queued - 1 : \E f \in Frames : Whole(slots[SlotAt(tail, i)], f)

\* How far the producer has come with the slot it reserved.
SlotProgress ==
  /\ pstate \in {"reserved", "filling", "filled", "describing", "described"}
       => pframe \in Frames
  /\ pstate \in {"filled", "describing", "described"}
       => slots[Slot(head)].payload = pframe
  /\ pstate = "described" => slots[Slot(head)].descriptor = pframe

\* A wakeup counted while clear_ready is under way survives it.
ClearingSafe ==
  (cstate = "clear" /\ event > 0) => (edge \/ (ready /\ ~guardFresh))

IInv ==
  /\ TypeOK
  /\ Occupancy
  /\ PublishedWhole
  /\ SlotProgress
  /\ LeaseIntact
  /\ NoLostWakeup
  /\ WakeupAnnounced
  /\ ClearingSafe

\* What every proof below needs about the cursors of a typed state.
LEMMA CursorFacts ==
  ASSUME head \in Cursors, tail \in Cursors
  PROVE  /\ Queued \in Nat
         /\ Queued = 0 <=> head = tail
         /\ Slot(head) = SlotAt(tail, Queued)
         /\ Slot(tail) = SlotAt(tail, 0)
         /\ Slot(head) \in Slots
         /\ Slot(tail) \in Slots
         /\ \A i \in Nat : SlotAt(tail, i) \in Slots
<1>1. head \in Nat /\ tail \in Nat /\ CursorModulus \in Nat /\ CursorModulus > 0
  BY RingAssumption DEF Cursors
<1>2. Queued \in Cursors /\ (tail + Queued) % CursorModulus = head
      /\ (Queued = 0 <=> head = tail)
  BY CursorMoves DEF Queued
<1>3. head % CursorModulus = head /\ tail % CursorModulus = tail
  BY <1>1, WrapCases DEF Cursors
<1>4. Slot(tail) = SlotAt(tail, 0)
  BY <1>1, <1>3 DEF SlotAt
<1>5. Slot(head) \in Slots /\ Slot(tail) \in Slots
  BY <1>1, <1>3, SlotOfCursor
<1>6. \A i \in Nat : SlotAt(tail, i) \in Slots
  BY <1>1, SlotOfCursor DEF SlotAt
<1>. QED  BY <1>1, <1>2, <1>4, <1>5, <1>6 DEF SlotAt, Cursors

\* A ring fresh from RingPair::create satisfies the invariant.
LEMMA InitIInv == Init => IInv
<1>. SUFFICES ASSUME Init PROVE IInv
  OBVIOUS
<1>0. 0 \in Cursors /\ SlotCount \in Nat /\ SlotCount >= 2
  BY RingAssumption DEF Cursors
<1>1. TypeOK
  <2>1. Torn \in Fields /\ 0 \in 0 .. EventMax
    BY RingAssumption DEF Fields
  <2>2. slots \in [Slots -> [descriptor : Fields, payload : Fields]]
    BY <2>1 DEF Init
  <2>. QED  BY <1>0, <2>1, <2>2 DEF Init, TypeOK
<1>2. Queued = 0
  BY <1>0, CursorFacts DEF Init
<1>3. Occupancy /\ PublishedWhole /\ SlotProgress
  BY <1>0, <1>2 DEF Init, Occupancy, PublishedWhole, SlotProgress, Writing
<1>4. LeaseIntact /\ NoLostWakeup /\ WakeupAnnounced /\ ClearingSafe
  BY DEF Init, LeaseIntact, NoLostWakeup, WakeupAnnounced, ClearingSafe
<1>. QED  BY <1>1, <1>3, <1>4 DEF IInv

\* Filling the reserved slot leaves every published frame, and the one under
\* lease, as it is.
LEMMA WriteFieldIInv ==
  ASSUME IInv, Writing, NEW field \in {"descriptor", "payload"}, NEW value \in Fields,
         slots' = [slots EXCEPT ![Slot(head)][field] = value]
  PROVE  /\ slots' \in [Slots -> [descriptor : Fields, payload : Fields]]
         /\ \A i \in 0 .. Queued - 1 :
              slots'[SlotAt(tail, i)] = slots[SlotAt(tail, i)]
         /\ cstate = "leased" => slots'[Slot(tail)] = slots[Slot(tail)]
         /\ slots'[Slot(head)] = [slots[Slot(head)] EXCEPT ![field] = value]
<1>1. /\ head \in Cursors /\ tail \in Cursors
      /\ slots \in [Slots -> [descriptor : Fields, payload : Fields]]
      /\ Queued < SlotCount
      /\ cstate = "leased" => head # tail
  BY DEF IInv, TypeOK, Occupancy
<1>2. slots' = [slots EXCEPT ![Slot(head)][field] = value]
  OBVIOUS
<1>3. Slot(head) \in Slots /\ Slot(tail) \in Slots
  BY <1>1, CursorFacts
<1>4. \A i \in 0 .. Queued - 1 : SlotAt(tail, i) # Slot(head) /\ SlotAt(tail, i) \in Slots
  BY <1>1, CursorFacts, SlotsDistinct, RingAssumption
<1>5. cstate = "leased" => Slot(tail) # Slot(head)
  <2>1. cstate = "leased" => 0 \in 0 .. Queued - 1
    BY <1>1, CursorFacts
  <2>. QED  BY <1>1, <1>4, <2>1, CursorFacts
<1>6. slots' \in [Slots -> [descriptor : Fields, payload : Fields]]
  BY <1>1, <1>2, <1>3
<1>. QED  BY <1>1, <1>2, <1>3, <1>4, <1>5, <1>6

\* Steps that touch neither slots nor cursors: what remains of IInv.
LEMMA FrameIInv ==
  ASSUME IInv, UNCHANGED <<slots, head, tail>>,
         TypeOK',
         pstate' \in {"reserved", "filling", "filled", "describing", "described"}
           => (UNCHANGED <<pstate, pframe>>
               \/ (Queued < SlotCount /\ pstate' = "reserved" /\ pframe' \in Frames)),
         cstate' = "leased" => (UNCHANGED <<cstate, cframe>>
               \/ (head # tail /\ cframe' = slots[Slot(tail)].descriptor)),
         cstate' # "corrupt"
  PROVE  Occupancy' /\ PublishedWhole' /\ SlotProgress' /\ LeaseIntact'
<1>1. Queued' = Queued /\ Slot(head)' = Slot(head) /\ Slot(tail)' = Slot(tail)
  BY DEF Queued, WrappingSub, Slot
<1>2. Occupancy'
  BY <1>1 DEF IInv, Occupancy, Writing
<1>3. PublishedWhole'
  BY <1>1 DEF IInv, PublishedWhole, SlotAt, Slot
<1>4. SlotProgress'
  BY <1>1 DEF IInv, SlotProgress
<1>5. LeaseIntact'
  <2>1. CASE UNCHANGED <<cstate, cframe>>
    BY <1>1, <2>1 DEF IInv, LeaseIntact
  <2>2. CASE head # tail /\ cframe' = slots[Slot(tail)].descriptor
    <3>1. head \in Cursors /\ tail \in Cursors
      BY DEF IInv, TypeOK
    <3>2. 0 \in 0 .. Queued - 1 /\ Slot(tail) = SlotAt(tail, 0)
      BY <2>2, <3>1, CursorFacts
    <3>3. PICK f \in Frames : Whole(slots[Slot(tail)], f)
      BY <3>2 DEF IInv, PublishedWhole
    <3>. QED  BY <1>1, <2>2, <3>3 DEF LeaseIntact, Whole
  <2>. QED  BY <2>1, <2>2 DEF LeaseIntact
<1>. QED  BY <1>2, <1>3, <1>4, <1>5

\* The head store of commit keeps the invariant.
LEMMA PublishIInv ==
  ASSUME IInv, Publish
  PROVE  IInv'
<1>0. /\ head \in Cursors /\ tail \in Cursors /\ Queued < SlotCount
      /\ SlotCount \in Nat
  BY RingAssumption DEF IInv, TypeOK, Occupancy, Writing, Publish
<1>1. /\ Queued' = Queued + 1 /\ head' \in Cursors /\ Queued \in Nat
      /\ tail' = tail /\ slots' = slots
  BY <1>0, CursorMoves, CursorFacts DEF Publish, Queued
<1>2. TypeOK'
  BY <1>1 DEF IInv, TypeOK, Publish, wakeVars, consumerVars
<1>3. Occupancy'
  <2>1. head' # tail'
    BY <1>0, <1>1, CursorMoves DEF Queued
  <2>. QED  BY <1>0, <1>1, <2>1 DEF Occupancy, Publish, Writing
<1>4. PublishedWhole'
  <2>1. \E f \in Frames : Whole(slots[Slot(head)], f)
    <3>1. slots[Slot(head)] \in [descriptor : Fields, payload : Fields]
      BY <1>0, CursorFacts DEF IInv, TypeOK
    <3>. QED  BY <3>1 DEF IInv, SlotProgress, Publish, Whole
  <2>2. ASSUME NEW i \in 0 .. Queued
        PROVE  \E f \in Frames : Whole(slots[SlotAt(tail, i)], f)
    <3>1. CASE i = Queued
      BY <1>0, <2>1, <3>1, CursorFacts
    <3>2. CASE i # Queued
      BY <1>1, <3>2 DEF IInv, PublishedWhole
    <3>. QED  BY <3>1, <3>2
  <2>. QED  BY <1>1, <2>2 DEF PublishedWhole
<1>5. SlotProgress'
  BY DEF SlotProgress, Publish
<1>6. LeaseIntact' /\ NoLostWakeup' /\ WakeupAnnounced' /\ ClearingSafe'
  BY DEF IInv, LeaseIntact, NoLostWakeup, WakeupAnnounced, ClearingSafe,
         Publish, consumerVars, wakeVars, Slot
<1>. QED  BY <1>2, <1>3, <1>4, <1>5, <1>6 DEF IInv

\* The tail store of a dropped lease keeps the invariant.
LEMMA DropLeaseIInv ==
  ASSUME IInv, DropLease
  PROVE  IInv'
<1>0. /\ head \in Cursors /\ tail \in Cursors /\ head # tail
      /\ Queued <= SlotCount /\ SlotCount \in Nat
  BY RingAssumption DEF IInv, TypeOK, Occupancy, DropLease
<1>1. /\ Queued' = Queued - 1 /\ tail' = WrappingAdd(tail) /\ tail' \in Cursors
      /\ Queued \in Nat \ {0} /\ head' = head /\ slots' = slots
      /\ Slot(head)' = Slot(head)
  BY <1>0, CursorMoves, CursorFacts DEF DropLease, Queued, Slot
<1>2. TypeOK'
  BY <1>1 DEF IInv, TypeOK, DropLease, wakeVars, producerVars, Fields
<1>3. Occupancy'
  BY <1>0, <1>1 DEF IInv, Occupancy, DropLease, Writing, producerVars
<1>4. PublishedWhole'
  <2>1. ASSUME NEW i \in 0 .. Queued - 2
        PROVE  \E f \in Frames : Whole(slots[SlotAt(tail', i)], f)
    <3>1. i \in 0 .. SlotCount - 1 /\ i + 1 \in 0 .. Queued - 1
      BY <1>0, <1>1
    <3>2. SlotAt(tail', i) = SlotAt(tail, i + 1)
      BY <1>0, <1>1, <3>1, SlotAtNext
    <3>. QED  BY <3>1, <3>2 DEF IInv, PublishedWhole
  <2>2. \A i \in 0 .. (Queued - 1) - 1 : \E f \in Frames : Whole(slots[SlotAt(tail', i)], f)
    BY <1>1, <2>1
  <2>. QED  BY <1>1, <2>2 DEF PublishedWhole, SlotAt, Slot
<1>5. SlotProgress'
  BY <1>1 DEF IInv, SlotProgress, DropLease, producerVars
<1>6. LeaseIntact' /\ NoLostWakeup' /\ WakeupAnnounced' /\ ClearingSafe'
  BY DEF IInv, LeaseIntact, NoLostWakeup, WakeupAnnounced, ClearingSafe,
         DropLease, wakeVars
<1>. QED  BY <1>2, <1>3, <1>4, <1>5, <1>6 DEF IInv

\* Writing the reserved slot, payload or descriptor, keeps the invariant.
LEMMA FillIInv ==
  ASSUME IInv,
         PayloadMutBegin \/ PayloadMutEnd \/ WriteDescriptorBegin \/ WriteDescriptorEnd
  PROVE  IInv'
<1>. DEFINE Fill(from, to, field, value) ==
              /\ WriteField(from, to, field, value)
              /\ field \in {"descriptor", "payload"} /\ value \in Fields
              /\ from \in {"reserved", "filling", "filled", "describing"}
              /\ \/ from = "reserved" /\ to = "filling" /\ field = "payload"
                 \/ from = "filling" /\ to = "filled" /\ field = "payload" /\ value = pframe
                 \/ from = "filled" /\ to = "describing" /\ field = "descriptor"
                 \/ from = "describing" /\ to = "described"
                      /\ field = "descriptor" /\ value = pframe
<1>1. PICK from, to, field, value : Fill(from, to, field, value)
  <2>1. Torn \in Fields /\ pframe \in Fields
    BY DEF IInv, TypeOK, Fields
  <2>2. CASE PayloadMutBegin
    <3>. Fill("reserved", "filling", "payload", Torn)
      BY <2>1, <2>2 DEF PayloadMutBegin
    <3>. QED  OBVIOUS
  <2>3. CASE PayloadMutEnd
    <3>. Fill("filling", "filled", "payload", pframe)
      BY <2>1, <2>3 DEF PayloadMutEnd
    <3>. QED  OBVIOUS
  <2>4. CASE WriteDescriptorBegin
    <3>. Fill("filled", "describing", "descriptor", Torn)
      BY <2>1, <2>4 DEF WriteDescriptorBegin
    <3>. QED  OBVIOUS
  <2>5. CASE WriteDescriptorEnd
    <3>. Fill("describing", "described", "descriptor", pframe)
      BY <2>1, <2>5 DEF WriteDescriptorEnd
    <3>. QED  OBVIOUS
  <2>. QED  BY <2>2, <2>3, <2>4, <2>5
<1>2. /\ pstate = from /\ pstate' = to
      /\ UNCHANGED <<head, tail, dropped, pframe, cstate, cframe,
                     event, edge, ready, guardFresh>>
  BY <1>1 DEF WriteField, consumerVars, wakeVars
<1>3. /\ slots' \in [Slots -> [descriptor : Fields, payload : Fields]]
      /\ \A i \in 0 .. Queued - 1 : slots'[SlotAt(tail, i)] = slots[SlotAt(tail, i)]
      /\ cstate = "leased" => slots'[Slot(tail)] = slots[Slot(tail)]
      /\ slots'[Slot(head)] = [slots[Slot(head)] EXCEPT ![field] = value]
  <2>1. Writing /\ slots' = [slots EXCEPT ![Slot(head)][field] = value]
    BY <1>1 DEF Writing, WriteField
  <2>. HIDE DEF Fill
  <2>2. field \in {"descriptor", "payload"} /\ value \in Fields
    BY <1>1 DEF Fill
  <2>. QED  BY <2>1, <2>2, WriteFieldIInv
<1>4. slots[Slot(head)] \in [descriptor : Fields, payload : Fields]
  BY CursorFacts DEF IInv, TypeOK
<1>5. /\ Queued' = Queued /\ Slot(head)' = Slot(head) /\ Slot(tail)' = Slot(tail)
      /\ \A i : SlotAt(tail, i)' = SlotAt(tail, i)
  BY <1>2 DEF Queued, WrappingSub, Slot, SlotAt
<1>6. TypeOK'
  BY <1>1, <1>2, <1>3 DEF IInv, TypeOK
<1>7. Occupancy'
  BY <1>1, <1>2, <1>5 DEF IInv, Occupancy, Writing
<1>8. PublishedWhole'
  BY <1>2, <1>3, <1>5 DEF IInv, PublishedWhole
<1>9. SlotProgress'
  BY <1>1, <1>2, <1>3, <1>4, <1>5 DEF IInv, SlotProgress
<1>10. LeaseIntact'
  BY <1>2, <1>3, <1>5 DEF IInv, LeaseIntact
<1>11. NoLostWakeup' /\ WakeupAnnounced' /\ ClearingSafe'
  BY <1>1, <1>2 DEF IInv, NoLostWakeup, WakeupAnnounced, ClearingSafe
<1>. QED  BY <1>6, <1>7, <1>8, <1>9, <1>10, <1>11 DEF IInv

\* The invariant is inductive.
LEMMA NextIInv == IInv /\ [Next]_vars => IInv'
<1>. SUFFICES ASSUME IInv, [Next]_vars PROVE IInv'
  OBVIOUS
<1>0. /\ EventMax \in Nat \ {0} /\ Torn \in Fields
      /\ CursorModulus \in Nat \ {0} /\ \A f \in Frames : f \in Fields
  BY RingAssumption DEF Fields
<1>. USE DEF producerVars, consumerVars, wakeVars
<1>1. ASSUME NEW f \in Frames, TryReserve(f) PROVE IInv'
  <2>1. TypeOK'
    BY <1>0, <1>1 DEF IInv, TypeOK, TryReserve
  <2>2. NoLostWakeup' /\ WakeupAnnounced' /\ ClearingSafe'
    BY <1>1 DEF IInv, NoLostWakeup, WakeupAnnounced, ClearingSafe, TryReserve
  <2>3. cstate' # "corrupt" /\ UNCHANGED <<slots, head, tail, cstate, cframe>>
    BY <1>1 DEF IInv, LeaseIntact, TryReserve
  <2>4. Queued < SlotCount /\ pstate' = "reserved" /\ pframe' \in Frames
    BY <1>1 DEF TryReserve
  <2>. QED  BY <2>1, <2>2, <2>3, <2>4, FrameIInv DEF IInv
<1>2. CASE TryReserveFull
  <2>1. dropped' \in Cursors
    BY <1>2, CursorMoves DEF IInv, TypeOK, TryReserveFull
  <2>2. TypeOK'
    BY <1>2, <2>1 DEF IInv, TypeOK, TryReserveFull
  <2>3. NoLostWakeup' /\ WakeupAnnounced' /\ ClearingSafe'
    BY <1>2 DEF IInv, NoLostWakeup, WakeupAnnounced, ClearingSafe, TryReserveFull
  <2>4. /\ cstate' # "corrupt"
        /\ UNCHANGED <<slots, head, tail, cstate, cframe, pstate, pframe>>
    BY <1>2 DEF IInv, LeaseIntact, TryReserveFull
  <2>. QED  BY <2>2, <2>3, <2>4, FrameIInv DEF IInv
<1>3. CASE PayloadMutBegin \/ PayloadMutEnd \/ WriteDescriptorBegin \/ WriteDescriptorEnd
  BY <1>3, FillIInv
<1>4. CASE DropReservation \/ ProducerIntoDescriptor \/ ProducerFromDescriptor
  <2>1. TypeOK'
    BY <1>0, <1>4 DEF IInv, TypeOK, DropReservation, ProducerIntoDescriptor,
                      ProducerFromDescriptor
  <2>2. NoLostWakeup' /\ WakeupAnnounced' /\ ClearingSafe'
    BY <1>4 DEF IInv, NoLostWakeup, WakeupAnnounced, ClearingSafe,
                DropReservation, ProducerIntoDescriptor, ProducerFromDescriptor
  <2>3. /\ cstate' # "corrupt" /\ pstate' \in {"idle", "descriptor"}
        /\ UNCHANGED <<slots, head, tail, cstate, cframe>>
    BY <1>4 DEF IInv, LeaseIntact, DropReservation, ProducerIntoDescriptor,
                ProducerFromDescriptor
  <2>. QED  BY <2>1, <2>2, <2>3, FrameIInv DEF IInv
<1>5. CASE Publish
  BY <1>5, PublishIInv
<1>6. CASE SignalEventfd
  <2>0. edge' \in BOOLEAN /\ ready' \in BOOLEAN /\ guardFresh' \in BOOLEAN
    BY <1>6, Zenon DEF IInv, TypeOK, SignalEventfd
  <2>1. TypeOK'
    BY <1>0, <1>6, <2>0 DEF IInv, TypeOK, SignalEventfd
  <2>2. event' > 0
    BY <1>0, <1>6 DEF IInv, TypeOK, SignalEventfd
  <2>3. NoLostWakeup' /\ WakeupAnnounced' /\ ClearingSafe'
    BY <1>0, <1>6, <2>2 DEF IInv, TypeOK, NoLostWakeup, WakeupAnnounced,
                            ClearingSafe, SignalEventfd
  <2>4. /\ cstate' # "corrupt" /\ pstate' = "idle"
        /\ UNCHANGED <<slots, head, tail, cstate, cframe>>
    BY <1>6 DEF IInv, LeaseIntact, SignalEventfd
  <2>. QED  BY <2>1, <2>3, <2>4, FrameIInv DEF IInv
<1>7. CASE TryAcquire
  <2>1. head \in Cursors /\ tail \in Cursors /\ head # tail
    BY <1>7 DEF IInv, TypeOK, TryAcquire
  <2>2. 0 \in 0 .. Queued - 1 /\ Slot(tail) = SlotAt(tail, 0)
    BY <2>1, CursorFacts
  <2>3. PICK f \in Frames : Whole(slots[Slot(tail)], f)
    BY <2>2 DEF IInv, PublishedWhole
  <2>4. cframe' = f /\ cstate' = "leased"
    BY <1>7, <2>3 DEF TryAcquire, Whole
  <2>5. TypeOK'
    BY <1>0, <1>7, <2>4 DEF IInv, TypeOK, TryAcquire
  <2>6. NoLostWakeup' /\ WakeupAnnounced' /\ ClearingSafe'
    BY <1>7, <2>4 DEF IInv, NoLostWakeup, WakeupAnnounced, ClearingSafe, TryAcquire
  <2>7. UNCHANGED <<slots, head, tail, pstate, pframe>>
        /\ cframe' = slots[Slot(tail)].descriptor
    BY <1>7 DEF TryAcquire
  <2>. QED  BY <2>1, <2>4, <2>5, <2>6, <2>7, FrameIInv DEF IInv
<1>8. CASE DropLease
  BY <1>8, DropLeaseIInv
<1>9. CASE \/ TryAcquireEmpty \/ Readable \/ ReadEventfd \/ ReadWouldBlock
           \/ ClearReady \/ CancelWait
           \/ ConsumerIntoDescriptor \/ ConsumerFromDescriptor \/ DriverCollect
  <2>. USE DEF TryAcquireEmpty, Readable, ReadEventfd, ReadWouldBlock, ClearReady,
               CancelWait, ConsumerIntoDescriptor, ConsumerFromDescriptor, DriverCollect
  <2>0. edge' \in BOOLEAN /\ ready' \in BOOLEAN /\ guardFresh' \in BOOLEAN
    <3>1. CASE ClearReady
      BY <3>1, Zenon DEF IInv, TypeOK
    <3>2. CASE ConsumerFromDescriptor
      <4>1. edge' \in BOOLEAN
        BY <3>2
      <4>. QED  BY <3>2, <4>1, Zenon DEF IInv, TypeOK
    <3>3. CASE \/ TryAcquireEmpty \/ Readable \/ ReadEventfd \/ ReadWouldBlock
               \/ CancelWait \/ ConsumerIntoDescriptor \/ DriverCollect
      BY <3>3 DEF IInv, TypeOK
    <3>. QED  BY <1>9, <3>1, <3>2, <3>3, Zenon
  <2>1. TypeOK'
    BY <1>0, <1>9, <2>0 DEF IInv, TypeOK
  <2>2. NoLostWakeup'
    BY <1>9 DEF IInv, NoLostWakeup
  <2>3. WakeupAnnounced' /\ ClearingSafe'
    <3>1. CASE ReadEventfd
      BY <3>1 DEF WakeupAnnounced, ClearingSafe
    <3>2. CASE ReadWouldBlock
      BY <3>2 DEF IInv, WakeupAnnounced, ClearingSafe
    <3>3. CASE ConsumerFromDescriptor
      BY <3>3, Zenon DEF WakeupAnnounced, ClearingSafe
    <3>4. CASE \/ TryAcquireEmpty \/ Readable \/ ClearReady \/ CancelWait
               \/ ConsumerIntoDescriptor \/ DriverCollect
      BY <3>4, Zenon DEF IInv, WakeupAnnounced, ClearingSafe
    <3>. QED  BY <1>9, <3>1, <3>2, <3>3, <3>4, Zenon
  <2>4. /\ cstate' # "corrupt" /\ (cstate' = "leased" => cstate' = cstate)
        /\ UNCHANGED <<slots, head, tail, cframe, pstate, pframe>>
    BY <1>9 DEF IInv, LeaseIntact
  <2>. QED  BY <2>1, <2>2, <2>3, <2>4, FrameIInv DEF IInv
<1>10. CASE UNCHANGED vars
  BY <1>10 DEF vars, IInv, TypeOK, Occupancy, PublishedWhole, SlotProgress, LeaseIntact,
               NoLostWakeup, WakeupAnnounced, ClearingSafe, Writing, Queued, WrappingSub,
               Slot, SlotAt
<1>. QED
  BY <1>1, <1>2, <1>3, <1>4, <1>5, <1>6, <1>7, <1>8, <1>9, <1>10
     DEF Next, Producer, Consumer

-----------------------------------------------------------------------------

\* The ring's promises, for every slot count, every pair of cursor widths that
\* wraps on a slot boundary and every eventfd limit.
LEMMA SpecIInv == Spec => []IInv
<1>. QED  BY InitIInv, NextIInv, PTL DEF Spec

\* Every field of the ring, of both endpoints and of the wakeup path keeps its
\* type; in particular no cursor leaves u64.
THEOREM TypeCorrect == Spec => []TypeOK
<1>1. IInv => TypeOK
  BY DEF IInv
<1>. QED  BY <1>1, SpecIInv, PTL

\* try_reserve .. commit: the producer writes only into a slot that holds no
\* published frame.
THEOREM ProducerOwnsSlot == Spec => []SlotExclusive
<1>1. IInv => SlotExclusive
  <2>. SUFFICES ASSUME IInv, Writing, NEW i \in 0 .. Queued - 1
                PROVE  SlotAt(tail, i) # Slot(head)
    BY DEF SlotExclusive
  <2>1. /\ head \in Cursors /\ tail \in Cursors /\ Queued < SlotCount
        /\ SlotCount \in Nat
    BY RingAssumption DEF IInv, TypeOK, Occupancy
  <2>2. Queued \in 0 .. SlotCount - 1 /\ i \in 0 .. SlotCount - 1 /\ i # Queued
    BY <2>1, CursorFacts
  <2>. QED  BY <2>1, <2>2, CursorFacts, SlotsDistinct
<1>. QED  BY <1>1, SpecIInv, PTL

\* try_acquire never meets a half-written descriptor, and a lease never sees
\* its payload change.
THEOREM LeaseNeverTorn == Spec => []LeaseIntact
<1>1. IInv => LeaseIntact
  BY DEF IInv
<1>. QED  BY <1>1, SpecIInv, PTL

\* commit signals after the head store: no consumer sleeps over a queued frame.
THEOREM WakeupNeverLost == Spec => []NoLostWakeup
<1>1. IInv => NoLostWakeup
  BY DEF IInv
<1>. QED  BY <1>1, SpecIInv, PTL

\* The runtime's side of it: a signal counted by the eventfd of a registered
\* consumer is announced by an uncollected event or by the readiness flag.
THEOREM WakeupIsAnnounced == Spec => []WakeupAnnounced
<1>1. IInv => WakeupAnnounced
  BY DEF IInv
<1>. QED  BY <1>1, SpecIInv, PTL

-----------------------------------------------------------------------------
(* The ring implements FrameQueue.                                         *)

\* A function on an initial segment of the naturals is a sequence.
LEMMA FunctionIsSeq ==
  ASSUME NEW n \in Nat, NEW f \in [1 .. n -> Frames]
  PROVE  f \in Seq(Frames) /\ Len(f) = n
<1>1. f \in Seq(Frames)
  BY SeqDef
<1>2. Len(f) \in Nat /\ DOMAIN f = 1 .. Len(f)
  BY <1>1, LenProperties
<1>. QED  BY <1>1, <1>2

QueueTyped ==
  /\ QueuedFrames \in Seq(Frames)
  /\ Len(QueuedFrames) = Queued
  /\ Queued \in Nat /\ Queued <= SlotCount
  /\ QueuedFrames = <<>> <=> head = tail

\* The queue the ring stands for is a sequence of frames.
LEMMA QueueIsSeq == IInv => QueueTyped
<1>. SUFFICES ASSUME IInv PROVE QueueTyped
  OBVIOUS
<1>1. /\ Queued \in Nat /\ Queued <= SlotCount /\ (Queued = 0 <=> head = tail)
      /\ SlotCount \in Nat
  BY CursorFacts, RingAssumption DEF IInv, TypeOK, Occupancy
<1>2. ASSUME NEW i \in 1 .. Queued
      PROVE  slots[SlotAt(tail, i - 1)].payload \in Frames
  <2>1. i - 1 \in 0 .. Queued - 1
    BY <1>1
  <2>2. PICK f \in Frames : Whole(slots[SlotAt(tail, i - 1)], f)
    BY <2>1 DEF IInv, PublishedWhole
  <2>. QED  BY <2>2 DEF Whole
<1>3. QueuedFrames \in [1 .. Queued -> Frames]
  BY <1>2 DEF QueuedFrames
<1>4. QueuedFrames \in Seq(Frames) /\ Len(QueuedFrames) = Queued
  BY <1>1, <1>3, FunctionIsSeq
<1>5. QueuedFrames = <<>> <=> head = tail
  BY <1>1, <1>4, EmptySeq
<1>. QED  BY <1>1, <1>4, <1>5 DEF QueueTyped

\* commit's head store appends the frame it has written.
LEMMA PublishEnqueues ==
  ASSUME IInv, IInv', Publish
  PROVE  QueuedFrames' = Append(QueuedFrames, pframe) /\ pframe \in Frames
<1>0. /\ head \in Cursors /\ tail \in Cursors /\ Queued < SlotCount
      /\ SlotCount \in Nat /\ pframe \in Frames
  BY RingAssumption DEF IInv, TypeOK, Occupancy, Writing, Publish, SlotProgress
<1>1. Queued' = Queued + 1 /\ Queued \in Nat /\ UNCHANGED <<tail, slots>>
  BY <1>0, CursorMoves, CursorFacts DEF Publish, Queued
<1>2. slots[SlotAt(tail, Queued)].payload = pframe
  BY <1>0, CursorFacts DEF IInv, SlotProgress, Publish
<1>3. QueuedFrames' = [i \in 1 .. Queued + 1 |-> slots[SlotAt(tail, i - 1)].payload]
  BY <1>1 DEF QueuedFrames, SlotAt, Slot
<1>4. QueuedFrames \in Seq(Frames) /\ Len(QueuedFrames) = Queued
  BY QueueIsSeq DEF QueueTyped
<1>5. QueuedFrames' \in Seq(Frames) /\ Len(QueuedFrames') = Queued + 1
  <2>1. QueueTyped'
    BY QueueIsSeq, PTL
  <2>. QED  BY <1>1, <2>1 DEF QueueTyped
<1>. DEFINE q == Append(QueuedFrames, pframe)
<1>6. /\ q \in Seq(Frames) /\ Len(q) = Queued + 1 /\ q[Queued + 1] = pframe
      /\ \A i \in 1 .. Queued : q[i] = QueuedFrames[i]
  BY <1>0, <1>4, AppendProperties
<1>. HIDE DEF q
<1>7. ASSUME NEW i \in 1 .. Queued + 1
      PROVE  QueuedFrames'[i] = q[i]
  <2>1. CASE i = Queued + 1
    BY <1>1, <1>2, <1>3, <1>6, <2>1
  <2>2. CASE i # Queued + 1
    <3>1. i \in 1 .. Queued
      BY <1>1, <2>2
    <3>. QED  BY <1>3, <1>6, <3>1 DEF QueuedFrames
  <2>. QED  BY <2>1, <2>2
<1>8. QueuedFrames' = q
  BY <1>5, <1>6, <1>7, SeqEqual
<1>. QED  BY <1>0, <1>8 DEF q

\* Dropping the lease removes the oldest frame and no other.
LEMMA DropLeaseDequeues ==
  ASSUME IInv, IInv', DropLease
  PROVE  QueuedFrames' = Tail(QueuedFrames)
<1>0. /\ head \in Cursors /\ tail \in Cursors /\ head # tail
      /\ Queued <= SlotCount /\ SlotCount \in Nat
  BY RingAssumption DEF IInv, TypeOK, Occupancy, DropLease
<1>1. /\ Queued' = Queued - 1 /\ Queued \in Nat \ {0}
      /\ tail' = WrappingAdd(tail) /\ slots' = slots
  BY <1>0, CursorMoves, CursorFacts DEF DropLease, Queued
<1>2. QueuedFrames' =
        [i \in 1 .. Queued - 1 |-> slots[SlotAt(WrappingAdd(tail), i - 1)].payload]
  BY <1>1 DEF QueuedFrames, SlotAt, Slot
<1>3. QueuedFrames \in Seq(Frames) /\ Len(QueuedFrames) = Queued /\ QueuedFrames # <<>>
  BY <1>0, QueueIsSeq DEF QueueTyped
<1>4. QueuedFrames' \in Seq(Frames) /\ Len(QueuedFrames') = Queued - 1
  <2>1. QueueTyped'
    BY QueueIsSeq, PTL
  <2>. QED  BY <1>1, <2>1 DEF QueueTyped
<1>. DEFINE q == Tail(QueuedFrames)
<1>5. /\ q \in Seq(Frames) /\ Len(q) = Queued - 1
      /\ \A i \in 1 .. Len(q) : q[i] = QueuedFrames[i + 1]
  BY <1>3, HeadTailProperties
<1>. HIDE DEF q
<1>6. ASSUME NEW i \in 1 .. Queued - 1
      PROVE  QueuedFrames'[i] = q[i]
  <2>1. i - 1 \in 0 .. SlotCount - 1 /\ i + 1 \in 1 .. Queued /\ (i - 1) + 1 = (i + 1) - 1
    BY <1>0, <1>1
  <2>2. SlotAt(WrappingAdd(tail), i - 1) = SlotAt(tail, (i - 1) + 1)
    BY <1>0, <2>1, SlotAtNext
  <2>3. QueuedFrames[i + 1] = slots[SlotAt(tail, (i + 1) - 1)].payload
    BY <2>1 DEF QueuedFrames
  <2>4. QueuedFrames'[i] = slots[SlotAt(WrappingAdd(tail), i - 1)].payload
    BY <1>2
  <2>5. q[i] = QueuedFrames[i + 1]
    BY <1>5
  <2>. QED  BY <2>1, <2>2, <2>3, <2>4, <2>5
<1>7. QueuedFrames' = q
  BY <1>4, <1>5, <1>6, SeqEqual
<1>. QED  BY <1>7 DEF q

\* One step of the ring is one step of the queue, or none.
LEMMA StepImplements ==
  IInv /\ IInv' /\ [Next]_vars => [Queue!Next]_(Queue!vars)
<1>. SUFFICES ASSUME IInv, IInv', [Next]_vars
              PROVE  Queue!Next \/ UNCHANGED <<QueuedFrames, cstate = "leased", dropped>>
  BY DEF Queue!vars
<1>0. /\ Len(QueuedFrames) = Queued /\ Queued \in Nat /\ Queued <= SlotCount
      /\ QueuedFrames = <<>> <=> head = tail
  BY QueueIsSeq DEF QueueTyped
<1>1. ASSUME UNCHANGED <<slots, head, tail>>  PROVE UNCHANGED QueuedFrames
  BY <1>1 DEF QueuedFrames, Queued, WrappingSub, SlotAt, Slot
<1>. USE DEF producerVars, consumerVars, wakeVars
<1>2. CASE TryReserveFull
  <2>1. Len(QueuedFrames) = SlotCount
    BY <1>0, <1>2, RingAssumption DEF TryReserveFull
  <2>2. Queue!Refuse
    BY <1>1, <1>2, <2>1 DEF TryReserveFull, Queue!Refuse, WrappingAdd
  <2>. QED  BY <2>2 DEF Queue!Next
<1>3. CASE Publish
  <2>1. Queued < SlotCount
    BY <1>3 DEF IInv, Occupancy, Writing, Publish
  <2>2. QueuedFrames' = Append(QueuedFrames, pframe) /\ pframe \in Frames
    BY <1>3, PublishEnqueues
  <2>3. Queue!Enqueue(pframe)
    BY <1>0, <1>3, <2>1, <2>2 DEF Publish, Queue!Enqueue
  <2>. QED  BY <2>2, <2>3 DEF Queue!Next
<1>4. CASE TryAcquire
  <2>1. cstate' = "leased" /\ cstate = "idle" /\ head # tail
    BY <1>4 DEF IInv, LeaseIntact, TryAcquire
  <2>2. Queue!Lend
    BY <1>0, <1>1, <1>4, <2>1 DEF TryAcquire, Queue!Lend
  <2>. QED  BY <2>2 DEF Queue!Next
<1>5. CASE DropLease
  <2>1. Queue!GiveBack
    BY <1>5, DropLeaseDequeues DEF DropLease, Queue!GiveBack
  <2>. QED  BY <2>1 DEF Queue!Next
<1>6. CASE PayloadMutBegin \/ PayloadMutEnd \/ WriteDescriptorBegin \/ WriteDescriptorEnd
  <2>1. PICK field \in {"descriptor", "payload"}, value \in Fields :
          /\ slots' = [slots EXCEPT ![Slot(head)][field] = value]
          /\ Writing /\ UNCHANGED <<head, tail, cstate, dropped>>
    BY <1>6 DEF PayloadMutBegin, PayloadMutEnd, WriteDescriptorBegin,
                WriteDescriptorEnd, WriteField, Writing, IInv, TypeOK, Fields
  <2>2. \A i \in 0 .. Queued - 1 : slots'[SlotAt(tail, i)] = slots[SlotAt(tail, i)]
    BY <2>1, WriteFieldIInv
  <2>3. Queued' = Queued /\ \A i : SlotAt(tail, i)' = SlotAt(tail, i)
    BY <2>1 DEF Queued, WrappingSub, SlotAt, Slot
  <2>4. \A i \in 1 .. Queued : i - 1 \in 0 .. Queued - 1
    BY <1>0
  <2>5. UNCHANGED QueuedFrames
    BY <2>1, <2>2, <2>3, <2>4 DEF QueuedFrames
  <2>. QED  BY <2>1, <2>5
<1>7. CASE \/ \E f \in Frames : TryReserve(f)
           \/ DropReservation \/ SignalEventfd
           \/ ProducerIntoDescriptor \/ ProducerFromDescriptor
           \/ TryAcquireEmpty \/ Readable \/ ReadEventfd \/ ReadWouldBlock
           \/ ClearReady \/ CancelWait
           \/ ConsumerIntoDescriptor \/ ConsumerFromDescriptor \/ DriverCollect
  <2>1. /\ UNCHANGED <<slots, head, tail, dropped>>
        /\ cstate = "leased" <=> cstate' = "leased"
    BY <1>7 DEF TryReserve, DropReservation, SignalEventfd, ProducerIntoDescriptor,
                ProducerFromDescriptor, TryAcquireEmpty, Readable, ReadEventfd,
                ReadWouldBlock, ClearReady, CancelWait, ConsumerIntoDescriptor,
                ConsumerFromDescriptor, DriverCollect
  <2>. QED  BY <1>1, <2>1
<1>8. CASE UNCHANGED vars
  BY <1>1, <1>8 DEF vars
<1>. QED
  BY <1>2, <1>3, <1>4, <1>5, <1>6, <1>7, <1>8 DEF Next, Producer, Consumer

\* The whole ring, wrapping cursors, torn writes and moved endpoints included,
\* behaves as the bounded queue its users program against.
THEOREM RingImplementsQueue == Spec => ImplementsQueue
<1>1. Init => Queue!Init
  <2>. SUFFICES ASSUME Init PROVE Queue!Init
    OBVIOUS
  <2>1. QueuedFrames = <<>>
    BY InitIInv, QueueIsSeq DEF Init, QueueTyped
  <2>. QED  BY <2>1 DEF Init, Queue!Init
<1>. QED  BY <1>1, StepImplements, SpecIInv, PTL DEF Spec, ImplementsQueue, Queue!Spec
=============================================================================
