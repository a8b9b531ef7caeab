------------------------ MODULE PipeWireBridgeProofs -------------------------
(***************************************************************************)
(* The order of the stream, for every size of the ring and of its slots    *)
(* and every number of frames.                                             *)
(*                                                                         *)
(* That the numbers rise along the stream is inductive only together with  *)
(* the next number being above all of them, and the length of a sink's     *)
(* stream only with the pump of the other direction never running.         *)
(***************************************************************************)
EXTENDS PipeWireBridge, TLAPS

Frame == [sequence : Nat, units : Nat]

Increasing(s) == \A i, j \in DOMAIN s : i < j => s[i].sequence < s[j].sequence
Before(s, t) == \A i \in DOMAIN s, j \in DOMAIN t : s[i].sequence < t[j].sequence
Below(s, n) == \A i \in DOMAIN s : s[i].sequence < n

Typed ==
  /\ direction \in {"source", "sink"}
  /\ queue \in Seq(Frame) /\ delivered \in Seq(Frame)
  /\ lent \in BOOLEAN /\ pumpErr \in BOOLEAN
  /\ dropped \in Nat /\ sequence \in Nat /\ brought \in Nat

\* Which pump runs, and when it borrows the head of the ring.
PumpSide ==
  /\ direction = "source" => pump \in {"reserve", "read", "ended"}
  /\ direction = "sink" => pump \in {"acquire", "write", "ended"}
  /\ lent => queue # <<>>
  /\ lent => main = "pumping" /\ pump = "write"

Ordered ==
  /\ Increasing(delivered) /\ Increasing(queue) /\ Before(delivered, queue)
  /\ Below(delivered, sequence) /\ Below(queue, sequence)

Whole ==
  direction = "sink" /\ ~pumpErr /\ main = "pumping" => Len(delivered) + Len(queue) = sequence

IInv == Typed /\ PumpSide /\ Ordered /\ Whole

-----------------------------------------------------------------------------
(* Sequences of frames with rising numbers.                                *)

LEMMA Numbered == ASSUME NEW s \in Seq(Frame) PROVE \A i \in DOMAIN s : s[i].sequence \in Nat
<1>1. \A i \in DOMAIN s : s[i] \in Frame
  OBVIOUS
<1>2. \A e \in Frame : e.sequence \in Nat
  BY DEF Frame
<1> QED
  BY <1>1, <1>2

LEMMA AppendFrame ==
  ASSUME NEW s \in Seq(Frame), NEW e \in Frame, NEW n \in Nat,
         Increasing(s), Below(s, e.sequence), e.sequence < n
  PROVE  /\ Append(s, e) \in Seq(Frame) /\ Len(Append(s, e)) = Len(s) + 1
         /\ Increasing(Append(s, e)) /\ Below(Append(s, e), n)
<1>1. Append(s, e) \in Seq(Frame) /\ Len(Append(s, e)) = Len(s) + 1 /\ Len(s) \in Nat
  OBVIOUS
<1>2. /\ DOMAIN s = 1 .. Len(s) /\ DOMAIN Append(s, e) = 1 .. Len(s) + 1
      /\ \A i \in 1 .. Len(s) : Append(s, e)[i] = s[i]
      /\ Append(s, e)[Len(s) + 1] = e
  OBVIOUS
<1>3. \A i \in 1 .. Len(s) : s[i].sequence \in Nat /\ s[i].sequence < e.sequence
  BY <1>2, Numbered DEF Below
<1>4. e.sequence \in Nat
  BY DEF Frame
<1>5. Below(Append(s, e), n)
  BY <1>1, <1>2, <1>3, <1>4 DEF Below
<1>6. Increasing(Append(s, e))
  BY <1>1, <1>2, <1>3 DEF Increasing
<1> QED
  BY <1>1, <1>5, <1>6

LEMMA TailFrames ==
  ASSUME NEW s \in Seq(Frame), s # <<>>, NEW n \in Nat, Increasing(s), Below(s, n)
  PROVE  /\ Head(s) \in Frame /\ Head(s).sequence < n
         /\ Tail(s) \in Seq(Frame) /\ Len(Tail(s)) = Len(s) - 1 /\ Len(s) \in Nat
         /\ Increasing(Tail(s)) /\ Below(Tail(s), n)
         /\ \A j \in DOMAIN Tail(s) : Head(s).sequence < Tail(s)[j].sequence
<1>1. /\ Head(s) = s[1] /\ Head(s) \in Frame /\ Tail(s) \in Seq(Frame)
      /\ Len(Tail(s)) = Len(s) - 1 /\ Len(s) \in Nat \ {0}
  OBVIOUS
<1>2. /\ DOMAIN s = 1 .. Len(s) /\ DOMAIN Tail(s) = 1 .. Len(s) - 1
      /\ \A i \in 1 .. Len(s) - 1 : Tail(s)[i] = s[i + 1]
  OBVIOUS
<1>3. Head(s).sequence < n /\ Below(Tail(s), n)
  BY <1>1, <1>2 DEF Below
<1>4. Increasing(Tail(s))
  BY <1>1, <1>2 DEF Increasing
<1>5. \A j \in DOMAIN Tail(s) : Head(s).sequence < Tail(s)[j].sequence
  BY <1>1, <1>2 DEF Increasing
<1> QED
  BY <1>1, <1>3, <1>4, <1>5

\* The producer publishes the frame with the next number.
LEMMA Publish ==
  ASSUME Typed, Ordered, NEW n \in Nat,
         queue' = Append(queue, [sequence |-> sequence, units |-> n]),
         sequence' = sequence + 1, delivered' = delivered
  PROVE  Ordered' /\ queue' \in Seq(Frame) /\ Len(queue') = Len(queue) + 1 /\ queue' # <<>>
<1> DEFINE e == [sequence |-> sequence, units |-> n]
<1>1. e \in Frame /\ e.sequence = sequence /\ sequence \in Nat /\ queue \in Seq(Frame)
  BY DEF Frame, Typed
<1> HIDE DEF e
<1>2. /\ Append(queue, e) \in Seq(Frame) /\ Len(Append(queue, e)) = Len(queue) + 1
      /\ Increasing(Append(queue, e)) /\ Below(Append(queue, e), sequence + 1)
  <2>1. sequence + 1 \in Nat /\ sequence < sequence + 1
    BY <1>1
  <2> QED
    BY <1>1, <2>1, AppendFrame DEF Ordered
<1>3. /\ DOMAIN Append(queue, e) = 1 .. Len(queue) + 1 /\ DOMAIN queue = 1 .. Len(queue)
      /\ \A i \in 1 .. Len(queue) : Append(queue, e)[i] = queue[i]
      /\ Append(queue, e)[Len(queue) + 1] = e /\ Len(queue) \in Nat
  BY <1>1
<1>4. Before(delivered, Append(queue, e))
  BY <1>1, <1>3 DEF Ordered, Before, Below
<1>5. \A i \in DOMAIN delivered : delivered[i].sequence \in Nat
  BY Numbered DEF Typed
<1>6. Below(delivered, sequence + 1)
  BY <1>1, <1>5 DEF Ordered, Below
<1>7. queue' = Append(queue, e) /\ Append(queue, e) # <<>>
  BY <1>1 DEF e
<1> QED
  BY <1>2, <1>4, <1>6, <1>7 DEF Ordered

\* The oldest frame leaves the ring, uncopied or under its number.
LEMMA Discard ==
  ASSUME Typed, Ordered, queue # <<>>, queue' = Tail(queue),
         UNCHANGED <<delivered, sequence>>
  PROVE  Ordered' /\ queue' \in Seq(Frame) /\ Len(queue') = Len(queue) - 1
<1>1. /\ Tail(queue) \in Seq(Frame) /\ Len(Tail(queue)) = Len(queue) - 1
      /\ Increasing(Tail(queue)) /\ Below(Tail(queue), sequence)
  BY TailFrames DEF Typed, Ordered
<1>2. \A j \in DOMAIN Tail(queue) : j + 1 \in DOMAIN queue /\ Tail(queue)[j] = queue[j + 1]
  BY DEF Typed
<1>3. Before(delivered, Tail(queue))
  BY <1>2 DEF Ordered, Before
<1> QED
  BY <1>1, <1>3 DEF Ordered

LEMMA Deliver ==
  ASSUME Typed, Ordered, queue # <<>>, NEW e \in Frame, e.sequence = Head(queue).sequence,
         queue' = Tail(queue), delivered' = Append(delivered, e), sequence' = sequence
  PROVE  /\ Ordered' /\ queue' \in Seq(Frame) /\ delivered' \in Seq(Frame)
         /\ Len(delivered') + Len(queue') = Len(delivered) + Len(queue)
<1>1. /\ Head(queue).sequence < sequence
      /\ Tail(queue) \in Seq(Frame) /\ Len(Tail(queue)) = Len(queue) - 1 /\ Len(queue) \in Nat
      /\ Increasing(Tail(queue)) /\ Below(Tail(queue), sequence)
      /\ \A j \in DOMAIN Tail(queue) : Head(queue).sequence < Tail(queue)[j].sequence
  BY TailFrames DEF Typed, Ordered
<1>2. Below(delivered, e.sequence)
  BY DEF Typed, Ordered, Before, Below
<1>3. /\ Append(delivered, e) \in Seq(Frame) /\ Len(Append(delivered, e)) = Len(delivered) + 1
      /\ Increasing(Append(delivered, e)) /\ Below(Append(delivered, e), sequence)
  BY <1>1, <1>2, AppendFrame DEF Typed, Ordered
<1>4. \A j \in DOMAIN Tail(queue) : j + 1 \in DOMAIN queue /\ Tail(queue)[j] = queue[j + 1]
  BY DEF Typed
<1>5. /\ DOMAIN Append(delivered, e) = 1 .. Len(delivered) + 1 /\ DOMAIN delivered = 1 .. Len(delivered)
      /\ \A i \in 1 .. Len(delivered) : Append(delivered, e)[i] = delivered[i]
      /\ Append(delivered, e)[Len(delivered) + 1] = e /\ Len(delivered) \in Nat
  BY DEF Typed
<1>6. Before(Append(delivered, e), Tail(queue))
  BY <1>1, <1>4, <1>5 DEF Ordered, Before
<1> QED
  BY <1>1, <1>3, <1>5, <1>6 DEF Ordered

-----------------------------------------------------------------------------
LEMMA InitIInv == Init => IInv
<1> SUFFICES ASSUME Init PROVE IInv
  OBVIOUS
<1>1. queue = <<>> /\ delivered = <<>> /\ lent = FALSE /\ dropped = 0
  BY DEF Init, Q!Init
<1>2. Typed
  <2>1. <<>> \in Seq(Frame)
    OBVIOUS
  <2>2. lent \in BOOLEAN /\ pumpErr \in BOOLEAN
    BY <1>1, Zenon DEF Init
  <2> QED
    BY <1>1, <2>1, <2>2 DEF Init, Typed
<1>3. PumpSide
  BY <1>1 DEF Init, PumpSide
<1>4. Ordered
  BY <1>1 DEF Ordered, Increasing, Before, Below
<1>5. Whole
  BY <1>1, BridgeAssumption DEF Init, Whole
<1> QED
  BY <1>2, <1>3, <1>4, <1>5 DEF IInv

\* The counter of refusals stays a natural number when it wraps.
LEMMA Counted ==
  ASSUME NEW d \in Nat, NEW m \in Nat
  PROVE  ((d + 1) % (m + 2)) \in Nat
  OBVIOUS

\* Steps that leave the stream and the counters alone.
LEMMA QuietStep ==
  ASSUME IInv, UNCHANGED <<direction, queue, delivered, sequence, brought, dropped>>,
         lent' \in BOOLEAN, pumpErr' \in BOOLEAN, PumpSide',
         main' = "pumping" /\ ~pumpErr' => main = "pumping" /\ ~pumpErr
  PROVE  IInv'
  BY DEF IInv, Typed, Ordered, Whole

LEMMA SourceSteps ==
  ASSUME IInv, SourceStep \/ SourceProcessUnmapped \/ \E n \in 0 .. MaxUnits : SourceProcess(n)
  PROVE  IInv'
<1> USE DEF Pumping
<1>1. direction = "source" /\ direction' = direction
  BY DEF SourceStep, PumpReserve, PumpOverrun, PumpRead, PumpReadFails, SourceProcessUnmapped,
         SourceProcess, IInv, PumpSide, Typed
<1>2. Whole'
  BY <1>1 DEF Whole
<1>3. CASE PumpReserve \/ PumpReadFails
  <2>1. UNCHANGED <<direction, queue, lent, delivered, sequence, brought, dropped>>
    BY <1>3 DEF PumpReserve, PumpReadFails, ring
  <2>2. lent' \in BOOLEAN /\ pumpErr' \in BOOLEAN
    BY <1>3, <2>1 DEF PumpReserve, PumpReadFails, PumpFails, IInv, Typed
  <2>3. PumpSide'
    BY <1>1, <1>3, <2>1 DEF PumpReserve, PumpReadFails, PumpFails, IInv, PumpSide
  <2>4. main' = "pumping" /\ ~pumpErr' => main = "pumping" /\ ~pumpErr
    BY <1>3 DEF PumpReserve, PumpReadFails, PumpFails
  <2> QED
    BY <2>1, <2>2, <2>3, <2>4, QuietStep
<1>4. CASE PumpOverrun
  <2>1. Typed'
    BY <1>4, Counted, BridgeAssumption DEF PumpOverrun, PumpFails, Q!Refuse, IInv, Typed
  <2>2. PumpSide' /\ Ordered'
    BY <1>4 DEF PumpOverrun, PumpFails, Q!Refuse, IInv, PumpSide, Ordered
  <2> QED
    BY <1>2, <2>1, <2>2 DEF IInv
<1>5. CASE PumpRead
  <2>1. Ordered' /\ queue' \in Seq(Frame) /\ queue' # <<>>
    BY <1>5, Publish, BridgeAssumption DEF PumpRead, Q!Enqueue, IInv
  <2>2. Typed' /\ PumpSide'
    BY <1>5, <2>1 DEF PumpRead, Q!Enqueue, IInv, Typed, PumpSide
  <2> QED
    BY <1>2, <2>1, <2>2 DEF IInv
<1>6. CASE SourceProcessUnmapped
  <2>1. Ordered' /\ queue' \in Seq(Frame)
    BY <1>6, Discard DEF SourceProcessUnmapped, IInv
  <2>2. Typed' /\ PumpSide'
    BY <1>1, <1>6, <2>1 DEF SourceProcessUnmapped, IInv, Typed, PumpSide
  <2> QED
    BY <1>2, <2>1, <2>2 DEF IInv
<1>7. ASSUME NEW n \in 0 .. MaxUnits, SourceProcess(n) PROVE IInv'
  <2> DEFINE e == [Head(queue) EXCEPT !.units = IF n < @ THEN n ELSE @]
  <2>1. Head(queue) \in Frame
    BY <1>7 DEF SourceProcess, IInv, Typed
  <2>2. e \in Frame /\ e.sequence = Head(queue).sequence
    BY <2>1, BridgeAssumption DEF Frame
  <2>3. delivered' = Append(delivered, e) /\ queue' = Tail(queue) /\ queue # <<>> /\ sequence' = sequence
    BY <1>7 DEF SourceProcess
  <2> HIDE DEF e
  <2>4. Ordered' /\ queue' \in Seq(Frame) /\ delivered' \in Seq(Frame)
    BY <2>2, <2>3, Deliver DEF IInv
  <2>5. Typed' /\ PumpSide'
    BY <1>1, <1>7, <2>4 DEF SourceProcess, IInv, Typed, PumpSide
  <2> QED
    BY <1>2, <2>4, <2>5 DEF IInv
<1> QED
  BY <1>3, <1>4, <1>5, <1>6, <1>7 DEF SourceStep

LEMMA SinkProcessStep ==
  ASSUME IInv, NEW n \in 0 .. MaxUnits, SinkProcess(n)
  PROVE  IInv'
<1>1. /\ direction = "sink" /\ brought' = brought + 1
      /\ UNCHANGED <<direction, pump, pumpErr, delivered, main>>
      /\ dropped \in Nat /\ sequence \in Nat /\ brought' \in Nat /\ MaxFrames \in Nat
  BY BridgeAssumption DEF SinkProcess, IInv, Typed
<1>2. CASE Q!Refuse /\ UNCHANGED sequence
  <2>1. dropped' \in Nat
    BY <1>1, <1>2, Counted DEF Q!Refuse
  <2>2. Typed'
    BY <1>1, <1>2, <2>1 DEF Q!Refuse, IInv, Typed
  <2>3. PumpSide' /\ Ordered' /\ Whole'
    BY <1>1, <1>2 DEF Q!Refuse, IInv, PumpSide, Ordered, Whole
  <2> QED
    BY <2>2, <2>3 DEF IInv
<1>3. CASE UNCHANGED <<ring, sequence>>
  <2>1. Typed'
    BY <1>1, <1>3 DEF ring, IInv, Typed
  <2>2. PumpSide' /\ Ordered' /\ Whole'
    BY <1>1, <1>3 DEF ring, IInv, PumpSide, Ordered, Whole
  <2> QED
    BY <2>1, <2>2 DEF IInv
<1>4. CASE sequence' = sequence + 1 /\ Q!Enqueue([sequence |-> sequence, units |-> n])
  <2>1. Ordered' /\ queue' \in Seq(Frame) /\ Len(queue') = Len(queue) + 1 /\ queue' # <<>>
    <3>1. n \in Nat
      BY BridgeAssumption
    <3> QED
      BY <1>1, <1>4, <3>1, Publish DEF Q!Enqueue, IInv
  <2>2. Typed'
    BY <1>1, <1>4, <2>1 DEF Q!Enqueue, IInv, Typed
  <2>3. PumpSide'
    BY <1>1, <1>4, <2>1 DEF Q!Enqueue, IInv, PumpSide
  <2>4. Len(queue) \in Nat /\ Len(delivered) \in Nat
    BY DEF IInv, Typed
  <2>5. Whole'
    BY <1>1, <1>4, <2>1, <2>4 DEF IInv, Whole
  <2> QED
    BY <2>1, <2>2, <2>3, <2>5 DEF IInv
<1> QED
  BY <1>2, <1>3, <1>4 DEF SinkProcess

LEMMA SinkPumpStep ==
  ASSUME IInv, SinkStep \/ PumpAcquireFails
  PROVE  IInv'
<1> USE DEF Pumping
<1>1. CASE PumpAcquire
  BY <1>1, QuietStep DEF PumpAcquire, Q!Lend, IInv, Typed, PumpSide
<1>2. CASE PumpWrite
  <2>1. /\ queue # <<>> /\ Head(queue) \in Frame /\ queue' = Tail(queue)
        /\ delivered' = Append(delivered, Head(queue)) /\ sequence' = sequence
    BY <1>2 DEF PumpWrite, Q!GiveBack, IInv, Typed, PumpSide
  <2>2. /\ Ordered' /\ queue' \in Seq(Frame) /\ delivered' \in Seq(Frame)
        /\ Len(delivered') + Len(queue') = Len(delivered) + Len(queue)
    BY <2>1, Deliver DEF IInv
  <2>3. Typed' /\ PumpSide'
    BY <1>2, <2>2 DEF PumpWrite, Q!GiveBack, IInv, Typed, PumpSide
  <2>4. Whole'
    BY <1>2, <2>2 DEF PumpWrite, Q!GiveBack, IInv, Whole
  <2> QED
    BY <2>2, <2>3, <2>4 DEF IInv
<1>3. CASE PumpWriteFails
  <2>1. queue # <<>> /\ queue' = Tail(queue) /\ UNCHANGED <<delivered, sequence>>
    BY <1>3 DEF PumpWriteFails, Q!GiveBack, IInv, PumpSide
  <2>2. Ordered' /\ queue' \in Seq(Frame)
    BY <2>1, Discard DEF IInv
  <2>3. Typed' /\ PumpSide'
    BY <1>3, <2>2 DEF PumpWriteFails, PumpFails, Q!GiveBack, IInv, Typed, PumpSide
  <2>4. Whole'
    BY <1>3 DEF PumpWriteFails, PumpFails, Q!GiveBack, IInv, Whole
  <2> QED
    BY <2>2, <2>3, <2>4 DEF IInv
<1>4. CASE PumpAcquireFails
  BY <1>4, QuietStep DEF PumpAcquireFails, PumpFails, ring, IInv, Typed, PumpSide
<1> QED
  BY <1>1, <1>2, <1>3, <1>4 DEF SinkStep

LEMMA ControlStep ==
  ASSUME IInv, PipeWireStops \/ CtrlC \/ StopAndExit \/ UNCHANGED vars
  PROVE  IInv'
<1>1. CASE PipeWireStops \/ StopAndExit \/ UNCHANGED vars
  BY <1>1, QuietStep DEF PipeWireStops, StopAndExit, vars, ring, IInv, Typed, PumpSide
<1>2. CASE CtrlC /\ ~lent
  BY <1>2, QuietStep DEF CtrlC, ring, IInv, Typed, PumpSide
<1>3. CASE CtrlC /\ lent
  <2>1. queue # <<>> /\ queue' = Tail(queue) /\ UNCHANGED <<delivered, sequence>>
    BY <1>3 DEF CtrlC, Q!GiveBack, IInv, PumpSide
  <2>2. Ordered' /\ queue' \in Seq(Frame)
    BY <2>1, Discard DEF IInv
  <2>3. Typed' /\ PumpSide'
    BY <1>3, <2>2 DEF CtrlC, Q!GiveBack, IInv, Typed, PumpSide
  <2>4. Whole'
    BY <1>3 DEF CtrlC, Q!GiveBack, IInv, Whole
  <2> QED
    BY <2>2, <2>3, <2>4 DEF IInv
<1> QED
  BY <1>1, <1>2, <1>3

LEMMA StepIInv == IInv /\ [Next]_vars => IInv'
  BY SourceSteps, SinkProcessStep, SinkPumpStep, ControlStep DEF Next, Process

LEMMA Inductive == Spec => []IInv
  BY InitIInv, StepIInv, PTL DEF Spec

-----------------------------------------------------------------------------
\* The other side hears each frame at most once and in order, and a sink's host
\* hears every published frame, whatever the capacity of the ring.
THEOREM StreamsInOrder == Spec => []StreamInOrder
<1>1. IInv => StreamInOrder
  <2> SUFFICES ASSUME IInv PROVE StreamInOrder
    OBVIOUS
  <2> DEFINE stream == delivered \o queue
  <2>1. /\ delivered \in Seq(Frame) /\ queue \in Seq(Frame)
        /\ Len(delivered) \in Nat /\ Len(queue) \in Nat
        /\ DOMAIN delivered = 1 .. Len(delivered) /\ DOMAIN queue = 1 .. Len(queue)
    BY DEF IInv, Typed
  <2>2. /\ Len(stream) = Len(delivered) + Len(queue) /\ DOMAIN stream = 1 .. Len(delivered) + Len(queue)
        /\ \A i \in 1 .. Len(delivered) : stream[i] = delivered[i]
        /\ \A i \in Len(delivered) + 1 .. Len(delivered) + Len(queue) :
             stream[i] = queue[i - Len(delivered)] /\ i - Len(delivered) \in 1 .. Len(queue)
    BY <2>1
  <2> HIDE DEF stream
  <2>3. ASSUME NEW i \in DOMAIN stream, NEW j \in DOMAIN stream, i < j
        PROVE  stream[i].sequence < stream[j].sequence
    <3>1. CASE j <= Len(delivered)
      <4>1. i \in DOMAIN delivered /\ j \in DOMAIN delivered
        BY <2>1, <2>2, <2>3, <3>1
      <4> QED
        BY <2>1, <2>2, <2>3, <4>1 DEF IInv, Ordered, Increasing
    <3>2. CASE i <= Len(delivered) /\ j > Len(delivered)
      <4>1. i \in DOMAIN delivered /\ j - Len(delivered) \in DOMAIN queue
            /\ stream[j] = queue[j - Len(delivered)]
        BY <2>1, <2>2, <3>2
      <4> QED
        BY <2>1, <2>2, <4>1 DEF IInv, Ordered, Before
    <3>3. CASE i > Len(delivered)
      <4>1. /\ i - Len(delivered) \in DOMAIN queue /\ j - Len(delivered) \in DOMAIN queue
            /\ i - Len(delivered) < j - Len(delivered)
            /\ stream[i] = queue[i - Len(delivered)] /\ stream[j] = queue[j - Len(delivered)]
        <5>1. i \in Nat /\ j \in Nat /\ j <= Len(delivered) + Len(queue)
          BY <2>1, <2>2
        <5>2. /\ i \in Len(delivered) + 1 .. Len(delivered) + Len(queue)
              /\ j \in Len(delivered) + 1 .. Len(delivered) + Len(queue)
          BY <2>1, <2>3, <3>3, <5>1
        <5> QED
          BY <2>1, <2>2, <2>3, <5>1, <5>2
      <4> QED
        BY <4>1 DEF IInv, Ordered, Increasing
    <3> QED
      BY <2>1, <2>2, <3>1, <3>2, <3>3
  <2>4. direction = "sink" /\ ~pumpErr /\ main = "pumping" => Len(stream) = sequence
    BY <2>2 DEF IInv, Whole
  <2> QED
    BY <2>3, <2>4 DEF StreamInOrder, stream
<1> QED
  BY <1>1, Inductive, PTL
=============================================================================
