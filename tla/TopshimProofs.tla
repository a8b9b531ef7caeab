---------------------------- MODULE TopshimProofs ----------------------------
(***************************************************************************)
(* src/topshim: the ownership of descriptors across the language boundary, *)
(* for every number of frames, every size of the descriptor table and      *)
(* every number of Arcs (HardwareFrame), and the actor graph, for every    *)
(* number of utterances and frames and every capacity of the channels      *)
(* (TopshimGraph).                                                         *)
(*                                                                         *)
(* That a descriptor has one owner is not inductive: whether a close hits  *)
(* the right number depends on which variables are set at that stage.      *)
(* IInv says for every stage which of a frame's variables hold a           *)
(* descriptor, and that the table and these variables agree.               *)
(***************************************************************************)
EXTENDS HardwareFrame, TopshimGraph, FiniteSetTheorems, WellFoundedInduction, TLAPS

Stages == {"none", "heap", "heap_alloc", "memfd", "map", "fill", "eventfd", "signal",
           "captured", "taking", "taken", "fence", "map_read", "leased"}

\* At stage s, variable v holds a descriptor.
Holds(s, v) ==
  \/ v = "heap" /\ s = "heap_alloc"
  \/ v = "buffer" /\ s \in {"map", "fill", "eventfd", "signal", "captured"}
  \/ v = "fence" /\ s \in {"signal", "captured", "taking"}
  \/ v = "rustBuffer" /\ s \in {"taking", "taken", "fence", "map_read", "leased"}
  \/ v = "rustFence" /\ s \in {"taken", "fence"}

Typed ==
  /\ stage \in [Frames -> Stages]
  /\ hold \in [Frames -> [Variables -> Fds \cup {-1}]]
  /\ table \in [Fds -> Frames \cup {Free}]
  /\ wmap \in [Frames -> BOOLEAN] /\ filled \in [Frames -> BOOLEAN]
  /\ signal \in [Frames -> Nat] /\ refs \in [Frames -> Nat]

\* The variables h of a frame f at stage s agree with a descriptor table t.
Agree(f, s, h, t) ==
  /\ \A v \in Variables : IF Holds(s, v) THEN h[v] \in Fds /\ t[h[v]] = f ELSE h[v] = -1
  /\ \A v, w \in Variables : h[v] = h[w] /\ h[v] # -1 => v = w
  /\ \A fd \in Fds : t[fd] = f => \E v \in Variables : h[v] = fd

AllAgree == \A f \in Frames : Agree(f, stage[f], hold[f], table)

\* The part of the invariant that is about descriptors.
Owned ==
  /\ stage \in [Frames -> Stages]
  /\ hold \in [Frames -> [Variables -> Fds \cup {-1}]]
  /\ table \in [Fds -> Frames \cup {Free}]
  /\ AllAgree

\* How far the pages of a frame are.
Pages ==
  \A f \in Frames :
    /\ stage[f] \in {"taking", "taken", "fence", "map_read", "leased"} => ~wmap[f]
    /\ stage[f] \in {"eventfd", "signal", "captured", "taking", "taken", "fence",
                      "map_read", "leased"}
         => filled[f]
    /\ stage[f] = "leased" => refs[f] > 0

IInv == Typed /\ AllAgree /\ Pages

-----------------------------------------------------------------------------
LEMMA VariablesAre ==
  /\ Variables = {"heap", "buffer", "fence", "rustBuffer", "rustFence"}
  /\ Nothing \in [Variables -> {-1}]
  BY DEF Variables, Nothing

\* open(2) returns a number that is free.
LEMMA MinIsFree == FreeFds # {} => Min(FreeFds) \in FreeFds
<1> SUFFICES ASSUME FreeFds # {} PROVE Min(FreeFds) \in FreeFds
  OBVIOUS
<1> DEFINE R == {ss \in Nat \X Nat : ss[1] < ss[2]}
<1>1. IsWellFoundedOn(R, Nat)
  BY NatLessThanWellFounded DEF OpToRel
<1>2. FreeFds \subseteq Nat
  BY FrameAssumption DEF FreeFds, Fds
<1>3. \A i, j \in Nat : <<j, i>> \notin R => i <= j
  OBVIOUS
<1> HIDE DEF R
<1>4. \E i \in FreeFds : \A j \in FreeFds : ~(<<j, i>> \in R)
  BY <1>1, <1>2, WFMin
<1>5. \E i \in FreeFds : \A j \in FreeFds : i <= j
  BY <1>2, <1>3, <1>4
<1> QED
  BY <1>5 DEF Min

\* A step of one frame that touches no descriptor of another frame and leaves
\* its own variables in agreement keeps everything in agreement.
LEMMA LocalStep ==
  ASSUME IInv, NEW f \in Frames, NEW s \in Stages, NEW h \in [Variables -> Fds \cup {-1}],
         stage' = [stage EXCEPT ![f] = s], hold' = [hold EXCEPT ![f] = h],
         table' \in [Fds -> Frames \cup {Free}],
         \A fd \in Fds : table'[fd] = table[fd] \/ (table[fd] \in {f, Free} /\ table'[fd] \in {f, Free}),
         Agree(f, s, h, table')
  PROVE  Owned'
<1>1. stage' \in [Frames -> Stages] /\ hold' \in [Frames -> [Variables -> Fds \cup {-1}]]
  BY DEF IInv, Typed
<1>2. stage'[f] = s /\ hold'[f] = h
  BY DEF IInv, Typed
<1>3. ASSUME NEW g \in Frames, g # f PROVE Agree(g, stage[g], hold[g], table')
  <2>1. Agree(g, stage[g], hold[g], table)
    BY DEF IInv, AllAgree
  <2>2. \A fd \in Fds : table'[fd] = g <=> table[fd] = g
    BY <1>3, FrameAssumption
  <2> QED
    BY <2>1, <2>2 DEF Agree
<1>4. ASSUME NEW g \in Frames, g # f PROVE stage'[g] = stage[g] /\ hold'[g] = hold[g]
  BY <1>4 DEF IInv, Typed
<1> QED
  BY <1>1, <1>2, <1>3, <1>4 DEF AllAgree, Owned

\* The end of a frame: closing exactly what it holds restores agreement.
LEMMA GoneStep ==
  ASSUME IInv, NEW f \in Frames, NEW fds,
         \A fd \in Fds : fd \in fds <=> table[fd] = f,
         Gone(f, fds)
  PROVE  IInv'
<1> USE DEF Gone, Goto, Closed
<1>1. Nothing \in [Variables -> Fds \cup {-1}] /\ \A v \in Variables : Nothing[v] = -1
  BY VariablesAre
<1>2. table' \in [Fds -> Frames \cup {Free}]
  BY DEF IInv, Typed
<1>3. \A fd \in Fds : table'[fd] # f
  BY FrameAssumption
<1>4. \A fd \in Fds : table'[fd] = table[fd] \/ (table[fd] \in {f, Free} /\ table'[fd] \in {f, Free})
  OBVIOUS
<1>5. Agree(f, "none", Nothing, table')
  BY <1>1, <1>3 DEF Agree, Holds
<1>6. "none" \in Stages
  BY DEF Stages
<1>7. Owned'
  BY <1>1, <1>2, <1>4, <1>5, <1>6, LocalStep
<1>8. Typed'
  BY <1>2, <1>7 DEF IInv, Typed, Owned
<1>9. Pages'
  BY DEF IInv, Typed, Pages
<1> QED
  BY <1>7, <1>8, <1>9 DEF IInv, Owned

\* A new descriptor goes into a variable that held none.
LEMMA OpenStep ==
  ASSUME IInv, NEW f \in Frames, NEW v \in Variables, NEW s \in Stages,
         FreeFds # {}, ~Holds(stage[f], v),
         \A w \in Variables : Holds(s, w) <=> Holds(stage[f], w) \/ w = v,
         table' = Opened(f, Min(FreeFds)), Holding(f, v, Min(FreeFds)), Goto(f, s)
  PROVE  Owned'
<1> DEFINE fd == Min(FreeFds)
           h == [hold[f] EXCEPT ![v] = fd]
<1>1. fd \in Fds /\ table[fd] = Free
  BY MinIsFree DEF FreeFds
<1> HIDE DEF fd
<1>2. h \in [Variables -> Fds \cup {-1}] /\ h[v] = fd
      /\ \A w \in Variables : w # v => h[w] = hold[f][w]
  BY <1>1 DEF IInv, Typed
<1>3. hold' = [hold EXCEPT ![f] = h]
  BY DEF IInv, Typed, Holding, fd
<1>4. /\ table' \in [Fds -> Frames \cup {Free}]
      /\ table'[fd] = f /\ \A d \in Fds : d # fd => table'[d] = table[d]
  BY <1>1 DEF IInv, Typed, Opened, fd
<1>5. Agree(f, stage[f], hold[f], table)
  BY DEF IInv, AllAgree
<1>6. \A w \in Variables : hold[f][w] # fd
  BY <1>1, <1>5, FrameAssumption DEF Agree, Fds
<1> HIDE DEF h
<1>7. Agree(f, s, h, table')
  <2>1. ASSUME NEW w \in Variables
        PROVE  IF Holds(s, w) THEN h[w] \in Fds /\ table'[h[w]] = f ELSE h[w] = -1
    BY <1>1, <1>2, <1>4, <1>5, <1>6 DEF Agree
  <2>2. \A w, x \in Variables : h[w] = h[x] /\ h[w] # -1 => w = x
    BY <1>2, <1>5, <1>6 DEF Agree
  <2>3. ASSUME NEW d \in Fds, table'[d] = f PROVE \E w \in Variables : h[w] = d
    <3>1. CASE d = fd
      BY <3>1, <1>2
    <3>2. CASE d # fd
      <4>1. PICK w \in Variables : hold[f][w] = d
        BY <3>2, <2>3, <1>4, <1>5 DEF Agree
      <4>2. w # v
        BY <4>1, <1>5 DEF Agree, Fds
      <4> QED
        BY <4>1, <4>2, <1>2
    <3> QED
      BY <3>1, <3>2
  <2> QED
    BY <2>1, <2>2, <2>3 DEF Agree
<1>8. \A d \in Fds : table'[d] = table[d] \/ (table[d] \in {f, Free} /\ table'[d] \in {f, Free})
  BY <1>1, <1>4
<1> QED
  BY <1>2, <1>3, <1>4, <1>7, <1>8, LocalStep DEF Goto

\* A descriptor is closed and the variable that held it forgets it.
LEMMA CloseStep ==
  ASSUME IInv, NEW f \in Frames, NEW v \in Variables, NEW s \in Stages,
         Holds(stage[f], v),
         \A w \in Variables : Holds(s, w) <=> Holds(stage[f], w) /\ w # v,
         table' = Closed({hold[f][v]}), Holding(f, v, -1), Goto(f, s)
  PROVE  Owned'
<1> DEFINE fd == hold[f][v]
           h == [hold[f] EXCEPT ![v] = -1]
<1>1. Agree(f, stage[f], hold[f], table)
  BY DEF IInv, AllAgree
<1>2. fd \in Fds /\ table[fd] = f
  BY <1>1 DEF Agree
<1>3. h \in [Variables -> Fds \cup {-1}] /\ h[v] = -1
      /\ \A w \in Variables : w # v => h[w] = hold[f][w]
  BY DEF IInv, Typed
<1>4. hold' = [hold EXCEPT ![f] = h]
  BY DEF IInv, Typed, Holding
<1>5. /\ table' \in [Fds -> Frames \cup {Free}]
      /\ table'[fd] = Free /\ \A d \in Fds : d # fd => table'[d] = table[d]
  BY <1>2 DEF IInv, Typed, Closed
<1>6. \A w \in Variables : w # v => hold[f][w] # fd
  BY <1>1, <1>2 DEF Agree, Fds
<1> HIDE DEF h
<1>7. Agree(f, s, h, table')
  <2>1. \A w \in Variables : IF Holds(s, w) THEN h[w] \in Fds /\ table'[h[w]] = f ELSE h[w] = -1
    BY <1>1, <1>3, <1>5, <1>6 DEF Agree
  <2>2. \A w, x \in Variables : h[w] = h[x] /\ h[w] # -1 => w = x
    BY <1>1, <1>3 DEF Agree
  <2>3. ASSUME NEW d \in Fds, table'[d] = f PROVE \E w \in Variables : h[w] = d
    <3>1. d # fd
      BY <2>3, <1>5, FrameAssumption
    <3>2. PICK w \in Variables : hold[f][w] = d
      BY <3>1, <2>3, <1>1, <1>5 DEF Agree
    <3> QED
      BY <3>1, <3>2, <1>3
  <2> QED
    BY <2>1, <2>2, <2>3 DEF Agree
<1>8. \A d \in Fds : table'[d] = table[d] \/ (table[d] \in {f, Free} /\ table'[d] \in {f, Free})
  BY <1>2, <1>5
<1> QED
  BY <1>3, <1>4, <1>5, <1>7, <1>8, LocalStep DEF Goto

\* A descriptor moves from one variable of a frame to another.
LEMMA MoveStep ==
  ASSUME IInv, NEW f \in Frames, NEW v \in Variables, NEW u \in Variables, NEW s \in Stages,
         Holds(stage[f], v), ~Holds(stage[f], u),
         \A w \in Variables : Holds(s, w) <=> (w = u \/ (Holds(stage[f], w) /\ w # v)),
         hold' = [hold EXCEPT ![f] = [hold[f] EXCEPT ![u] = hold[f][v], ![v] = -1]],
         Goto(f, s), table' = table
  PROVE  Owned'
<1> DEFINE fd == hold[f][v]
           h == [hold[f] EXCEPT ![u] = fd, ![v] = -1]
<1>1. Agree(f, stage[f], hold[f], table)
  BY DEF IInv, AllAgree
<1>2. fd \in Fds /\ table[fd] = f /\ u # v
  BY <1>1 DEF Agree
<1>3. h \in [Variables -> Fds \cup {-1}] /\ h[v] = -1 /\ h[u] = fd
      /\ \A w \in Variables : w # v /\ w # u => h[w] = hold[f][w]
  BY <1>2 DEF IInv, Typed
<1>4. hold' = [hold EXCEPT ![f] = h]
  OBVIOUS
<1>5. \A w \in Variables : w # v => hold[f][w] # fd
  BY <1>1, <1>2 DEF Agree, Fds
<1> HIDE DEF h
<1>6. Agree(f, s, h, table)
  <2>1. \A w \in Variables : IF Holds(s, w) THEN h[w] \in Fds /\ table[h[w]] = f ELSE h[w] = -1
    BY <1>1, <1>2, <1>3 DEF Agree
  <2>2. \A w, x \in Variables : h[w] = h[x] /\ h[w] # -1 => w = x
    BY <1>1, <1>3, <1>5 DEF Agree
  <2>3. ASSUME NEW d \in Fds, table[d] = f PROVE \E w \in Variables : h[w] = d
    <3>1. PICK w \in Variables : hold[f][w] = d
      BY <2>3, <1>1 DEF Agree
    <3>2. w # u
      BY <3>1, <1>1 DEF Agree, Fds
    <3> QED
      BY <3>1, <3>2, <1>3
  <2> QED
    BY <2>1, <2>2, <2>3 DEF Agree
<1>7. table' \in [Fds -> Frames \cup {Free}]
  BY DEF IInv, Typed
<1> QED
  BY <1>3, <1>4, <1>6, <1>7, LocalStep DEF Goto

\* A step that only changes the stage, between stages that hold the same.
LEMMA StageStep ==
  ASSUME IInv, NEW f \in Frames, NEW s \in Stages,
         \A w \in Variables : Holds(s, w) <=> Holds(stage[f], w),
         Goto(f, s), UNCHANGED <<hold, table>>
  PROVE  Owned'
<1>1. hold' = [hold EXCEPT ![f] = hold[f]] /\ hold[f] \in [Variables -> Fds \cup {-1}]
  BY DEF IInv, Typed
<1>2. Agree(f, s, hold[f], table')
  BY DEF IInv, AllAgree, Agree
<1>3. table' \in [Fds -> Frames \cup {Free}]
  BY DEF IInv, Typed
<1> QED
  BY <1>1, <1>2, <1>3, LocalStep DEF Goto

\* The heap's descriptor is closed once the buffer's has been opened.
LEMMA ReplaceStep ==
  ASSUME IInv, NEW f \in Frames, At(f, "heap_alloc"), FreeFds # {},
         table' = [Opened(f, Min(FreeFds)) EXCEPT ![hold[f].heap] = Free],
         hold' = [hold EXCEPT ![f].buffer = Min(FreeFds), ![f].heap = -1],
         Goto(f, "map")
  PROVE  Owned'
<1> DEFINE fd == Min(FreeFds)
           old == hold[f]["heap"]
           h == [hold[f] EXCEPT !["buffer"] = fd, !["heap"] = -1]
<1>1. fd \in Fds /\ table[fd] = Free
  BY MinIsFree DEF FreeFds
<1> HIDE DEF fd
<1>2. Agree(f, "heap_alloc", hold[f], table)
  BY DEF IInv, AllAgree, At
<1>3. /\ old \in Fds /\ table[old] = f
      /\ \A v \in Variables : v # "heap" => hold[f][v] = -1
      /\ \A d \in Fds : table[d] = f => d = old
  <2>1. \A v \in Variables : Holds("heap_alloc", v) <=> v = "heap"
    BY DEF Holds
  <2>2. "heap" \in Variables
    BY VariablesAre
  <2>3. \A d \in Fds : d # -1
    BY DEF Fds
  <2> QED
    BY <1>2, <2>1, <2>2, <2>3 DEF Agree
<1>4. fd # old
  BY <1>1, <1>3, FrameAssumption
<1>5. /\ h \in [Variables -> Fds \cup {-1}] /\ h["buffer"] = fd
      /\ \A v \in Variables : v # "buffer" => h[v] = -1
  BY <1>1, <1>3, VariablesAre DEF IInv, Typed
<1>6. hold' = [hold EXCEPT ![f] = h]
  BY DEF IInv, Typed, fd
<1>7. /\ table' \in [Fds -> Frames \cup {Free}]
      /\ table'[fd] = f /\ table'[old] = Free
      /\ \A d \in Fds : d # fd /\ d # old => table'[d] = table[d]
  BY <1>1, <1>3, <1>4 DEF IInv, Typed, Opened, fd
<1> HIDE DEF h, old
<1>8. Agree(f, "map", h, table')
  <2>1. \A v \in Variables : Holds("map", v) <=> v = "buffer"
    BY DEF Holds
  <2>2. "buffer" \in Variables
    BY VariablesAre
  <2>3. \A d \in Fds : table'[d] = f => d = fd
    BY <1>3, <1>7, FrameAssumption
  <2> QED
    BY <1>1, <1>5, <1>7, <2>1, <2>2, <2>3 DEF Agree
<1>9. \A d \in Fds : table'[d] = table[d] \/ (table[d] \in {f, Free} /\ table'[d] \in {f, Free})
  BY <1>1, <1>3, <1>7
<1> QED
  BY <1>5, <1>6, <1>7, <1>8, <1>9, LocalStep DEF Goto, Stages

\* The descriptors opened for a frame are those its variables hold.
LEMMA HeldAre ==
  ASSUME IInv, NEW f \in Frames
  PROVE  \A fd \in Fds : table[fd] = f <=>
           \E v \in Variables : Holds(stage[f], v) /\ hold[f][v] = fd
<1>1. Agree(f, stage[f], hold[f], table)
  BY DEF IInv, AllAgree
<1>2. \A fd \in Fds : fd # -1
  BY DEF Fds
<1> QED
  BY <1>1, <1>2 DEF Agree

-----------------------------------------------------------------------------
(* The steps.                                                              *)

LEMMA ConstructStep ==
  ASSUME IInv, NEW f \in Frames, Construct(f)
  PROVE  IInv'
<1> USE DEF At
<1>1. CASE OpenHeap(f)
  <2>1. Owned'
    <3>1. CASE stage' = [stage EXCEPT ![f] = "heap_alloc"]
      <4>1. FreeFds # {} /\ table' = Opened(f, Min(FreeFds)) /\ Holding(f, "heap", Min(FreeFds))
        BY <1>1, <3>1 DEF OpenHeap, Goto, IInv, Typed
      <4>2. \A w \in Variables : Holds("heap_alloc", w) <=> Holds(stage[f], w) \/ w = "heap"
        BY <1>1 DEF OpenHeap, Holds
      <4>3. "heap" \in Variables /\ "heap_alloc" \in Stages /\ ~Holds(stage[f], "heap")
        BY <1>1, VariablesAre DEF OpenHeap, Holds, Stages
      <4> QED
        BY <3>1, <4>1, <4>2, <4>3, OpenStep DEF Goto
    <3>2. CASE Goto(f, "memfd") /\ UNCHANGED <<hold, table>>
      <4>1. \A w \in Variables : Holds("memfd", w) <=> Holds(stage[f], w)
        BY <1>1 DEF OpenHeap, Holds
      <4> QED
        BY <3>2, <4>1, StageStep DEF Stages
    <3> QED
      BY <1>1, <3>1, <3>2 DEF OpenHeap, Goto
  <2>2. Pages' /\ Typed'
    BY <1>1, <2>1 DEF OpenHeap, Goto, IInv, Typed, Pages, Owned
  <2> QED
    BY <2>1, <2>2 DEF IInv, Owned
<1>2. CASE HeapAlloc(f)
  <2>1. Owned'
    <3>1. CASE Goto(f, "map")
      <4>1. /\ FreeFds # {}
            /\ table' = [Opened(f, Min(FreeFds)) EXCEPT ![hold[f].heap] = Free]
            /\ hold' = [hold EXCEPT ![f].buffer = Min(FreeFds), ![f].heap = -1]
        BY <1>2, <3>1 DEF HeapAlloc, Goto, IInv, Typed
      <4> QED
        BY <1>2, <3>1, <4>1, ReplaceStep DEF HeapAlloc
    <3>2. CASE table' = Closed({hold[f]["heap"]}) /\ Holding(f, "heap", -1) /\ Goto(f, "memfd")
      <4>1. \A w \in Variables : Holds("memfd", w) <=> Holds(stage[f], w) /\ w # "heap"
        BY <1>2 DEF HeapAlloc, Holds
      <4>2. "heap" \in Variables /\ "memfd" \in Stages /\ Holds(stage[f], "heap")
        BY <1>2, VariablesAre DEF HeapAlloc, Holds, Stages
      <4> QED
        BY <3>2, <4>1, <4>2, CloseStep
    <3> QED
      BY <1>2, <3>1, <3>2 DEF HeapAlloc
  <2>2. Pages' /\ Typed'
    BY <1>2, <2>1 DEF HeapAlloc, Goto, IInv, Typed, Pages, Owned
  <2> QED
    BY <2>1, <2>2 DEF IInv, Owned
<1>3. CASE CreateMemfd(f)
  <2>1. CASE Gone(f, {})
    <3>1. \A fd \in Fds : fd \in {} <=> table[fd] = f
      BY <1>3, HeldAre DEF CreateMemfd, Holds
    <3> QED
      BY <2>1, <3>1, GoneStep
  <2>2. CASE /\ FreeFds # {} /\ table' = Opened(f, Min(FreeFds))
             /\ Holding(f, "buffer", Min(FreeFds)) /\ Goto(f, "map")
             /\ UNCHANGED <<wmap, filled, signal, refs>>
    <3>1. \A w \in Variables : Holds("map", w) <=> Holds(stage[f], w) \/ w = "buffer"
      BY <1>3 DEF CreateMemfd, Holds
    <3>2. "buffer" \in Variables /\ "map" \in Stages /\ ~Holds(stage[f], "buffer")
      BY <1>3, VariablesAre DEF CreateMemfd, Holds, Stages
    <3>3. Owned'
      BY <2>2, <3>1, <3>2, OpenStep
    <3>4. Pages' /\ Typed'
      BY <2>2, <3>3 DEF Goto, IInv, Typed, Pages, Owned
    <3> QED
      BY <3>3, <3>4 DEF IInv, Owned
  <2> QED
    BY <1>3, <2>1, <2>2 DEF CreateMemfd
<1>4. CASE MapWritable(f)
  <2>1. CASE Gone(f, {hold[f]["buffer"]})
    <3>1. \A v \in Variables : Holds(stage[f], v) <=> v = "buffer"
      BY <1>4 DEF MapWritable, Holds
    <3>2. \A fd \in Fds : fd \in {hold[f]["buffer"]} <=> table[fd] = f
      BY <3>1, HeldAre, VariablesAre
    <3> QED
      BY <2>1, <3>2, GoneStep
  <2>2. CASE /\ wmap' = [wmap EXCEPT ![f] = TRUE] /\ Goto(f, "fill")
             /\ UNCHANGED <<hold, filled, signal, refs, table>>
    <3>1. \A w \in Variables : Holds("fill", w) <=> Holds(stage[f], w)
      BY <1>4 DEF MapWritable, Holds
    <3>2. Owned'
      BY <2>2, <3>1, StageStep DEF Stages
    <3>3. Pages' /\ Typed'
      BY <2>2, <3>2 DEF Goto, IInv, Typed, Pages, Owned
    <3> QED
      BY <3>2, <3>3 DEF IInv, Owned
  <2> QED
    BY <1>4, <2>1, <2>2 DEF MapWritable
<1>5. CASE Fill(f)
  <2>1. \A w \in Variables : Holds("eventfd", w) <=> Holds(stage[f], w)
    BY <1>5 DEF Fill, Holds
  <2>2. Owned'
    BY <1>5, <2>1, StageStep DEF Fill, Stages
  <2>3. Pages' /\ Typed'
    BY <1>5, <2>2 DEF Fill, Goto, IInv, Typed, Pages, Owned
  <2> QED
    BY <2>2, <2>3 DEF IInv, Owned
<1>6. CASE CreateFence(f)
  <2>1. CASE Gone(f, {hold[f]["buffer"]})
    <3>1. \A v \in Variables : Holds(stage[f], v) <=> v = "buffer"
      BY <1>6 DEF CreateFence, Holds
    <3>2. \A fd \in Fds : fd \in {hold[f]["buffer"]} <=> table[fd] = f
      BY <3>1, HeldAre, VariablesAre
    <3> QED
      BY <2>1, <3>2, GoneStep
  <2>2. CASE /\ FreeFds # {} /\ table' = Opened(f, Min(FreeFds))
             /\ Holding(f, "fence", Min(FreeFds)) /\ Goto(f, "signal")
             /\ UNCHANGED <<wmap, filled, signal, refs>>
    <3>1. \A w \in Variables : Holds("signal", w) <=> Holds(stage[f], w) \/ w = "fence"
      BY <1>6 DEF CreateFence, Holds
    <3>2. "fence" \in Variables /\ "signal" \in Stages /\ ~Holds(stage[f], "fence")
      BY <1>6, VariablesAre DEF CreateFence, Holds, Stages
    <3>3. Owned'
      BY <2>2, <3>1, <3>2, OpenStep
    <3>4. Pages' /\ Typed'
      BY <1>6, <2>2, <3>3 DEF CreateFence, Goto, IInv, Typed, Pages, Owned
    <3> QED
      BY <3>3, <3>4 DEF IInv, Owned
  <2> QED
    BY <1>6, <2>1, <2>2 DEF CreateFence
<1>7. CASE SignalFence(f)
  <2>1. CASE Gone(f, {hold[f]["buffer"], hold[f]["fence"]})
    <3>1. \A v \in Variables : Holds(stage[f], v) <=> v \in {"buffer", "fence"}
      BY <1>7 DEF SignalFence, Holds
    <3>2. \A fd \in Fds : fd \in {hold[f]["buffer"], hold[f]["fence"]} <=> table[fd] = f
      BY <3>1, HeldAre, VariablesAre
    <3> QED
      BY <2>1, <3>2, GoneStep
  <2>2. CASE /\ signal' = [signal EXCEPT ![f] = 1] /\ Goto(f, "captured")
             /\ UNCHANGED <<hold, wmap, filled, refs, table>>
    <3>1. \A w \in Variables : Holds("captured", w) <=> Holds(stage[f], w)
      BY <1>7 DEF SignalFence, Holds
    <3>2. Owned'
      BY <2>2, <3>1, StageStep DEF Stages
    <3>3. Pages' /\ Typed'
      BY <1>7, <2>2, <3>2 DEF SignalFence, Goto, IInv, Typed, Pages, Owned
    <3> QED
      BY <3>2, <3>3 DEF IInv, Owned
  <2> QED
    BY <1>7, <2>1, <2>2 DEF SignalFence
<1> QED
  BY <1>1, <1>2, <1>3, <1>4, <1>5, <1>6, <1>7 DEF Construct

LEMMA AdoptStep ==
  ASSUME IInv, NEW f \in Frames, Adopt(f)
  PROVE  IInv'
<1> USE DEF At
<1>1. CASE TakeBufferFd(f)
  <2>1. \A w \in Variables : Holds("taking", w) <=>
          (w = "rustBuffer" \/ (Holds(stage[f], w) /\ w # "buffer"))
    BY <1>1 DEF TakeBufferFd, Holds
  <2>2. /\ "buffer" \in Variables /\ "rustBuffer" \in Variables /\ "taking" \in Stages
        /\ Holds(stage[f], "buffer") /\ ~Holds(stage[f], "rustBuffer")
    BY <1>1, VariablesAre DEF TakeBufferFd, Holds, Stages
  <2>3. hold' = [hold EXCEPT ![f] = [hold[f] EXCEPT !["rustBuffer"] = hold[f]["buffer"], !["buffer"] = -1]]
    BY <1>1, <2>2 DEF TakeBufferFd, IInv, Typed
  <2>4. Owned'
    <3>1. Goto(f, "taking") /\ table' = table
      BY <1>1 DEF TakeBufferFd
    <3> QED
      BY <2>1, <2>2, <2>3, <3>1, MoveStep, ZenonT(60)
  <2>5. Pages' /\ Typed'
    BY <1>1, <2>4 DEF TakeBufferFd, Goto, IInv, Typed, Pages, Owned
  <2> QED
    BY <2>4, <2>5 DEF IInv, Owned
<1>2. CASE TakeFenceFd(f)
  <2>1. \A w \in Variables : Holds("taken", w) <=>
          (w = "rustFence" \/ (Holds(stage[f], w) /\ w # "fence"))
    BY <1>2 DEF TakeFenceFd, Holds
  <2>2. /\ "fence" \in Variables /\ "rustFence" \in Variables /\ "taken" \in Stages
        /\ Holds(stage[f], "fence") /\ ~Holds(stage[f], "rustFence")
    BY <1>2, VariablesAre DEF TakeFenceFd, Holds, Stages
  <2>3. hold' = [hold EXCEPT ![f] = [hold[f] EXCEPT !["rustFence"] = hold[f]["fence"], !["fence"] = -1]]
    BY <1>2, <2>2 DEF TakeFenceFd, IInv, Typed
  <2>4. Owned'
    <3>1. Goto(f, "taken") /\ table' = table
      BY <1>2 DEF TakeFenceFd
    <3> QED
      BY <2>1, <2>2, <2>3, <3>1, MoveStep, ZenonT(60)
  <2>5. Pages' /\ Typed'
    BY <1>2, <2>4 DEF TakeFenceFd, Goto, IInv, Typed, Pages, Owned
  <2> QED
    BY <2>4, <2>5 DEF IInv, Owned
<1>3. CASE WaitForFence(f)
  <2>1. \A w \in Variables : Holds("map_read", w) <=> Holds(stage[f], w) /\ w # "rustFence"
    BY <1>3 DEF WaitForFence, Holds
  <2>2. "rustFence" \in Variables /\ "map_read" \in Stages /\ Holds(stage[f], "rustFence")
    BY <1>3, VariablesAre DEF WaitForFence, Holds, Stages
  <2>3. Owned'
    BY <1>3, <2>1, <2>2, CloseStep DEF WaitForFence
  <2>4. Pages' /\ Typed'
    BY <1>3, <2>3 DEF WaitForFence, Goto, IInv, Typed, Pages, Owned
  <2> QED
    BY <2>3, <2>4 DEF IInv, Owned
<1>4. CASE MapReadOnly(f)
  <2>1. CASE Gone(f, {hold[f]["rustBuffer"]})
    <3>1. \A v \in Variables : Holds(stage[f], v) <=> v = "rustBuffer"
      BY <1>4 DEF MapReadOnly, Holds
    <3>2. \A fd \in Fds : fd \in {hold[f]["rustBuffer"]} <=> table[fd] = f
      BY <3>1, HeldAre, VariablesAre
    <3> QED
      BY <2>1, <3>2, GoneStep
  <2>2. CASE /\ refs' = [refs EXCEPT ![f] = 1] /\ Goto(f, "leased")
             /\ UNCHANGED <<hold, wmap, filled, signal, table>>
    <3>1. \A w \in Variables : Holds("leased", w) <=> Holds(stage[f], w)
      BY <1>4 DEF MapReadOnly, Holds
    <3>2. Owned'
      BY <2>2, <3>1, StageStep DEF Stages
    <3>3. Pages' /\ Typed'
      BY <1>4, <2>2, <3>2 DEF MapReadOnly, Goto, IInv, Typed, Pages, Owned
    <3> QED
      BY <3>2, <3>3 DEF IInv, Owned
  <2> QED
    BY <1>4, <2>1, <2>2 DEF MapReadOnly
<1>5. CASE DropRaw(f)
  <2>1. \A w \in Variables : Holds("fence", w) <=> Holds(stage[f], w)
    BY <1>5 DEF DropRaw, Holds
  <2>2. /\ "buffer" \in Variables /\ "fence" \in Variables /\ "fence" \in Stages
        /\ ~Holds(stage[f], "buffer") /\ ~Holds(stage[f], "fence")
    BY <1>5, VariablesAre DEF DropRaw, Holds, Stages
  <2>3. hold[f]["buffer"] = -1 /\ hold[f]["fence"] = -1
    BY <2>2 DEF IInv, AllAgree, Agree
  <2>4. hold' = hold
    BY <1>5, <2>2, <2>3 DEF DropRaw, IInv, Typed
  <2>5. table' = table
    <3>1. {hold[f]["buffer"], hold[f]["fence"]} \cap Fds = {}
      BY <2>3 DEF Fds
    <3> QED
      BY <1>5, <3>1 DEF DropRaw, Closed, IInv, Typed
  <2>6. Owned'
    BY <1>5, <2>1, <2>2, <2>4, <2>5, StageStep DEF DropRaw
  <2>7. Pages' /\ Typed'
    BY <1>5, <2>6 DEF DropRaw, Goto, IInv, Typed, Pages, Owned
  <2> QED
    BY <2>6, <2>7 DEF IInv, Owned
<1> QED
  BY <1>1, <1>2, <1>3, <1>4, <1>5 DEF Adopt

\* The invariant holds initially and every step keeps it.
LEMMA InitIInv == FrameInit => IInv
<1> SUFFICES ASSUME FrameInit PROVE IInv
  OBVIOUS
<1>1. \A v \in Variables : Nothing[v] = -1
  BY VariablesAre
<1>2. Typed
  BY VariablesAre, FrameAssumption DEF FrameInit, Typed, Stages
<1>3. AllAgree
  BY <1>1, FrameAssumption DEF FrameInit, AllAgree, Agree, Holds
<1>4. Pages
  BY DEF FrameInit, Pages
<1> QED
  BY <1>2, <1>3, <1>4 DEF IInv

LEMMA StepIInv == IInv /\ [FrameNext]_frameVars => IInv'
<1> SUFFICES ASSUME IInv, [FrameNext]_frameVars PROVE IInv'
  OBVIOUS
<1> USE DEF At
<1>1. CASE UNCHANGED frameVars
  BY <1>1 DEF frameVars, IInv, Typed, AllAgree, Agree, Pages
<1>2. ASSUME NEW f \in Frames, CaptureNext(f) PROVE IInv'
  <2>1. \A w \in Variables : Holds("heap", w) <=> Holds(stage[f], w)
    BY <1>2 DEF CaptureNext, Holds
  <2>2. Owned'
    BY <1>2, <2>1, StageStep DEF CaptureNext, Stages
  <2>3. Pages' /\ Typed'
    BY <1>2, <2>2 DEF CaptureNext, Goto, IInv, Typed, Pages, Owned
  <2> QED
    BY <2>2, <2>3 DEF IInv, Owned
<1>3. ASSUME NEW f \in Frames, DestroyFrame(f) PROVE IInv'
  <2>1. \A v \in Variables : Holds(stage[f], v) <=> v \in {"buffer", "fence"}
    BY <1>3 DEF DestroyFrame, Holds
  <2>2. \A fd \in Fds : fd \in {hold[f]["buffer"], hold[f]["fence"]} <=> table[fd] = f
    BY <2>1, HeldAre, VariablesAre
  <2> QED
    BY <1>3, <2>2, GoneStep DEF DestroyFrame
<1>4. ASSUME NEW f \in Frames, AbandonFence(f) PROVE IInv'
  <2>1. \A v \in Variables : Holds(stage[f], v) <=> v \in {"rustBuffer", "rustFence"}
    BY <1>4 DEF AbandonFence, Holds
  <2>2. \A fd \in Fds : fd \in {hold[f]["rustBuffer"], hold[f]["rustFence"]} <=> table[fd] = f
    BY <2>1, HeldAre, VariablesAre
  <2> QED
    BY <1>4, <2>2, GoneStep DEF AbandonFence
<1>5. ASSUME NEW f \in Frames, CloneLease(f) PROVE IInv'
  <2>1. Typed' /\ Pages'
    BY <1>5 DEF CloneLease, IInv, Typed, Pages
  <2> QED
    BY <1>5, <2>1 DEF CloneLease, IInv, AllAgree, Agree
<1>6. ASSUME NEW f \in Frames, DropLease(f) PROVE IInv'
  <2>1. CASE Gone(f, {hold[f]["rustBuffer"]})
    <3>1. \A v \in Variables : Holds(stage[f], v) <=> v = "rustBuffer"
      BY <1>6 DEF DropLease, Holds
    <3>2. \A fd \in Fds : fd \in {hold[f]["rustBuffer"]} <=> table[fd] = f
      BY <3>1, HeldAre, VariablesAre
    <3> QED
      BY <2>1, <3>2, GoneStep
  <2>2. CASE /\ refs[f] # 1 /\ refs' = [refs EXCEPT ![f] = @ - 1]
             /\ UNCHANGED <<stage, hold, wmap, filled, signal, table>>
    <3>1. Typed' /\ Pages'
      BY <1>6, <2>2 DEF DropLease, IInv, Typed, Pages
    <3> QED
      BY <2>2, <3>1 DEF IInv, AllAgree, Agree
  <2> QED
    BY <1>6, <2>1, <2>2 DEF DropLease
<1> QED
  BY <1>1, <1>2, <1>3, <1>4, <1>5, <1>6, ConstructStep, AdoptStep DEF FrameNext

LEMMA Inductive == FrameSpec => []IInv
  BY InitIInv, StepIInv, PTL DEF FrameSpec

-----------------------------------------------------------------------------
\* Every open descriptor is owned by exactly one variable of the frame it was
\* opened for, through every failure path of the constructor and of from_cpp,
\* however small the descriptor table and however quickly numbers are reused.
THEOREM DescriptorsOwnedOnce == FrameSpec => []OwnedExactlyOnce
<1>1. IInv => OwnedExactlyOnce
  <2> SUFFICES ASSUME IInv, NEW fd \in Fds, NEW f \in Frames
               PROVE  Cardinality({v \in Variables : hold[f][v] = fd})
                        = IF table[fd] = f THEN 1 ELSE 0
    BY DEF OwnedExactlyOnce
  <2>1. Agree(f, stage[f], hold[f], table) /\ fd # -1
    BY DEF IInv, AllAgree, Fds
  <2>2. CASE table[fd] = f
    <3>1. PICK v \in Variables : hold[f][v] = fd
      BY <2>1, <2>2 DEF Agree
    <3>2. {w \in Variables : hold[f][w] = fd} = {v}
      BY <2>1, <3>1 DEF Agree
    <3> QED
      BY <2>2, <3>2, FS_Singleton
  <2>3. CASE table[fd] # f
    <3>1. {w \in Variables : hold[f][w] = fd} = {}
      BY <2>1, <2>3 DEF Agree
    <3> QED
      BY <2>3, <3>1, FS_EmptySet
  <2> QED
    BY <2>2, <2>3
<1> QED
  BY <1>1, Inductive, PTL

\* From take_buffer_fd on C++ has no writable mapping of the filled pages, and
\* the descriptor Rust holds stays this frame's own until the last Arc is gone,
\* for every number of frames, Arcs and descriptors.
THEOREM LeasesReadOnly == FrameSpec => []LeaseReadOnly
<1>1. IInv => LeaseReadOnly
  <2> SUFFICES ASSUME IInv, NEW f \in Frames
               PROVE  /\ hold[f]["rustBuffer"] # -1 =>
                           /\ ~wmap[f] /\ filled[f]
                           /\ hold[f]["rustBuffer"] \in Fds /\ table[hold[f]["rustBuffer"]] = f
                      /\ stage[f] = "leased" => refs[f] > 0 /\ hold[f]["rustBuffer"] # -1
    BY DEF LeaseReadOnly
  <2>1. IF Holds(stage[f], "rustBuffer")
          THEN hold[f]["rustBuffer"] \in Fds /\ table[hold[f]["rustBuffer"]] = f
          ELSE hold[f]["rustBuffer"] = -1
    BY VariablesAre DEF IInv, AllAgree, Agree
  <2>2. Holds(stage[f], "rustBuffer") <=>
          stage[f] \in {"taking", "taken", "fence", "map_read", "leased"}
    BY DEF Holds
  <2> QED
    BY <2>1, <2>2 DEF IInv, Pages, Fds
<1> QED
  BY <1>1, Inductive, PTL

\* from_cpp is only ever handed two open descriptors.
THEOREM OnlyValidAdopted == FrameSpec => []AdoptsValidDescriptors
<1>1. IInv => AdoptsValidDescriptors
  <2> SUFFICES ASSUME IInv, NEW f \in Frames, stage[f] \in {"taken", "fence"}
               PROVE  hold[f]["rustBuffer"] \in Fds /\ hold[f]["rustFence"] \in Fds
    BY DEF AdoptsValidDescriptors
  <2>1. /\ Agree(f, stage[f], hold[f], table)
        /\ Holds(stage[f], "rustBuffer") /\ Holds(stage[f], "rustFence")
    BY DEF IInv, AllAgree, Holds
  <2> QED
    BY <2>1, VariablesAre DEF Agree
<1> QED
  BY <1>1, Inductive, PTL
-----------------------------------------------------------------------------
(* The actor graph, for every number of utterances and frames and every    *)
(* capacity of the channels.                                               *)

\* What the echo channel, the VAD's last echo and the sink's counter hold, and
\* that they are consecutive.
EchoInv ==
  /\ echoQ \in Seq(Nat) /\ sequence \in Nat /\ latestEcho \in Nat \cup {None}
  /\ EchoMirrorsPlayback

\* The inductive form of InterruptBounded: when a frame has already passed the
\* pending interrupt, no further one is on its way.
BargeInv ==
  /\ overrun \in {0, 1} /\ bargeQ \in {0, 1}
  /\ bargeQ = 1 /\ overrun = 1 => playReq # "queued"

\* The inductive form of SinkFailsOnlyAtShutdown: a playback request is dropped
\* only on shutdown.
RefusalInv == (playReq = "dropped" \/ sink = "failed") => shutdown

-----------------------------------------------------------------------------
LEMMA EchoSteps ==
  Next => \/ VadShutdown \/ VadEcho \/ SinkEcho
          \/ UNCHANGED <<vad, latestEcho, echoQ, sequence>>
  BY DEF Next, Main, StartUtterance, Shutdown, Join, Proxy, ProxyShutdown,
         ProxyPlay, ProxyCapture, Mic, MicShutdown, MicTick, MicReply,
         MicAdopt, MicSend, Vad, VadMicrophone, Sink, SinkShutdown,
         SinkInterrupt, SinkStart, SinkTick, SinkReceipt, mainVars, vadVars,
         sinkVars

LEMMA BargeSteps ==
  Next => \/ ProxyShutdown \/ ProxyPlay \/ VadMicrophone
          \/ SinkInterrupt \/ SinkTick \/ SinkReceipt
          \/ UNCHANGED <<playReq, bargeQ, overrun>>
  BY DEF Next, Main, StartUtterance, Shutdown, Join, Proxy, ProxyCapture,
         Mic, MicShutdown, MicTick, MicReply, MicAdopt, MicSend, Vad,
         VadShutdown, VadEcho, Sink, SinkShutdown, SinkStart, SinkEcho,
         reqVars

LEMMA RefusalSteps ==
  Next => \/ Shutdown \/ ProxyShutdown \/ ProxyPlay
          \/ SinkShutdown \/ SinkTick \/ SinkReceipt \/ SinkEcho
          \/ UNCHANGED <<shutdown, playReq, sink>>
  BY DEF Next, Main, StartUtterance, Join, Proxy, ProxyCapture, Mic,
         MicShutdown, MicTick, MicReply, MicAdopt, MicSend, Vad, VadShutdown,
         VadEcho, VadMicrophone, Sink, SinkInterrupt, SinkStart, mainVars,
         reqVars, sinkVars

\* What VadEcho and SinkEcho do to the channel, index by index.
LEMMA ChannelFacts ==
  ASSUME NEW q \in Seq(Nat), NEW n \in Nat
  PROVE  /\ Len(q) \in Nat /\ \A i \in 1 .. Len(q) : q[i] \in Nat
         /\ Append(q, n) \in Seq(Nat) /\ Len(Append(q, n)) = Len(q) + 1
         /\ \A i \in 1 .. Len(q) + 1 :
              Append(q, n)[i] = IF i = Len(q) + 1 THEN n ELSE q[i]
         /\ q # <<>> =>
              /\ Len(q) > 0 /\ Head(q) = q[1] /\ q[1] \in Nat
              /\ Tail(q) \in Seq(Nat) /\ Len(Tail(q)) = Len(q) - 1
              /\ \A i \in 1 .. Len(q) - 1 : Tail(q)[i] = q[i + 1]
  OBVIOUS

LEMMA EchoStep ==
  ASSUME EchoInv, [Next]_vars
  PROVE  EchoInv'
<1> USE DEF EchoInv, EchoMirrorsPlayback
<1>1. CASE VadShutdown
  BY <1>1 DEF VadShutdown, sinkVars
<1>2. CASE VadEcho
  <2>1. /\ UNCHANGED <<vad, sequence>> /\ vad = "select" /\ echoQ # <<>>
        /\ latestEcho' = Head(echoQ) /\ echoQ' = Tail(echoQ)
    BY <1>2 DEF VadEcho, sinkVars
  <2>2. /\ latestEcho' = echoQ[1] /\ echoQ[1] \in Nat /\ echoQ' \in Seq(Nat)
        /\ Len(echoQ') = Len(echoQ) - 1 /\ Len(echoQ) \in Nat /\ Len(echoQ) > 0
        /\ \A i \in 1 .. Len(echoQ) - 1 : echoQ'[i] = echoQ[i + 1]
    BY <2>1, ChannelFacts
  <2>3. latestEcho' # None
    BY <2>2, GraphAssumption
  <2>4. /\ \A i \in 1 .. Len(echoQ) : echoQ[i] \in Nat
        /\ \A i \in 1 .. Len(echoQ) : echoQ[i] + Len(echoQ) - i + 1 = sequence
    BY <2>1, ChannelFacts
  <2>5. latestEcho' + Len(echoQ') + 1 = sequence
    BY <2>2, <2>4
  <2>6. ASSUME NEW i \in 1 .. Len(echoQ')
        PROVE  echoQ'[i] + Len(echoQ') - i + 1 = sequence
    <3>1. i \in Nat /\ i + 1 \in 1 .. Len(echoQ) /\ echoQ'[i] = echoQ[i + 1]
      BY <2>2
    <3>2. echoQ[i + 1] \in Nat /\ echoQ[i + 1] + Len(echoQ) - (i + 1) + 1 = sequence
      BY <2>4, <3>1
    <3> QED
      BY <2>2, <3>1, <3>2
  <2> QED
    BY <2>1, <2>2, <2>3, <2>5, <2>6
<1>3. CASE SinkEcho
  <2>1. CASE UNCHANGED <<echoQ, sequence>>
    BY <1>3, <2>1 DEF SinkEcho, vadVars
  <2>2. CASE vad = "select" /\ echoQ' = Append(echoQ, sequence) /\ sequence' = sequence + 1
    <3>1. UNCHANGED <<vad, latestEcho>>
      BY <1>3 DEF SinkEcho, vadVars
    <3>2. /\ echoQ' \in Seq(Nat) /\ Len(echoQ') = Len(echoQ) + 1 /\ Len(echoQ) \in Nat
          /\ \A i \in 1 .. Len(echoQ) + 1 :
               echoQ'[i] = IF i = Len(echoQ) + 1 THEN sequence ELSE echoQ[i]
      BY <2>2, ChannelFacts
    <3>3. /\ \A i \in 1 .. Len(echoQ) : echoQ[i] \in Nat
          /\ \A i \in 1 .. Len(echoQ) : echoQ[i] + Len(echoQ) - i + 1 = sequence
      BY <2>2, ChannelFacts
    <3>4. ASSUME NEW i \in 1 .. Len(echoQ')
          PROVE  echoQ'[i] + Len(echoQ') - i + 1 = sequence'
      <4>1. CASE i = Len(echoQ) + 1
        BY <2>2, <3>2, <4>1
      <4>2. CASE i \in 1 .. Len(echoQ)
        <5>1. i \in Nat /\ echoQ'[i] = echoQ[i]
          BY <3>2, <4>2
        <5>2. echoQ[i] \in Nat /\ echoQ[i] + Len(echoQ) - i + 1 = sequence
          BY <3>3, <4>2
        <5> QED
          BY <2>2, <3>2, <5>1, <5>2
      <4> QED
        BY <3>2, <4>1, <4>2
    <3>5. IF latestEcho = None THEN sequence' = Len(echoQ')
                               ELSE latestEcho + Len(echoQ') + 1 = sequence'
      <4>1. IF latestEcho = None THEN sequence = Len(echoQ)
                                 ELSE latestEcho + Len(echoQ) + 1 = sequence
        BY <2>2
      <4>2. latestEcho \in Nat \cup {None} /\ sequence \in Nat
        OBVIOUS
      <4>3. /\ Len(echoQ') = Len(echoQ) + 1 /\ Len(echoQ) \in Nat
            /\ sequence' = sequence + 1
        BY <2>2, <3>2
      <4> HIDE DEF EchoInv, EchoMirrorsPlayback
      <4> QED
        BY <4>1, <4>2, <4>3
    <3> QED
      BY <2>2, <3>1, <3>2, <3>4, <3>5
  <2> QED
    BY <1>3, <2>1, <2>2 DEF SinkEcho
<1>4. CASE UNCHANGED <<vad, latestEcho, echoQ, sequence>>
  BY <1>4
<1> QED
  BY <1>1, <1>2, <1>3, <1>4, EchoSteps DEF vars, vadVars, sinkVars

LEMMA BargeStep ==
  ASSUME BargeInv, [Next]_vars
  PROVE  BargeInv'
<1> USE DEF BargeInv
<1>1. CASE ProxyShutdown
  BY <1>1 DEF ProxyShutdown, Dropped
<1>2. CASE ProxyPlay
  BY <1>2 DEF ProxyPlay
<1>3. CASE VadMicrophone
  BY <1>3 DEF VadMicrophone, reqVars
<1>4. CASE SinkInterrupt
  BY <1>4 DEF SinkInterrupt, reqVars
<1>5. CASE SinkTick
  BY <1>5 DEF SinkTick
<1>6. CASE SinkReceipt
  BY <1>6 DEF SinkReceipt
<1>7. CASE UNCHANGED <<playReq, bargeQ, overrun>>
  BY <1>7
<1> QED
  BY <1>1, <1>2, <1>3, <1>4, <1>5, <1>6, <1>7, BargeSteps DEF vars, reqVars

LEMMA RefusalStep ==
  ASSUME RefusalInv, [Next]_vars
  PROVE  RefusalInv'
<1> USE DEF RefusalInv
<1>1. CASE Shutdown
  BY <1>1 DEF Shutdown, reqVars, sinkVars
<1>2. CASE ProxyShutdown
  BY <1>2 DEF ProxyShutdown, Dropped, mainVars, sinkVars
<1>3. CASE ProxyPlay
  BY <1>3 DEF ProxyPlay, mainVars, sinkVars
<1>4. CASE SinkShutdown
  BY <1>4 DEF SinkShutdown, mainVars, reqVars
<1>5. CASE SinkTick
  BY <1>5 DEF SinkTick, mainVars
<1>6. CASE SinkReceipt
  BY <1>6 DEF SinkReceipt, mainVars
<1>7. CASE SinkEcho
  BY <1>7 DEF SinkEcho, mainVars, reqVars
<1>8. CASE UNCHANGED <<shutdown, playReq, sink>>
  BY <1>8
<1> QED
  BY <1>1, <1>2, <1>3, <1>4, <1>5, <1>6, <1>7, <1>8, RefusalSteps
  DEF vars, mainVars, reqVars, sinkVars

-----------------------------------------------------------------------------
\* The echo track of run_playback_sink mirrors what the hardware took, once and
\* in order, for every capacity of the channels.
THEOREM EchoTrackIsExact == Spec => []EchoMirrorsPlayback
<1>1. Init => EchoInv
  BY DEF Init, EchoInv, EchoMirrorsPlayback
<1>2. EchoInv /\ [Next]_vars => EchoInv'
  BY EchoStep
<1>3. EchoInv => EchoMirrorsPlayback
  BY DEF EchoInv
<1> QED
  BY <1>1, <1>2, <1>3, PTL DEF Spec

\* Once an interrupt is in the capacity-one inbox, the hardware gets at most the
\* one frame that was already on its way.
THEOREM InterruptOverrunBounded == Spec => []InterruptBounded
<1>1. Init => BargeInv
  BY DEF Init, BargeInv
<1>2. BargeInv /\ [Next]_vars => BargeInv'
  BY BargeStep
<1>3. BargeInv => InterruptBounded
  BY DEF BargeInv, InterruptBounded
<1> QED
  BY <1>1, <1>2, <1>3, PTL DEF Spec

\* The sink fails only when the controller proxy has left on shutdown: no
\* capture error, slow VAD or full channel takes playback down.
THEOREM PlaybackOutlivesErrors == Spec => []SinkFailsOnlyAtShutdown
<1>1. Init => RefusalInv
  BY DEF Init, RefusalInv
<1>2. RefusalInv /\ [Next]_vars => RefusalInv'
  BY RefusalStep
<1>3. RefusalInv => SinkFailsOnlyAtShutdown
  BY DEF RefusalInv, SinkFailsOnlyAtShutdown
<1> QED
  BY <1>1, <1>2, <1>3, PTL DEF Spec
=============================================================================
