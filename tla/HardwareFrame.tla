---------------------------- MODULE HardwareFrame ----------------------------
(***************************************************************************)
(* The life of capture frames across the C++/Rust boundary: the            *)
(* constructor of HardwareFrame with its failure paths                     *)
(* (src/dorsche_core.cc), the transfer of both descriptors, the fence wait *)
(* and the shared read-only lease (src/topshim/frame.rs).                  *)
(*                                                                         *)
(* Descriptor numbers come from a small table and are reused as soon as    *)
(* they are closed, so closing one twice would close somebody else's.      *)
(* One frame at a time is captured and adopted (the proxy actor owns the   *)
(* only controller, the microphone actor awaits each frame); adopted       *)
(* frames are held by any number of Arcs.                                  *)
(***************************************************************************)
EXTENDS Integers, FiniteSets, FiniteSetsExt

CONSTANTS Frames,   \* frame objects alive at the same time
          TableSize,  \* descriptors the process may have open
          MaxRefs,  \* bound on the Arcs of one frame
          Free      \* an unused descriptor number

ASSUME FrameAssumption ==
  /\ TableSize \in Nat
  /\ MaxRefs \in Nat \ {0}
  /\ Free \notin Frames

VARIABLES
  stage,   \* frame -> where it is; "none" when there is no object
  hold,    \* frame -> the variables that hold its descriptors, -1 for none
  wmap,    \* frame -> writable_mapping_ is not null
  filled,  \* frame -> the samples have been written
  signal,  \* frame -> the fence's eventfd counter
  refs,    \* frame -> Arcs of the SharedPcmFrame
  table    \* descriptor -> the frame it was opened for, or Free

frameVars == <<stage, hold, wmap, filled, signal, refs, table>>

Fds == 0 .. TableSize - 1
Nothing == [heap |-> -1, buffer |-> -1, fence |-> -1, rustBuffer |-> -1, rustFence |-> -1]
Variables == DOMAIN Nothing

FrameInit ==
  /\ stage = [f \in Frames |-> "none"]
  /\ hold = [f \in Frames |-> Nothing]
  /\ wmap = [f \in Frames |-> FALSE]
  /\ filled = [f \in Frames |-> FALSE]
  /\ signal = [f \in Frames |-> 0]
  /\ refs = [f \in Frames |-> 0]
  /\ table = [fd \in Fds |-> Free]

\* open(2), memfd_create, eventfd: the lowest free number, if there is one.
FreeFds == {fd \in Fds : table[fd] = Free}
Opened(f, fd) == [table EXCEPT ![fd] = f]
Closed(fds) == [fd \in Fds |-> IF fd \in fds THEN Free ELSE table[fd]]

At(f, here) == stage[f] = here
Goto(f, next) == stage' = [stage EXCEPT ![f] = next]
Holding(f, variable, fd) == hold' = [hold EXCEPT ![f][variable] = fd]

\* The frame ceases to exist: `fds` are closed, its mappings go.
Gone(f, fds) ==
  /\ Goto(f, "none")
  /\ table' = Closed(fds)
  /\ hold' = [hold EXCEPT ![f] = Nothing]
  /\ wmap' = [wmap EXCEPT ![f] = FALSE]
  /\ filled' = [filled EXCEPT ![f] = FALSE]
  /\ signal' = [signal EXCEPT ![f] = 0]
  /\ refs' = [refs EXCEPT ![f] = 0]

-----------------------------------------------------------------------------
(* C++: allocate_shared_audio and the constructor.                         *)

CaptureNext(f) ==
  /\ At(f, "none")
  /\ \A g \in Frames : stage[g] \in {"none", "leased"}
  /\ Goto(f, "heap")
  /\ UNCHANGED <<hold, wmap, filled, signal, refs, table>>

OpenHeap(f) ==
  /\ At(f, "heap")
  /\ \/ /\ FreeFds # {}
        /\ LET fd == Min(FreeFds)
           IN  table' = Opened(f, fd) /\ Holding(f, "heap", fd)
        /\ Goto(f, "heap_alloc")
     \/ Goto(f, "memfd") /\ UNCHANGED <<hold, table>>
  /\ UNCHANGED <<wmap, filled, signal, refs>>

\* DMA_HEAP_IOCTL_ALLOC; the heap is closed either way.
HeapAlloc(f) ==
  /\ At(f, "heap_alloc")
  /\ \/ /\ FreeFds # {}
        /\ LET fd == Min(FreeFds)
           IN  /\ table' = [Opened(f, fd) EXCEPT ![hold[f].heap] = Free]
               /\ hold' = [hold EXCEPT ![f].buffer = fd, ![f].heap = -1]
        /\ Goto(f, "map")
     \/ /\ table' = Closed({hold[f].heap})
        /\ Holding(f, "heap", -1)
        /\ Goto(f, "memfd")
  /\ UNCHANGED <<wmap, filled, signal, refs>>

\* create_memfd: a descriptor that cannot be sized is closed again.
CreateMemfd(f) ==
  /\ At(f, "memfd")
  /\ \/ /\ FreeFds # {}
        /\ LET fd == Min(FreeFds)
           IN  table' = Opened(f, fd) /\ Holding(f, "buffer", fd)
        /\ Goto(f, "map")
        /\ UNCHANGED <<wmap, filled, signal, refs>>
     \/ Gone(f, {})

MapWritable(f) ==
  /\ At(f, "map")
  /\ \/ /\ wmap' = [wmap EXCEPT ![f] = TRUE]
        /\ Goto(f, "fill")
        /\ UNCHANGED <<hold, filled, signal, refs, table>>
     \/ Gone(f, {hold[f].buffer})

Fill(f) ==
  /\ At(f, "fill")
  /\ filled' = [filled EXCEPT ![f] = TRUE]
  /\ Goto(f, "eventfd")
  /\ UNCHANGED <<hold, wmap, signal, refs, table>>

\* Seeded fault: the constructor gives up without closing its buffer.
CreateFenceLeaking(f) ==
  /\ At(f, "eventfd")
  /\ \/ /\ FreeFds # {}
        /\ LET fd == Min(FreeFds)
           IN  table' = Opened(f, fd) /\ Holding(f, "fence", fd)
        /\ Goto(f, "signal")
        /\ UNCHANGED <<wmap, filled, signal, refs>>
     \/ Gone(f, {})

CreateFence(f) ==
  /\ At(f, "eventfd")
  /\ \/ /\ FreeFds # {}
        /\ LET fd == Min(FreeFds)
           IN  table' = Opened(f, fd) /\ Holding(f, "fence", fd)
        /\ Goto(f, "signal")
        /\ UNCHANGED <<wmap, filled, signal, refs>>
     \/ Gone(f, {hold[f].buffer})

SignalFence(f) ==
  /\ At(f, "signal")
  /\ \/ /\ signal' = [signal EXCEPT ![f] = 1]
        /\ Goto(f, "captured")
        /\ UNCHANGED <<hold, wmap, filled, refs, table>>
     \/ Gone(f, {hold[f].buffer, hold[f].fence})

\* The UniquePtr dies unadopted: the caller of capture() is gone.
DestroyFrame(f) ==
  /\ At(f, "captured")
  /\ Gone(f, {hold[f].buffer, hold[f].fence})

-----------------------------------------------------------------------------
(* Rust: SharedPcmFrame::from_cpp, wait_for_fence, the Arcs.               *)

\* Seeded fault: the exchange is forgotten and C++ keeps the number as well.
TakeBufferFdKeepsFd(f) ==
  /\ At(f, "captured")
  /\ Holding(f, "rustBuffer", hold[f].buffer)
  /\ wmap' = [wmap EXCEPT ![f] = FALSE]
  /\ Goto(f, "taking")
  /\ UNCHANGED <<filled, signal, refs, table>>

\* unmap_writable and the exchange of buffer_fd_ with -1.
TakeBufferFd(f) ==
  /\ At(f, "captured")
  /\ hold' = [hold EXCEPT ![f].rustBuffer = hold[f].buffer, ![f].buffer = -1]
  /\ wmap' = [wmap EXCEPT ![f] = FALSE]
  /\ Goto(f, "taking")
  /\ UNCHANGED <<filled, signal, refs, table>>

\* Seeded fault: the fence is taken a second time.
TakeFenceFdTwice(f) ==
  /\ At(f, "taking")
  /\ hold' = [hold EXCEPT ![f].rustFence = -1, ![f].fence = -1]
  /\ Goto(f, "taken")
  /\ UNCHANGED <<wmap, filled, signal, refs, table>>

TakeFenceFd(f) ==
  /\ At(f, "taking")
  /\ hold' = [hold EXCEPT ![f].rustFence = hold[f].fence, ![f].fence = -1]
  /\ Goto(f, "taken")
  /\ UNCHANGED <<wmap, filled, signal, refs, table>>

\* drop(raw): the destructor unmaps what is still mapped and closes what C++
\* still holds, which is nothing if both transfers were complete.
DropRaw(f) ==
  /\ At(f, "taken")
  /\ table' = Closed({hold[f].buffer, hold[f].fence} \cap Fds)
  /\ hold' = [hold EXCEPT ![f].buffer = -1, ![f].fence = -1]
  /\ wmap' = [wmap EXCEPT ![f] = FALSE]
  /\ Goto(f, "fence")
  /\ UNCHANGED <<filled, signal, refs>>

\* readable() and read_exact; the AsyncFd closes the fence on return.
WaitForFence(f) ==
  /\ At(f, "fence")
  /\ signal[f] > 0
  /\ signal' = [signal EXCEPT ![f] = 0]
  /\ table' = Closed({hold[f].rustFence})
  /\ Holding(f, "rustFence", -1)
  /\ Goto(f, "map_read")
  /\ UNCHANGED <<wmap, filled, refs>>

\* AsyncFd::new fails, or the future is dropped at its await.
AbandonFence(f) ==
  /\ At(f, "fence")
  /\ Gone(f, {hold[f].rustBuffer, hold[f].rustFence})

MapReadOnly(f) ==
  /\ At(f, "map_read")
  /\ \/ /\ refs' = [refs EXCEPT ![f] = 1]
        /\ Goto(f, "leased")
        /\ UNCHANGED <<hold, wmap, filled, signal, table>>
     \/ Gone(f, {hold[f].rustBuffer})

CloneLease(f) ==
  /\ At(f, "leased")
  /\ refs[f] < MaxRefs
  /\ refs' = [refs EXCEPT ![f] = @ + 1]
  /\ UNCHANGED <<stage, hold, wmap, filled, signal, table>>

DropLease(f) ==
  /\ At(f, "leased")
  /\ IF refs[f] = 1
       THEN Gone(f, {hold[f].rustBuffer})
       ELSE /\ refs' = [refs EXCEPT ![f] = @ - 1]
            /\ UNCHANGED <<stage, hold, wmap, filled, signal, table>>

-----------------------------------------------------------------------------
Construct(f) ==
  \/ OpenHeap(f) \/ HeapAlloc(f) \/ CreateMemfd(f) \/ MapWritable(f) \/ Fill(f)
  \/ CreateFence(f) \/ SignalFence(f)

Adopt(f) ==
  \/ TakeBufferFd(f) \/ TakeFenceFd(f) \/ DropRaw(f)
  \/ WaitForFence(f) \/ MapReadOnly(f)

FrameNext ==
  \E f \in Frames :
    \/ CaptureNext(f) \/ Construct(f) \/ DestroyFrame(f)
    \/ Adopt(f) \/ AbandonFence(f) \/ CloneLease(f) \/ DropLease(f)

FrameSpec == FrameInit /\ [][FrameNext]_frameVars

-----------------------------------------------------------------------------
(* Properties.                                                             *)

\* take_buffer_fd and take_fence_fd are linear moves and every failure path of
\* the constructor and of from_cpp cleans up: each open descriptor is held by
\* exactly one variable of the frame it was opened for, and no variable holds
\* a number that is closed or has been reused for another frame.
OwnedExactlyOnce ==
  \A fd \in Fds, f \in Frames :
    Cardinality({v \in Variables : hold[f][v] = fd}) = IF table[fd] = f THEN 1 ELSE 0

\* "End C++ CPU access before fd ownership crosses the language boundary", and
\* the SAFETY comments of from_cpp and Deref: from the moment Rust has the
\* buffer's descriptor, C++ has no writable mapping of the filled pages, and
\* that descriptor stays open for this frame and no other, through drop(raw)
\* and any reuse of numbers, for as long as an Arc can read the pages.
LeaseReadOnly ==
  \A f \in Frames :
    /\ hold[f].rustBuffer # -1 =>
         /\ ~wmap[f] /\ filled[f]
         /\ hold[f].rustBuffer \in Fds /\ table[hold[f].rustBuffer] = f
    /\ stage[f] = "leased" => refs[f] > 0 /\ hold[f].rustBuffer # -1

\* from_cpp is never handed an invalid descriptor: its two checks of them, of
\* which the first would leave the fence open, cannot fire.
AdoptsValidDescriptors ==
  \A f \in Frames : stage[f] \in {"taken", "fence"} =>
    hold[f].rustBuffer \in Fds /\ hold[f].rustFence \in Fds
=============================================================================
