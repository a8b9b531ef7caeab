------------------------- MODULE ClassicAudioProofs --------------------------
(***************************************************************************)
(* Classic audio: SCO under the kernel patches, and the A2DP smoke test.   *)
(*                                                                         *)
(* BtusbSco: the safety of SCO transmit against changes of the alternate   *)
(* setting, for any set of sending threads, any choice of settings and any *)
(* number of notifications.                                                *)
(*                                                                         *)
(* The invariants are not inductive by themselves: whether a URB fits the  *)
(* setting depends on who may change it in between.  IInv adds what the    *)
(* mutex protects: a sender past mutex_lock and the work item between its  *)
(* lock and its unlock are the holder, a built URB fits the setting, and   *)
(* while the setting is being changed nothing runs and nothing is in       *)
(* flight.                                                                 *)
(*                                                                         *)
(* A2dpSmoke: no start races a suspend, and success sends the whole        *)
(* source, for every tone, file, chunk size and number of runs.  WholeInv  *)
(* counts the bytes of the writes done so far in closed form.              *)
(***************************************************************************)
EXTENDS Integers, BtusbSco, A2dpSmoke, TLAPS

MutexHeld ==
  /\ \A s \in Senders : sender[s] \in {"build", "submit"} <=> mutex = s
  /\ work \in {"kill", "set", "settle"} <=> mutex = "work"

BuiltUrbFits == \A s \in Senders : sender[s] = "submit" => urb[s] = alt

QuietDuringSwitch == work = "set" => ~running /\ inFlight = NoUrbs

IInv ==
  /\ TypeOK
  /\ MutexHeld
  /\ BuiltUrbFits
  /\ QuietDuringSwitch
  /\ ep => alt # 0
  /\ RunningHasEndpoint
  /\ InFlightFitsSetting
  /\ NoStaleSubmission

\* An anchor without URBs.
LEMMA NoUrbsEmpty ==
  /\ NoUrbs \in [Alts -> 0 .. MaxInFlight]
  /\ \A a \in Alts : ~(NoUrbs[a] > 0)
  BY BtusbAssumption DEF NoUrbs

\* The initial state of the driver after btusb_probe satisfies the invariant.
LEMMA InitIInv == Init => IInv
<1> SUFFICES ASSUME Init PROVE IInv
  OBVIOUS
<1>1. TypeOK
  <2>1. notified \in 0 .. MaxNotify
    BY BtusbAssumption DEF Init
  <2>2. inFlight \in [Alts -> 0 .. MaxInFlight]
    BY NoUrbsEmpty DEF Init
  <2>3. alt \in Alts /\ newAlts \in Alts /\ urb \in [Senders -> Alts]
    BY DEF Init, Alts
  <2> QED BY <2>1, <2>2, <2>3 DEF Init, TypeOK
<1>2. MutexHeld
  BY BtusbAssumption DEF Init, MutexHeld
<1> QED
  BY <1>1, <1>2, NoUrbsEmpty
  DEF Init, IInv, BuiltUrbFits, QuietDuringSwitch, RunningHasEndpoint, InFlightFitsSetting,
      NoStaleSubmission

\* floss_notify_sco_connection_change touches nothing the mutex protects.
LEMMA NotifyIInv == ASSUME IInv, Notify PROVE IInv'
<1>1. PICK connected \in BOOLEAN, c \in Codecs : NotifyScoConnectionChange(connected, c)
  BY DEF Notify
<1>2. UNCHANGED <<work, newAlts, mutex, usbVars, sendVars, inFlight, setFailed>>
  BY <1>1 DEF NotifyScoConnectionChange
<1>3. TypeOK'
  <2>1. notified' \in 0 .. MaxNotify
    BY <1>1, BtusbAssumption DEF NotifyScoConnectionChange, IInv, TypeOK
  <2>2. conn' \in BOOLEAN
    BY <1>1 DEF NotifyScoConnectionChange, IInv, TypeOK
  <2>3. scoNum' \in {0, 1} /\ airMode' \in AirModes /\ pending' \in BOOLEAN
    BY <1>1 DEF NotifyScoConnectionChange, DriverNotify, AirMode, AirModes, IInv, TypeOK
  <2> QED BY <1>2, <2>1, <2>2, <2>3 DEF IInv, TypeOK, usbVars, sendVars
<1> QED
  BY <1>2, <1>3
  DEF IInv, MutexHeld, BuiltUrbFits, QuietDuringSwitch, RunningHasEndpoint,
      InFlightFitsSetting, NoStaleSubmission, usbVars, sendVars

\* Every step of btusb_work and btusb_switch_alt_setting keeps the invariant.
LEMMA WorkIInv == ASSUME IInv, WorkStep PROVE IInv'
<1> USE BtusbAssumption
<1>1. CASE BtusbWork
  BY <1>1
  DEF BtusbWork, IInv, TypeOK, MutexHeld, BuiltUrbFits, QuietDuringSwitch, RunningHasEndpoint,
      InFlightFitsSetting, NoStaleSubmission, hciVars, usbVars, sendVars, Alts, AirModes
<1>2. CASE SwitchLock
  BY <1>2
  DEF SwitchLock, IInv, TypeOK, MutexHeld, BuiltUrbFits, QuietDuringSwitch, RunningHasEndpoint,
      InFlightFitsSetting, NoStaleSubmission, hciVars, usbVars, sendVars
<1>3. CASE SwitchKill
  BY <1>3, NoUrbsEmpty
  DEF SwitchKill, IInv, TypeOK, MutexHeld, BuiltUrbFits, QuietDuringSwitch, RunningHasEndpoint,
      InFlightFitsSetting, NoStaleSubmission, hciVars, usbVars, sendVars
<1>4. CASE SetInterface
  BY <1>4
  DEF SetInterface, IInv, TypeOK, MutexHeld, BuiltUrbFits, QuietDuringSwitch, RunningHasEndpoint,
      InFlightFitsSetting, NoStaleSubmission, hciVars, usbVars, sendVars, NoUrbs
<1>5. CASE SetInterfaceFails
  <2>1. ~running /\ inFlight = NoUrbs /\ mutex = "work" /\ work = "set"
    BY <1>5 DEF SetInterfaceFails, IInv, QuietDuringSwitch, MutexHeld
  <2>2. /\ mutex' = Free /\ work' = "idle" /\ setFailed' = TRUE
        /\ UNCHANGED <<hciVars, pending, newAlts, running, sendVars, inFlight>>
    BY <1>5 DEF SetInterfaceFails
  <2>3. alt' \in Alts /\ ep' \in BOOLEAN /\ (ep' => alt' # 0)
    <3>1. CASE UNCHANGED <<alt, ep>>
      BY <3>1 DEF IInv, TypeOK
    <3>2. CASE alt' = newAlts /\ ep' = FALSE
      BY <3>2 DEF IInv, TypeOK
    <3> QED BY <1>5, <3>1, <3>2 DEF SetInterfaceFails
  <2>4. TypeOK'
    BY <2>2, <2>3 DEF IInv, TypeOK, hciVars, sendVars
  <2>5. MutexHeld' /\ BuiltUrbFits'
    BY <2>1, <2>2 DEF IInv, TypeOK, MutexHeld, BuiltUrbFits, sendVars
  <2> QED
    BY <2>1, <2>2, <2>3, <2>4, <2>5, NoUrbsEmpty
    DEF IInv, QuietDuringSwitch, RunningHasEndpoint, InFlightFitsSetting, NoStaleSubmission,
        sendVars
<1>6. CASE SwitchSettle
  <2>1. /\ work = "settle" /\ mutex' = Free /\ work' = "idle"
        /\ UNCHANGED <<hciVars, pending, newAlts, alt, ep, sendVars>>
        /\ inFlight' = IF newAlts = 0 THEN NoUrbs ELSE inFlight
    BY <1>6 DEF SwitchSettle
  <2>2. running' \in BOOLEAN /\ setFailed' \in BOOLEAN
    BY <1>6 DEF SwitchSettle, IInv, TypeOK
  <2>3. running' => ep
    BY <1>6 DEF SwitchSettle
  <2>4. TypeOK'
    BY <2>1, <2>2, NoUrbsEmpty DEF IInv, TypeOK, hciVars, sendVars
  <2>5. MutexHeld' /\ BuiltUrbFits'
    BY <2>1 DEF IInv, TypeOK, MutexHeld, BuiltUrbFits, sendVars
  <2>6. InFlightFitsSetting'
    BY <2>1, NoUrbsEmpty DEF IInv, InFlightFitsSetting
  <2> QED
    BY <2>1, <2>3, <2>4, <2>5, <2>6
    DEF IInv, QuietDuringSwitch, RunningHasEndpoint, NoStaleSubmission, sendVars
<1> QED BY <1>1, <1>2, <1>3, <1>4, <1>5, <1>6 DEF WorkStep

\* Every step of submit_isoc_tx_urb, in any thread, keeps the invariant.
LEMMA SenderIInv == ASSUME IInv, NEW s \in Senders, SendFrame(s) \/ SendStep(s) PROVE IInv'
<1> USE BtusbAssumption
<1>1. CASE SendFrame(s)
  BY <1>1
  DEF SendFrame, IInv, TypeOK, MutexHeld, BuiltUrbFits, QuietDuringSwitch, RunningHasEndpoint,
      InFlightFitsSetting, NoStaleSubmission, hciVars, usbVars
<1>2. CASE SendLock(s)
  BY <1>2
  DEF SendLock, IInv, TypeOK, MutexHeld, BuiltUrbFits, QuietDuringSwitch, RunningHasEndpoint,
      InFlightFitsSetting, NoStaleSubmission, hciVars, usbVars
<1>3. CASE BuildUrb(s)
  BY <1>3
  DEF BuildUrb, IInv, TypeOK, MutexHeld, BuiltUrbFits, QuietDuringSwitch, RunningHasEndpoint,
      InFlightFitsSetting, NoStaleSubmission, hciVars, usbVars
<1>4. CASE BuildUrbFails(s)
  BY <1>4
  DEF BuildUrbFails, IInv, TypeOK, MutexHeld, BuiltUrbFits, QuietDuringSwitch, RunningHasEndpoint,
      InFlightFitsSetting, NoStaleSubmission, hciVars, usbVars
<1>5. CASE SubmitUrb(s)
  <2>1. urb[s] = alt /\ mutex = s
    BY <1>5 DEF SubmitUrb, IInv, BuiltUrbFits, MutexHeld
  <2>2. /\ inFlight' = [inFlight EXCEPT ![alt] = inFlight[alt] + 1]
        /\ inFlight[alt] < MaxInFlight /\ emsgsize' = emsgsize
    BY <1>5, <2>1 DEF SubmitUrb
  <2>3. work \notin {"kill", "set", "settle"}
    BY <2>1 DEF IInv, MutexHeld
  <2>4. inFlight' \in [Alts -> 0 .. MaxInFlight]
    BY <2>2 DEF IInv, TypeOK
  <2>5. TypeOK'
    BY <1>5, <2>2, <2>4 DEF SubmitUrb, IInv, TypeOK, hciVars, usbVars, Alts
  <2> QED
    BY <1>5, <2>1, <2>2, <2>3, <2>5
    DEF SubmitUrb, IInv, TypeOK, MutexHeld, BuiltUrbFits, QuietDuringSwitch, RunningHasEndpoint,
        InFlightFitsSetting, NoStaleSubmission, hciVars, usbVars
<1>6. CASE SubmitUrbFails(s)
  BY <1>6
  DEF SubmitUrbFails, IInv, TypeOK, MutexHeld, BuiltUrbFits, QuietDuringSwitch, RunningHasEndpoint,
      InFlightFitsSetting, NoStaleSubmission, hciVars, usbVars, Alts
<1> QED BY <1>1, <1>2, <1>3, <1>4, <1>5, <1>6 DEF SendStep

\* Completed and killed URBs only leave the anchor.
LEMMA CompletionIInv == ASSUME IInv, UrbCompletes \/ KillTx PROVE IInv'
<1> USE BtusbAssumption
<1>1. CASE UrbCompletes
  <2>1. PICK a \in Alts : inFlight[a] > 0 /\ inFlight' = [inFlight EXCEPT ![a] = inFlight[a] - 1]
    BY <1>1 DEF UrbCompletes
  <2>2. UNCHANGED <<hciVars, pending, work, newAlts, mutex, usbVars, sendVars, setFailed>>
    BY <1>1 DEF UrbCompletes
  <2>3. inFlight' \in [Alts -> 0 .. MaxInFlight]
    BY <2>1 DEF IInv, TypeOK
  <2>4. work # "set"
    BY <2>1 DEF IInv, QuietDuringSwitch, NoUrbs
  <2>5. \A b \in Alts : inFlight'[b] > 0 => inFlight[b] > 0
    BY <2>1 DEF IInv, TypeOK
  <2> QED
    BY <2>2, <2>3, <2>4, <2>5
    DEF IInv, TypeOK, MutexHeld, BuiltUrbFits, QuietDuringSwitch, RunningHasEndpoint,
        InFlightFitsSetting, NoStaleSubmission, hciVars, usbVars, sendVars
<1>2. CASE KillTx
  BY <1>2
  DEF KillTx, IInv, TypeOK, MutexHeld, BuiltUrbFits, QuietDuringSwitch, RunningHasEndpoint,
      InFlightFitsSetting, NoStaleSubmission, hciVars, usbVars, sendVars, NoUrbs
<1> QED BY <1>1, <1>2

\* The invariant is inductive.
LEMMA NextIInv == IInv /\ [Next]_vars => IInv'
<1> SUFFICES ASSUME IInv, [Next]_vars PROVE IInv'
  OBVIOUS
<1>1. CASE UNCHANGED vars
  BY <1>1
  DEF vars, hciVars, usbVars, sendVars, IInv, TypeOK, MutexHeld, BuiltUrbFits, QuietDuringSwitch,
      RunningHasEndpoint, InFlightFitsSetting, NoStaleSubmission
<1> QED BY <1>1, NotifyIInv, WorkIInv, SenderIInv, CompletionIInv DEF Next

\* The inductive invariant holds in every reachable state.
LEMMA Invariance == Spec => []IInv
  BY InitIInv, NextIInv, PTL DEF Spec

\* The type invariant, for any senders, settings and bounds.
THEOREM TypeCorrect == Spec => []TypeOK
<1>1. IInv => TypeOK
  BY DEF IInv
<1> QED BY Invariance, <1>1, PTL

\* No SCO frame is ever submitted for an endpoint that a change of the
\* alternate setting has disabled: the failure patch 0001 removes.
THEOREM SubmissionsAreCurrent == Spec => []NoStaleSubmission
<1>1. IInv => NoStaleSubmission
  BY DEF IInv
<1> QED BY Invariance, <1>1, PTL

\* No SCO URB is in flight on the endpoint of a setting that is not selected.
THEOREM InFlightIsCurrent == Spec => []InFlightFitsSetting
<1>1. IInv => InFlightFitsSetting
  BY DEF IInv
<1> QED BY Invariance, <1>1, PTL

\* BTUSB_ISOC_RUNNING implies a selected setting with endpoints.
THEOREM RunningIsBacked == Spec => []RunningHasEndpoint
<1>1. IInv => RunningHasEndpoint
  BY DEF IInv
<1> QED BY Invariance, <1>1, PTL

-----------------------------------------------------------------------------
(* floss_audio_smoke.                                                      *)

\* The writes of a source, and the bytes of the first k of them.
Planned(src) ==
  IF src.kind = "tone" THEN [i \in 1 .. src.size + DrainTicks |-> TickBytes]
                       ELSE FileChunks(src.size)
Upto(src, k) ==
  IF src.kind = "tone" \/ k * TickBytes <= src.size THEN k * TickBytes ELSE src.size

\* From the last poll to the start request nothing suspends the stream.
RaceInv == pc \in {"volume", "start"} => audio # "suspending"

Before == {"set_active", "existing", "pre_stop", "pre_wait", "pre_poll", "config", "config_poll",
           "volume", "start", "wait_start", "confirm", "connect", "plan"}

\* The inductive form of SuccessIsWhole: how far the writes have come, and that a
\* listener answers the last stop with zero only once the stream is gone.
WholeInv ==
  /\ source \in Sources
  /\ pc \in Before => sent = 0
  /\ pc = "write" =>
       \E k \in 0 .. Len(Planned(source)) :
         /\ chunks = [i \in 1 .. Len(Planned(source)) - k |-> Planned(source)[k + i]]
         /\ sent = Upto(source, k)
  /\ pc \in {"stop", "wait_stop"} => sent = SourceBytes
  /\ pc \in {"connect", "plan", "write", "stop"} => audio # "starting"
  /\ pc = "wait_stop" => audio # "starting" /\ (rx = "zero" => audio = "stopped")
  /\ audio \in {"stopped", "starting", "started", "suspending"}
  /\ exit = "ok" => /\ pc = "exit" /\ sent = SourceBytes /\ audio # "starting"
                    /\ rx = "one" \/ (rx = "zero" /\ audio = "stopped")

\* pcm.chunks(frame_bytes) loses no byte: the chunks add up to the file.
LEMMA FileChunkSums ==
  ASSUME NEW L \in Nat, NEW T \in Nat \ {0}, NEW n \in Nat, n = (L + T - 1) \div T
  PROVE  /\ L <= n * T
         /\ \A i \in 1 .. n : i * T > L => L = (i - 1) * T + (L % T)
<1> DEFINE q == L \div T
           r == L % T
           s == (L + T - 1) % T
<1>1. q \in Nat /\ r \in 0 .. T - 1 /\ L = q * T + r
  BY SMT
<1>2. s \in 0 .. T - 1 /\ L + T - 1 = n * T + s
  BY SMT
<1> HIDE DEF q, r, s
<1>3. L <= n * T
  BY <1>1, <1>2
<1>4. ASSUME NEW i \in 1 .. n, i * T > L
      PROVE  L = (i - 1) * T + r
  <2>1. n * T <= L + T - 1
    BY <1>2
  <2>2. i * T <= n * T
    BY SMT
  <2>3. (i - 1) * T = i * T - T
    BY SMT
  <2>4. (i - 1) * T < L + 0 \/ (i - 1) * T <= L - 1
    BY <2>1, <2>2, <2>3, SMT
  <2>5. (i - 1) - q \in Int /\ ((i - 1) - q) * T = (i - 1) * T - q * T
    BY <1>1, SMT
  <2>6. (i - 1) - q <= -1 => ((i - 1) - q) * T <= -T
    BY <1>1, SMT
  <2>7. (i - 1) - q >= 1 => ((i - 1) - q) * T >= T
    BY <1>1, SMT
  <2>8. (i - 1) = q
    BY <1>1, <1>4, <2>3, <2>4, <2>5, <2>6, <2>7
  <2> QED
    BY <1>1, <2>8
<1> QED
  BY <1>3, <1>4 DEF r

\* The writes, one after the other, add up to the source.
LEMMA PlannedSums ==
  ASSUME NEW src \in Sources
  PROVE  /\ Planned(src) \in Seq(Nat) /\ Len(Planned(src)) \in Nat
         /\ Upto(src, 0) = 0
         /\ \A k \in 1 .. Len(Planned(src)) :
              Upto(src, k) = Upto(src, k - 1) + Planned(src)[k]
         /\ Upto(src, Len(Planned(src))) =
              IF src.kind = "tone" THEN (src.size + DrainTicks) * TickBytes ELSE src.size
<1> DEFINE T == TickBytes
           L == src.size
<1>1. T \in Nat \ {0} /\ DrainTicks \in Nat /\ L \in Nat /\ src.kind \in {"tone", "file"}
  BY A2dpAssumption DEF Sources
<1>2. CASE src.kind = "tone"
  <2>1. Planned(src) = [i \in 1 .. L + DrainTicks |-> T]
    BY <1>2 DEF Planned
  <2>2. Planned(src) \in Seq(Nat) /\ Len(Planned(src)) = L + DrainTicks
    BY <1>1, <2>1
  <2>3. \A k \in Nat : Upto(src, k) = k * T
    BY <1>2 DEF Upto
  <2>4. \A k \in 1 .. L + DrainTicks : k - 1 \in Nat /\ k \in Nat /\ k * T = (k - 1) * T + T
    <3> HIDE DEF T, L
    <3> QED
      BY <1>1, SMT
  <2>5. 0 * T = 0 /\ L + DrainTicks \in Nat
    BY <1>1
  <2> HIDE DEF T, L
  <2>6. \A k \in 1 .. L + DrainTicks : Upto(src, k) = Upto(src, k - 1) + Planned(src)[k]
    BY <2>1, <2>3, <2>4
  <2>7. Upto(src, L + DrainTicks) = (L + DrainTicks) * T /\ Upto(src, 0) = 0
    BY <2>3, <2>5
  <2> QED
    BY <1>2, <2>2, <2>5, <2>6, <2>7 DEF T, L
<1>3. CASE src.kind # "tone"
  <2> DEFINE n == (L + T - 1) \div T
             r == L % T
  <2>1. n \in Nat /\ r \in 0 .. T - 1
    <3> HIDE DEF T, L
    <3>1. L + T - 1 \in Nat
      BY <1>1
    <3> QED
      BY <1>1, <3>1, SMT
  <2>2. Planned(src) = [i \in 1 .. n |-> IF i * T <= L THEN T ELSE r]
    BY <1>3 DEF Planned, FileChunks
  <2>3. \A k \in Nat : Upto(src, k) = IF k * T <= L THEN k * T ELSE L
    BY <1>3 DEF Upto
  <2>4. /\ L <= n * T
        /\ \A i \in 1 .. n : i * T > L => L = (i - 1) * T + r
    <3> HIDE DEF T, L
    <3> QED
      BY <1>1, <2>1, FileChunkSums
  <2> HIDE DEF T, L, n, r
  <2>5. Planned(src) \in Seq(Nat) /\ Len(Planned(src)) = n
    <3>1. \A i \in 1 .. n : (IF i * T <= L THEN T ELSE r) \in Nat
      BY <1>1, <2>1
    <3> QED
      BY <2>1, <2>2, <3>1
  <2>6. Upto(src, n) = L /\ Upto(src, 0) = 0
    <3>1. n * T \in Nat /\ 0 * T = 0
      BY <1>1, <2>1, SMT
    <3>2. Upto(src, n) = IF n * T <= L THEN n * T ELSE L
      BY <2>1, <2>3
    <3>3. Upto(src, 0) = IF 0 * T <= L THEN 0 * T ELSE L
      BY <2>3
    <3> QED
      BY <1>1, <2>4, <3>1, <3>2, <3>3
  <2>7. ASSUME NEW k \in 1 .. n
        PROVE  Upto(src, k) = Upto(src, k - 1) + Planned(src)[k]
    <3>1. k \in Nat /\ k - 1 \in Nat
      BY <2>1
    <3> DEFINE x == k * T
               y == (k - 1) * T
    <3>2. x \in Nat /\ y \in Nat /\ x = y + T
      BY <1>1, <3>1, SMT
    <3>3. x > L => L = y + r
      BY <2>4
    <3>4. Planned(src)[k] = IF x <= L THEN T ELSE r
      BY <2>2
    <3>5. /\ Upto(src, k) = IF x <= L THEN x ELSE L
          /\ Upto(src, k - 1) = IF y <= L THEN y ELSE L
      BY <2>3, <3>1
    <3> HIDE DEF x, y
    <3> QED
      BY <1>1, <2>1, <3>2, <3>3, <3>4, <3>5
  <2> QED
    BY <1>3, <2>1, <2>5, <2>6, <2>7 DEF L
<1> QED
  BY <1>2, <1>3

LEMMA WholeStep ==
  ASSUME WholeInv, [A2dpNext]_a2dpVars
  PROVE  WholeInv'
<1> DEFINE P == Planned(source)
<1>0. /\ P \in Seq(Nat) /\ Len(P) \in Nat /\ Upto(source, 0) = 0
      /\ \A k \in 1 .. Len(P) : Upto(source, k) = Upto(source, k - 1) + P[k]
      /\ Upto(source, Len(P)) = SourceBytes
  BY PlannedSums DEF WholeInv, SourceBytes
<1> HIDE DEF P
<1> USE DEF Goto, Return, payload, program, Before
<1>1. CASE SetActiveDevice \/ StopExisting \/ SetVolume
  BY <1>1 DEF WholeInv, SetActiveDevice, StopExisting, SetVolume, Call, SourceBytes
<1>2. CASE PreStop \/ Stop
  BY <1>2 DEF WholeInv, PreStop, Stop, StopAudioRequest, Suspending, SourceBytes
<1>3. CASE PreWait \/ WaitStart \/ WaitStop
  <2>1. CASE PreWait
    BY <2>1 DEF WholeInv, PreWait, WaitForListener, SourceBytes
  <2>2. CASE WaitStart
    BY <2>2 DEF WholeInv, WaitStart, WaitForListener, SourceBytes
  <2>3. CASE WaitStop
    BY <2>3 DEF WholeInv, WaitStop, WaitForListener, SourceBytes
  <2> QED
    BY <1>3, <2>1, <2>2, <2>3
<1>4. CASE PrePoll \/ ConfigPoll
  BY <1>4 DEF WholeInv, PrePoll, ConfigPoll, PollStopped, SourceBytes
<1>5. CASE SetAudioConfig \/ StartAudioRequest
  BY <1>5 DEF WholeInv, SetAudioConfig, StartAudioRequest, Suspending, SourceBytes
<1>6. CASE Confirm \/ ConnectUipc
  BY <1>6 DEF WholeInv, Confirm, ConnectUipc, Started, SourceBytes
<1>7. CASE Plan
  <2>1. CASE pc' = "write"
    <3>1. chunks' = P /\ source' = source /\ sent' = sent /\ sent = 0 /\ audio' = audio
      BY <1>7, <2>1 DEF Plan, WholeInv, P, Planned
    <3>2. P = [i \in 1 .. Len(P) - 0 |-> P[0 + i]]
      BY <1>0
    <3>3. 0 \in 0 .. Len(P)
      BY <1>0
    <3>4. \E k \in 0 .. Len(P) :
            chunks' = [i \in 1 .. Len(P) - k |-> P[k + i]] /\ sent' = Upto(source, k)
      BY <1>0, <3>1, <3>2, <3>3
    <3>5. pc = "plan" /\ UNCHANGED <<rx, source, audio, exit>>
      BY <1>7, <2>1 DEF Plan
    <3> QED
      BY <2>1, <3>1, <3>4, <3>5 DEF WholeInv, P
  <2>2. CASE pc' # "write"
    BY <1>7, <2>2 DEF WholeInv, Plan, SourceBytes
  <2> QED
    BY <2>1, <2>2
<1>8. CASE Write
  <2>1. PICK k \in 0 .. Len(P) :
          chunks = [i \in 1 .. Len(P) - k |-> P[k + i]] /\ sent = Upto(source, k)
    BY <1>8 DEF WholeInv, Write, P
  <2>2. chunks # <<>> /\ sent' = sent + Head(chunks) /\ chunks' = Tail(chunks)
        /\ pc = "write"
        /\ UNCHANGED <<pc, rx, source, exit, audio>>
    BY <1>8 DEF Write
  <2>3. k \in Nat /\ Len(P) - k \in Nat /\ chunks \in Seq(Nat) /\ Len(chunks) = Len(P) - k
    <3>1. \A i \in 1 .. Len(P) - k : k + i \in 1 .. Len(P)
      BY <1>0
    <3>2. \A i \in 1 .. Len(P) - k : P[k + i] \in Nat
      BY <1>0, <3>1
    <3> DEFINE N == Len(P) - k
    <3>3. N \in Nat /\ \A i \in 1 .. N : P[k + i] \in Nat
      BY <1>0, <3>2
    <3>4. chunks = [i \in 1 .. N |-> P[k + i]]
      BY <2>1
    <3> HIDE DEF N
    <3>5. chunks \in Seq(Nat) /\ Len(chunks) = N
      BY <3>3, <3>4
    <3> QED
      BY <3>3, <3>5 DEF N
  <2>4. Len(P) - k # 0
    BY <2>2, <2>3
  <2>5. k + 1 \in 1 .. Len(P) /\ k + 1 \in 0 .. Len(P) /\ (k + 1) - 1 = k
    BY <1>0, <2>3, <2>4
  <2>6. sent' = Upto(source, k + 1)
    <3>1. Head(chunks) = P[k + 1]
      <4>1. Head(chunks) = chunks[1]
        BY <2>2, <2>3
      <4>2. 1 \in 1 .. Len(P) - k
        BY <2>3, <2>4
      <4> QED
        BY <2>1, <4>1, <4>2
    <3> QED
      BY <1>0, <2>1, <2>2, <2>5, <3>1
  <2>7. chunks' = [i \in 1 .. Len(P) - (k + 1) |-> P[(k + 1) + i]]
    <3>1. Tail(chunks) = [i \in 1 .. Len(chunks) - 1 |-> chunks[i + 1]]
      <4>1. chunks \in Seq(Nat) /\ chunks # <<>>
        BY <2>2, <2>3
      <4>2. /\ Tail(chunks) \in Seq(Nat) /\ Len(Tail(chunks)) = Len(chunks) - 1
            /\ \A i \in 1 .. Len(chunks) - 1 : Tail(chunks)[i] = chunks[i + 1]
        BY <4>1
      <4> DEFINE t == Tail(chunks)
                 n == Len(chunks) - 1
      <4>3. t \in Seq(Nat) /\ Len(t) = n /\ \A i \in 1 .. n : t[i] = chunks[i + 1]
        BY <4>2
      <4> HIDE DEF t, n
      <4>4. t = [i \in 1 .. n |-> chunks[i + 1]]
        BY <4>3
      <4> QED
        BY <4>4 DEF t, n
    <3>2. Len(chunks) - 1 = Len(P) - (k + 1)
      BY <1>0, <2>3
    <3>3. \A i \in 1 .. Len(P) - (k + 1) : chunks[i + 1] = P[(k + 1) + i]
      BY <1>0, <2>1, <2>3
    <3> QED
      BY <2>2, <3>1, <3>2, <3>3
  <2> QED
    BY <2>2, <2>5, <2>6, <2>7 DEF WholeInv, P
<1>9. CASE ShutdownWriter
  <2>1. PICK k \in 0 .. Len(P) :
          chunks = [i \in 1 .. Len(P) - k |-> P[k + i]] /\ sent = Upto(source, k)
    BY <1>9 DEF WholeInv, ShutdownWriter, P
  <2>2. k = Len(P)
    <3>1. Len(P) - k \in Nat
      BY <1>0
    <3>2. Len(chunks) = Len(P) - k
      BY <2>1, <3>1
    <3>3. Len(chunks) = 0
      BY <1>9 DEF ShutdownWriter
    <3>4. Len(P) \in Nat /\ k \in Nat /\ Len(P) - k = 0
      BY <1>0, <3>2, <3>3
    <3> HIDE DEF P
    <3> QED
      BY <3>4
  <2>3. sent = SourceBytes
    BY <1>0, <2>1, <2>2
  <2> QED
    BY <1>9, <2>3 DEF WholeInv, ShutdownWriter, SourceBytes
<1>10. CASE WriteFails \/ DeadlinePasses \/ Kill
  BY <1>10 DEF WholeInv, WriteFails, DeadlinePasses, Kill, SourceBytes
<1>11. CASE Rerun
  BY <1>11 DEF WholeInv, Rerun
<1>12. CASE FlossStarts \/ FlossSuspends \/ RemoteSuspends \/ FlossDies
  BY <1>12 DEF WholeInv, FlossStarts, FlossSuspends, RemoteSuspends, FlossDies,
               Answer, SourceBytes
<1>13. CASE UNCHANGED a2dpVars
  BY <1>13 DEF WholeInv, a2dpVars, SourceBytes
<1> QED
  BY <1>1, <1>2, <1>3, <1>4, <1>5, <1>6, <1>7, <1>8, <1>9, <1>10, <1>11, <1>12, <1>13
  DEF A2dpNext, Program

\* floss_audio_smoke never issues StartAudioRequest while a suspend is under
\* way: a suspend begins only where the program asks for it, at a stop or at the
\* codec change, and each of these is followed by a poll that lets the program go
\* on only once the stream is gone.
THEOREM StartsNeverRace == A2dpSpec => []NoStartDuringSuspend
<1>1. A2dpInit => RaceInv
  BY DEF A2dpInit, RaceInv
<1>2. RaceInv /\ [A2dpNext]_a2dpVars => RaceInv'
  <2> SUFFICES ASSUME RaceInv, [A2dpNext]_a2dpVars PROVE RaceInv'
    OBVIOUS
  <2> USE DEF RaceInv, Goto, Return
  <2>1. CASE SetActiveDevice \/ StopExisting \/ SetVolume
    BY <2>1 DEF SetActiveDevice, StopExisting, SetVolume, Call
  <2>2. CASE PreStop \/ Stop
    BY <2>2 DEF PreStop, Stop, StopAudioRequest
  <2>3. CASE PreWait \/ WaitStart \/ WaitStop
    BY <2>3 DEF PreWait, WaitStart, WaitStop, WaitForListener
  <2>4. CASE PrePoll \/ ConfigPoll
    BY <2>4 DEF PrePoll, ConfigPoll, PollStopped, Started
  <2>5. CASE SetAudioConfig \/ StartAudioRequest
    BY <2>5 DEF SetAudioConfig, StartAudioRequest
  <2>6. CASE Confirm \/ ConnectUipc \/ Plan
    BY <2>6 DEF Confirm, ConnectUipc, Plan
  <2>7. CASE Write \/ WriteFails \/ ShutdownWriter
    BY <2>7 DEF Write, WriteFails, ShutdownWriter
  <2>8. CASE DeadlinePasses \/ Kill \/ Rerun
    BY <2>8 DEF DeadlinePasses, Kill, Rerun
  <2>9. CASE FlossStarts \/ FlossSuspends \/ RemoteSuspends \/ FlossDies
    BY <2>9 DEF FlossStarts, FlossSuspends, RemoteSuspends, FlossDies, program
  <2>10. CASE UNCHANGED a2dpVars
    BY <2>10 DEF a2dpVars
  <2> QED
    BY <2>1, <2>2, <2>3, <2>4, <2>5, <2>6, <2>7, <2>8, <2>9, <2>10 DEF A2dpNext, Program
<1>3. RaceInv => NoStartDuringSuspend
  BY DEF RaceInv, NoStartDuringSuspend
<1> QED
  BY <1>1, <1>2, <1>3, PTL DEF A2dpSpec

\* A run of floss_audio_smoke that reports success has given Floss every byte of
\* its tone or file, and leaves the stream stopped unless Floss has answered the
\* stop with another status than zero.
THEOREM SuccessSendsAll == A2dpSpec => []SuccessIsWhole
<1>1. A2dpInit => WholeInv
  BY DEF A2dpInit, WholeInv, Before
<1>2. WholeInv /\ [A2dpNext]_a2dpVars => WholeInv'
  BY WholeStep
<1>3. WholeInv => SuccessIsWhole
  BY DEF WholeInv, SuccessIsWhole
<1> QED
  BY <1>1, <1>2, <1>3, PTL DEF A2dpSpec
=============================================================================
