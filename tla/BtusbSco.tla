------------------------------ MODULE BtusbSco -------------------------------
(***************************************************************************)
(* The Linux driver with the two patches of kernel/patches: SCO transmit   *)
(* serialised with the changes of the USB alternate setting (0001), and    *)
(* Floss's notifications of SCO connections, which ask for those changes   *)
(* (0002).                                                                 *)
(*                                                                         *)
(* There is one remote device, hence at most one shadow connection.  A     *)
(* transmit URB is the alternate setting it was built for.  What upstream  *)
(* btusb does around the patched lines (the notify hook, the work item,    *)
(* completion of URBs) is external.                                        *)
(***************************************************************************)
EXTENDS Naturals, FiniteSets

CONSTANTS Senders,     \* threads that send SCO frames
          AltFor,      \* the setting btusb_work picks for an air mode
          MaxNotify,   \* bound: notifications sent by Floss
          MaxInFlight, \* bound: URBs the controller has not completed
          Free         \* the mutex is not held

ASSUME BtusbAssumption ==
  /\ AltFor \in [{"cvsd", "transp"} -> Nat \ {0}]
  /\ MaxNotify \in Nat /\ MaxInFlight \in Nat
  /\ "work" \notin Senders /\ Free \notin Senders \cup {"work"}

AirModes == {"cvsd", "transp"}
Codecs == {"cvsd", "msbc_transparent", "msbc"}

\* HCI_NOTIFY_ENABLE_SCO_TRANSP for transparent mSBC only.
AirMode(codec) == IF codec = "msbc_transparent" THEN "transp" ELSE "cvsd"

Alts == {0} \cup {AltFor[m] : m \in AirModes}

VARIABLES
  notified,   \* notifications handled
  conn,       \* the shadow SCO connection exists
  scoNum,     \* data->sco_num
  airMode,    \* data->air_mode
  pending,    \* the work item is scheduled
  work,       \* "idle", "lock", "kill", "set", "settle"
  newAlts,    \* the setting the work item switches to
  mutex,      \* holder of isoc_tx_mutex
  alt,        \* data->isoc_altsetting
  ep,         \* the setting's isochronous endpoints were found
  running,    \* BTUSB_ISOC_RUNNING
  sender,     \* per sender: "idle", "lock", "build", "submit"
  urb,        \* per sender: the setting its URB was built for
  inFlight,   \* per setting: submitted URBs on isoc_tx_anchor
  emsgsize,   \* a submission failed with EMSGSIZE
  setFailed   \* USB refused the last switch, or its receive URBs

hciVars == <<notified, conn, scoNum, airMode>>
usbVars == <<alt, ep, running>>
sendVars == <<sender, urb, emsgsize>>
vars == <<hciVars, pending, work, newAlts, mutex, usbVars, sendVars, inFlight, setFailed>>

NoUrbs == [a \in Alts |-> 0]

Init ==
  /\ notified = 0 /\ conn = FALSE /\ scoNum = 0 /\ airMode \in AirModes
  /\ pending = FALSE /\ work = "idle" /\ newAlts = 0
  /\ mutex = Free
  /\ alt = 0 /\ ep = FALSE /\ running = FALSE
  /\ sender = [s \in Senders |-> "idle"] /\ urb = [s \in Senders |-> 0]
  /\ inFlight = NoUrbs
  /\ emsgsize = FALSE /\ setFailed = FALSE

-----------------------------------------------------------------------------
(* Patch 0002: floss_notify_sco_connection_change.                         *)

\* hdev->notify: btusb_notify records the number of connections and the air
\* mode, and schedules the work item, when the number has changed.
DriverNotify(codec) ==
  LET count == IF conn' THEN 1 ELSE 0
  IN IF count = scoNum
       THEN UNCHANGED <<scoNum, airMode, pending>>
       ELSE scoNum' = count /\ airMode' = AirMode(codec) /\ pending' = TRUE

\* Seeded fault: the driver is told before the connection is deleted.
NotifyScoConnectionChangeEarly(connected, codec) ==
  /\ notified < MaxNotify
  /\ notified' = notified + 1
  /\ IF connected # conn
       THEN /\ conn' = connected
            /\ IF connected THEN DriverNotify(codec) ELSE UNCHANGED <<scoNum, airMode, pending>>
       ELSE UNCHANGED <<conn, scoNum, airMode, pending>>
  /\ UNCHANGED <<work, newAlts, mutex, usbVars, sendVars, inFlight, setFailed>>

\* One management command, under hci_dev_lock: a new connection is added, a
\* known one deleted, and only then is the driver told.  Anything else, a
\* connection that cannot be added included, leaves all as it is.
NotifyScoConnectionChange(connected, codec) ==
  /\ notified < MaxNotify
  /\ notified' = notified + 1
  /\ \/ connected # conn /\ conn' = connected /\ DriverNotify(codec)
     \/ (connected = conn \/ connected) /\ UNCHANGED <<conn, scoNum, airMode, pending>>
  /\ UNCHANGED <<work, newAlts, mutex, usbVars, sendVars, inFlight, setFailed>>

-----------------------------------------------------------------------------
(* Patch 0001: btusb_work and btusb_switch_alt_setting.                    *)

\* The work item starts and picks the setting; with no connection it is zero.  It
\* reads sco_num and air_mode one after the other, here in one step: the
\* notification that changes them in between queues the item again.
\* Upstream's failure of usb_autopm_get_interface is left out.
BtusbWork ==
  /\ work = "idle" /\ pending
  /\ pending' = FALSE
  /\ newAlts' = IF scoNum > 0 THEN AltFor[airMode] ELSE 0
  /\ work' = "lock"
  /\ UNCHANGED <<hciVars, mutex, usbVars, sendVars, inFlight, setFailed>>

\* mutex_lock; a setting that is already selected is not set again.
SwitchLock ==
  /\ work = "lock" /\ mutex = Free
  /\ mutex' = "work"
  /\ work' = IF alt # newAlts THEN "kill" ELSE "settle"
  /\ setFailed' = FALSE
  /\ UNCHANGED <<hciVars, pending, newAlts, usbVars, sendVars, inFlight>>

\* Seeded fault: only the receive anchor is killed, as before the patch.
SwitchKillRxOnly ==
  /\ work = "kill"
  /\ running' = FALSE
  /\ work' = "set"
  /\ UNCHANGED <<hciVars, pending, newAlts, mutex, alt, ep, sendVars, inFlight, setFailed>>

\* Traffic stops and both isochronous anchors are killed.
SwitchKill ==
  /\ work = "kill"
  /\ running' = FALSE
  /\ inFlight' = NoUrbs
  /\ work' = "set"
  /\ UNCHANGED <<hciVars, pending, newAlts, mutex, alt, ep, sendVars, setFailed>>

\* __set_isoc_interface succeeds; setting zero has no endpoints.
SetInterface ==
  /\ work = "set"
  /\ alt' = newAlts /\ ep' = (newAlts # 0)
  /\ work' = "settle"
  /\ UNCHANGED <<hciVars, pending, newAlts, mutex, running, sendVars, inFlight, setFailed>>

\* usb_set_interface fails, or the new setting lacks an endpoint: goto done.
SetInterfaceFails ==
  /\ work = "set"
  /\ \/ UNCHANGED <<alt, ep>>
     \/ newAlts # 0 /\ alt' = newAlts /\ ep' = FALSE
  /\ setFailed' = TRUE
  /\ mutex' = Free /\ work' = "idle"
  /\ UNCHANGED <<hciVars, pending, newAlts, running, sendVars, inFlight>>

\* The rest of the switch: at setting zero everything is stopped; at another,
\* unless traffic runs already, the receive URBs are submitted.  That fails
\* without an endpoint, may fail with one, and leaves traffic stopped.
SwitchSettle ==
  /\ work = "settle"
  /\ running' \in IF newAlts # 0 /\ ep THEN {TRUE, running} ELSE {FALSE}
  /\ inFlight' = IF newAlts = 0 THEN NoUrbs ELSE inFlight
  /\ setFailed' = (newAlts # 0 /\ ~running')
  /\ mutex' = Free /\ work' = "idle"
  /\ UNCHANGED <<hciVars, pending, newAlts, alt, ep, sendVars>>

-----------------------------------------------------------------------------
(* Patch 0001: submit_isoc_tx_urb, called by btusb_send_frame.             *)

SendFrame(s) ==
  /\ sender[s] = "idle"
  /\ sender' = [sender EXCEPT ![s] = "lock"]
  /\ UNCHANGED <<hciVars, pending, work, newAlts, mutex, usbVars, urb, emsgsize, inFlight, setFailed>>

\* Seeded fault: the endpoint is looked up outside the mutex.
SendLockLate(s) ==
  /\ sender[s] = "lock"
  /\ sender' = [sender EXCEPT ![s] = IF running THEN "build" ELSE "idle"]
  /\ UNCHANGED <<hciVars, pending, work, newAlts, mutex, usbVars, urb, emsgsize, inFlight, setFailed>>

\* Seeded fault: the call waits for BTUSB_ISOC_RUNNING.
SendLockWaits(s) ==
  /\ sender[s] = "lock" /\ mutex = Free /\ running
  /\ mutex' = s
  /\ sender' = [sender EXCEPT ![s] = "build"]
  /\ UNCHANGED <<hciVars, pending, work, newAlts, usbVars, urb, emsgsize, inFlight, setFailed>>

\* mutex_lock; without BTUSB_ISOC_RUNNING the call returns -ENODEV.
SendLock(s) ==
  /\ sender[s] = "lock" /\ mutex = Free
  /\ mutex' = IF running THEN s ELSE Free
  /\ sender' = [sender EXCEPT ![s] = IF running THEN "build" ELSE "idle"]
  /\ UNCHANGED <<hciVars, pending, work, newAlts, usbVars, urb, emsgsize, inFlight, setFailed>>

\* alloc_isoc_urb takes the packet size of the current endpoint.
BuildUrb(s) ==
  /\ sender[s] = "build" /\ ep
  /\ urb' = [urb EXCEPT ![s] = alt]
  /\ sender' = [sender EXCEPT ![s] = "submit"]
  /\ UNCHANGED <<hciVars, pending, work, newAlts, mutex, usbVars, emsgsize, inFlight, setFailed>>

\* alloc_isoc_urb fails: no memory, or no endpoint.
BuildUrbFails(s) ==
  /\ sender[s] = "build"
  /\ mutex' = Free
  /\ sender' = [sender EXCEPT ![s] = "idle"]
  /\ UNCHANGED <<hciVars, pending, work, newAlts, usbVars, urb, emsgsize, inFlight, setFailed>>

\* usb_submit_urb accepts a URB for the endpoint of the selected setting and
\* answers EMSGSIZE to one built for another.
SubmitUrb(s) ==
  /\ sender[s] = "submit"
  /\ IF urb[s] = alt
       THEN /\ inFlight[alt] < MaxInFlight
            /\ inFlight' = [inFlight EXCEPT ![alt] = @ + 1]
            /\ UNCHANGED emsgsize
       ELSE emsgsize' = TRUE /\ UNCHANGED inFlight
  /\ mutex' = Free
  /\ urb' = [urb EXCEPT ![s] = 0]
  /\ sender' = [sender EXCEPT ![s] = "idle"]
  /\ UNCHANGED <<hciVars, pending, work, newAlts, usbVars, setFailed>>

\* usb_submit_urb fails for a reason of its own: the URB is unanchored.
SubmitUrbFails(s) ==
  /\ sender[s] = "submit"
  /\ mutex' = Free
  /\ urb' = [urb EXCEPT ![s] = 0]
  /\ sender' = [sender EXCEPT ![s] = "idle"]
  /\ UNCHANGED <<hciVars, pending, work, newAlts, usbVars, emsgsize, inFlight, setFailed>>

-----------------------------------------------------------------------------
\* The controller completes a URB.
UrbCompletes ==
  \E a \in Alts :
    /\ inFlight[a] > 0
    /\ inFlight' = [inFlight EXCEPT ![a] = @ - 1]
    /\ UNCHANGED <<hciVars, pending, work, newAlts, mutex, usbVars, sendVars, setFailed>>

\* btusb_flush and btusb_stop_traffic kill the transmit anchor.
KillTx ==
  /\ mutex = Free
  /\ inFlight' = NoUrbs
  /\ UNCHANGED <<hciVars, pending, work, newAlts, mutex, usbVars, sendVars, setFailed>>

Notify == \E connected \in BOOLEAN, c \in Codecs : NotifyScoConnectionChange(connected, c)
WorkStep == BtusbWork \/ SwitchLock \/ SwitchKill \/ SetInterface \/ SetInterfaceFails \/ SwitchSettle
SendStep(s) == SendLock(s) \/ BuildUrb(s) \/ BuildUrbFails(s) \/ SubmitUrb(s) \/ SubmitUrbFails(s)

Next ==
  \/ Notify \/ WorkStep \/ UrbCompletes \/ KillTx
  \/ \E s \in Senders : SendFrame(s) \/ SendStep(s)

Spec == Init /\ [][Next]_vars

\* The workqueue runs its item, a thread in a system call is scheduled, and a
\* Linux mutex is handed over to a waiter in the end (hence the strong form).
FairSpec ==
  /\ Spec
  /\ SF_vars(WorkStep)
  /\ \A s \in Senders : SF_vars(SendStep(s))

-----------------------------------------------------------------------------
\* Type invariant.
TypeOK ==
  /\ notified \in 0 .. MaxNotify /\ conn \in BOOLEAN /\ scoNum \in {0, 1}
  /\ airMode \in AirModes /\ pending \in BOOLEAN
  /\ work \in {"idle", "lock", "kill", "set", "settle"} /\ newAlts \in Alts
  /\ mutex \in Senders \cup {"work", Free}
  /\ alt \in Alts /\ ep \in BOOLEAN /\ running \in BOOLEAN
  /\ sender \in [Senders -> {"idle", "lock", "build", "submit"}]
  /\ urb \in [Senders -> Alts] /\ inFlight \in [Alts -> 0 .. MaxInFlight]
  /\ emsgsize \in BOOLEAN /\ setFailed \in BOOLEAN

\* Patch 0001, lines 8-9: no SCO frame is submitted for an endpoint that a
\* change of the alternate setting has disabled ("submission failed (90)").
NoStaleSubmission == ~emsgsize

\* Lines 5-8: no SCO URB is in flight on the endpoint of another setting, not
\* even while the setting is being changed.
InFlightFitsSetting == \A a \in Alts : inFlight[a] > 0 => a = alt

\* BTUSB_ISOC_RUNNING is set only while the selected setting has endpoints, so
\* that a frame sent after the disconnection gets -ENODEV.
RunningHasEndpoint == running => ep /\ alt # 0

\* Lines 13-16: once Floss sends no more notifications, the setting ends up
\* where the connection wants it, with traffic running or stopped to match,
\* unless USB itself refused the last switch or its receive URBs.
SettingFollowsConnection ==
  <>[](setFailed \/ (IF conn THEN alt = AltFor[airMode] /\ running
                             ELSE alt = 0 /\ ~running /\ inFlight = NoUrbs))

\* Every SCO frame handed to the driver comes back to its caller: no path of
\* the switch or of the submission keeps the mutex.
SendReturns == \A s \in Senders : sender[s] # "idle" ~> sender[s] = "idle"
=============================================================================
