----------------------------- MODULE UsbStorage -----------------------------
(***************************************************************************)
(* The command, abort, reset and disconnect protocol of the USB mass       *)
(* storage driver (USB/usb_1.c, USB/scsiglue.c, USB/transport.c).          *)
(*                                                                         *)
(* A SCSI command is handed to the control thread by queuecommand; the     *)
(* thread moves data by calls of usb_stor_msg_common, which submits the    *)
(* one URB of the device and waits for it. The SCSI error handler may      *)
(* abort the command at any moment, and the two sides agree on who cancels *)
(* the URB through the atomic bits of us->dflags. A failed or aborted      *)
(* command is followed by a reset of the device, during which an abort     *)
(* must not cancel anything. Disconnect removes the SCSI host, makes the   *)
(* thread exit and frees the URB.                                          *)
(*                                                                         *)
(* Locks: the SCSI host lock is held from one action to the next only by   *)
(* command_abort (eh \in {"stop", "unlink"}); every other critical section *)
(* under it is one action. dev_mutex is the variable dev_mutex; the usb    *)
(* core's device lock is the variable udev.                                *)
(***************************************************************************)
EXTENDS Naturals, FiniteSets

CONSTANTS
    MaxTransfers,   \* bound: calls of msg_common in one run of the transport
    ResetIoctl      \* device_reset may also be requested from user space

ASSUME MaxTransfersAssumption == MaxTransfers \in Nat \ {0}
ASSUME ResetIoctlAssumption == ResetIoctl \in BOOLEAN

VARIABLES
    dflags,       \* us->dflags
    srb,          \* us->srb # NULL
    ready,        \* us->cmnd_ready, the count of a completion
    notify,       \* us->notify, the count of a completion
    dev_mutex,    \* its holder: "none", "thread", "reset" or "port"
    udev,         \* holder of the usb device lock: "none", "thread", "eh", "disc"
    thr,          \* control point of usb_stor_control_thread
    result,       \* what the transport returned, later srb->result
    sense,        \* the auto-sense command that is running, of a large or a small size
    portOk,       \* usb_stor_port_reset succeeded
    left,         \* calls of msg_common the present sequence may still make
    msg,          \* control point of usb_stor_msg_common
    msgRes,       \* its result
    flag,         \* URB_ACTIVE, or SG_ACTIVE when it is the scatter-gather form
    urb,          \* us->current_urb, or us->current_sg
    unlinks,      \* how often it was unlinked since its submission
    mid,          \* the SCSI midlayer: no command, one outstanding, in its error handler
    eh,           \* control point of the error handler's call into the driver
    asked,        \* a user's device_reset was called and waits for dev_mutex
    rst,          \* who has dev_mutex in device_reset; msg tells how far it has got
    disc,         \* control point of usb_stor_disconnect
    shutdown      \* the command scsi_remove_host may send was sent

thrVars  == <<thr, result, sense, portOk>>
msgVars  == <<msg, msgRes, flag, urb, unlinks>>
vars == <<dflags, srb, ready, notify, dev_mutex, udev, thrVars, left, msgVars,
          mid, eh, asked, rst, disc, shutdown>>

Flags == {"URB_ACTIVE", "SG_ACTIVE", "ABORTING", "DISCONNECTING", "RESETTING", "TIMED_OUT"}
ThreadPoints ==
    {"sleep", "lock", "run", "msg", "check", "errors", "unlock", "port", "prereset",
     "postreset", "relock", "classreset", "resetmsg", "endreset", "finish", "exited"}

TypeOK ==
    /\ dflags \subseteq Flags
    /\ srb \in BOOLEAN
    /\ ready \in 0 .. 1 /\ notify \in 0 .. 1
    /\ dev_mutex \in {"none", "thread", "reset", "port"}
    /\ udev \in {"none", "thread", "eh", "disc"}
    /\ thr \in ThreadPoints
    /\ result \in {"good", "failed", "error", "abort"}
    /\ sense \in {"none", "large", "small"} /\ portOk \in BOOLEAN
    /\ left \in 0 .. MaxTransfers + 2
    /\ msg \in {"none", "test", "submit", "setactive", "recheck", "cancel", "unlink",
                "wait", "kill", "ret"}
    /\ msgRes \in {"good", "error"}
    /\ flag \in {"URB_ACTIVE", "SG_ACTIVE"}
    /\ urb \in {"idle", "submitting", "active", "unlinked", "good", "error", "freed"}
    /\ unlinks \in 0 .. 2
    /\ mid \in {"idle", "issued", "eh"}
    /\ eh \in {"none", "abort", "stop", "unlink", "waiting", "reset", "busreset",
               "prereset", "postreset"}
    /\ asked \in BOOLEAN
    /\ rst \in {"none", "eh", "user"}
    /\ disc \in {"no", "removing", "removed", "flagged", "stopping", "freed"}
    /\ shutdown \in BOOLEAN

Init ==
    /\ dflags = {} /\ srb = FALSE /\ ready = 0 /\ notify = 0
    /\ dev_mutex = "none" /\ udev = "none"
    /\ thr = "sleep" /\ result = "good" /\ sense = "none" /\ portOk = FALSE /\ left = 0
    /\ msg = "none" /\ msgRes = "good" /\ flag = "URB_ACTIVE"
    /\ urb = "idle" /\ unlinks = 0
    /\ mid = "idle" /\ eh = "none" /\ asked = FALSE /\ rst = "none"
    /\ disc = "no" /\ shutdown = FALSE

Has(f) == f \in dflags

HostLockFree == eh \notin {"stop", "unlink"}

-----------------------------------------------------------------------------
(* The SCSI midlayer.                                                      *)

\* mutant of QueueCommand: the thread is not woken
QueueCommandNoWake ==
    /\ mid = "idle" /\ disc \in {"no", "removing"} /\ HostLockFree
    /\ disc = "removing" => ~shutdown
    /\ shutdown' = (disc = "removing")
    /\ IF srb \/ Has("DISCONNECTING")
         THEN UNCHANGED <<srb, mid>>
         ELSE srb' = TRUE /\ mid' = "issued"
    /\ UNCHANGED <<dflags, ready, notify, dev_mutex, udev, thrVars, left, msgVars, eh, asked,
                   rst, disc>>

\* queuecommand_lck. The host takes one command at a time (can_queue is 1); the
\* midlayer retries a command answered HOST_BUSY and sees the one answered
\* DID_NO_CONNECT complete at once.
QueueCommand ==
    /\ mid = "idle" /\ disc \in {"no", "removing"} /\ HostLockFree
    /\ disc = "removing" => ~shutdown
    /\ shutdown' = (disc = "removing")
    /\ IF srb \/ Has("DISCONNECTING")
         THEN UNCHANGED <<srb, ready, mid>>
         ELSE srb' = TRUE /\ ready' = ready + 1 /\ mid' = "issued"
    /\ UNCHANGED <<dflags, notify, dev_mutex, udev, thrVars, left, msgVars, eh, asked, rst, disc>>

\* The command's timer expires; the error handler will abort it.
CommandTimeout ==
    /\ mid = "issued" /\ mid' = "eh"
    /\ eh' = "abort"
    /\ UNCHANGED <<dflags, srb, ready, notify, dev_mutex, udev, thrVars, left, msgVars,
                   asked, rst, disc, shutdown>>

EhUnchanged == UNCHANGED <<ready, udev, thrVars, left, asked, rst, disc, shutdown>>

\* command_abort: FAILED if the command is no longer active, else the flags
Abort ==
    /\ eh = "abort"
    /\ IF ~srb
         THEN eh' = "reset" /\ UNCHANGED dflags
         ELSE IF Has("RESETTING")
                THEN eh' = "waiting" /\ dflags' = dflags \cup {"TIMED_OUT"}
                ELSE eh' = "stop" /\ dflags' = dflags \cup {"TIMED_OUT", "ABORTING"}
    /\ UNCHANGED <<srb, notify, dev_mutex, msgVars, mid>> /\ EhUnchanged

\* usb_stor_stop_transport, under the host lock: test_and_clear_bit ...
StopTransport ==
    /\ eh = "stop"
    /\ eh' = IF Has(flag) THEN "unlink" ELSE "waiting"
    /\ dflags' = dflags \ {flag}
    /\ UNCHANGED <<srb, notify, dev_mutex, msgVars, mid>> /\ EhUnchanged

\* usb_unlink_urb or usb_sg_cancel
Unlink ==
    /\ urb' = IF urb = "active" THEN "unlinked" ELSE urb
    /\ unlinks' = unlinks + 1

\* ... and then cancel the transfer
StopUnlink ==
    /\ eh = "unlink" /\ eh' = "waiting"
    /\ Unlink
    /\ UNCHANGED <<dflags, srb, notify, dev_mutex, msg, msgRes, flag, mid>> /\ EhUnchanged

\* wait_for_completion(&us->notify): the abort succeeds
AbortReturns ==
    /\ eh = "waiting" /\ notify > 0
    /\ notify' = notify - 1
    /\ eh' = "none" /\ mid' = "idle"
    /\ UNCHANGED <<dflags, srb, dev_mutex, msgVars>> /\ EhUnchanged

\* The class-specific device reset uses msg_common with a timeout, for the
\* request itself and then for two clear-halts (usb_stor_reset_common).
ResetTransfers == 3
MsgStart(n) == msg' = "test" /\ left' = n

\* device_reset is called from user space: at any time, also while a disconnect is
\* running or after it
AskReset ==
    /\ ResetIoctl /\ ~asked /\ asked' = TRUE
    /\ UNCHANGED <<dflags, srb, ready, notify, dev_mutex, udev, thrVars, left, msgVars, mid,
                   eh, rst, disc, shutdown>>

\* device_reset has waited for dev_mutex and gets it: the error handler's call after
\* a failed abort, or a user's
ResetLocked ==
    /\ \/ eh = "reset" /\ rst' = "eh" /\ UNCHANGED asked
       \/ asked /\ asked' = FALSE /\ rst' = "user"
    /\ rst = "none" /\ dev_mutex = "none"
    /\ dev_mutex' = "reset"
    /\ UNCHANGED <<dflags, srb, ready, notify, udev, thrVars, msgRes, flag, urb, unlinks,
                   mid, eh, disc, shutdown>>

\* mutant of DeviceReset: usb_stor_reset_common does not test DISCONNECTING
DeviceResetUntested == ResetLocked /\ MsgStart(ResetTransfers - 1)

\* then transport_reset: "No reset during disconnect", or the reset request
DeviceReset ==
    /\ ResetLocked
    /\ IF Has("DISCONNECTING") THEN UNCHANGED <<msg, left>>
                               ELSE MsgStart(ResetTransfers - 1)

\* after the reset request: a delay that a disconnect cuts short, then the
\* clear-halts; a failed request ends the sequence
ResetContinues(owner) ==
    /\ dev_mutex = owner /\ msg = "ret" /\ left > 0
    /\ left = ResetTransfers - 1 => msgRes = "good" /\ ~Has("DISCONNECTING")
ResetEnds(owner) ==
    /\ dev_mutex = owner /\ msg = "ret"
    /\ \/ left = 0
       \/ left = ResetTransfers - 1 /\ (msgRes = "error" \/ Has("DISCONNECTING"))

DeviceResetStep ==
    /\ rst # "none" /\ ResetContinues("reset")
    /\ MsgStart(left - 1)
    /\ UNCHANGED <<dflags, srb, ready, notify, dev_mutex, udev, thrVars, msgRes, flag, urb,
                   unlinks, mid, eh, asked, rst, disc, shutdown>>

\* device_reset returns; if it was the error handler's and it failed, the
\* handler goes on to bus_reset
DeviceResetEnd ==
    /\ rst # "none" /\ (msg = "none" \/ ResetEnds("reset"))
    /\ rst' = "none" /\ msg' = "none" /\ dev_mutex' = "none"
    /\ IF rst = "eh"
         THEN \/ eh' = "none" /\ mid' = "idle"
              \/ eh' = "busreset" /\ UNCHANGED mid
         ELSE UNCHANGED <<eh, mid>>
    /\ UNCHANGED <<dflags, srb, ready, notify, udev, thrVars, left, msgRes, flag, urb,
                   unlinks, asked, disc, shutdown>>

\* bus_reset calls usb_stor_port_reset: either it gives up before resetting, or
\* the usb core resets the device between pre_reset and post_reset
PortResetRefused == udev # "none" \/ Has("DISCONNECTING")

BusReset ==
    /\ eh = "busreset"
    /\ \/ eh' = "none" /\ mid' = "idle" /\ UNCHANGED udev
       \/ ~PortResetRefused /\ eh' = "prereset" /\ udev' = "eh" /\ UNCHANGED mid
    /\ UNCHANGED <<dflags, srb, ready, notify, dev_mutex, thrVars, left, msgVars, asked,
                   rst, disc, shutdown>>

BusPreReset ==
    /\ eh = "prereset" /\ dev_mutex = "none"
    /\ eh' = "postreset" /\ dev_mutex' = "port"
    /\ UNCHANGED <<dflags, srb, notify, msgVars, mid>> /\ EhUnchanged

BusPostReset ==
    /\ eh = "postreset"
    /\ dev_mutex' = "none" /\ udev' = "none"
    /\ eh' = "none" /\ mid' = "idle"
    /\ UNCHANGED <<dflags, srb, ready, notify, thrVars, left, msgVars, asked, rst, disc,
                   shutdown>>

-----------------------------------------------------------------------------
(* usb_stor_msg_common and its scatter-gather twin, executed by whoever    *)
(* holds dev_mutex.                                                        *)

MsgUnchanged == UNCHANGED <<srb, ready, notify, dev_mutex, udev, thrVars, left, mid, eh,
                            asked, rst, disc, shutdown>>

MsgTest ==
    /\ msg = "test"
    /\ IF Has("ABORTING")
         THEN msg' = "ret" /\ msgRes' = "error" /\ UNCHANGED <<urb, unlinks, flag>>
         ELSE /\ msg' = "submit" /\ urb' = "submitting" /\ unlinks' = 0
              /\ flag' \in IF dev_mutex = "thread" /\ thr = "msg"
                             THEN {"URB_ACTIVE", "SG_ACTIVE"} ELSE {"URB_ACTIVE"}
              /\ UNCHANGED msgRes
    /\ UNCHANGED dflags /\ MsgUnchanged

\* usb_submit_urb returns
MsgSubmitted ==
    /\ msg = "submit"
    /\ \/ msg' = "setactive" /\ urb' = "active" /\ UNCHANGED msgRes
       \/ msg' = "ret" /\ urb' = "idle" /\ msgRes' = "error"
    /\ UNCHANGED <<dflags, flag, unlinks>> /\ MsgUnchanged

MsgSetActive ==
    /\ msg = "setactive" /\ msg' = "recheck"
    /\ dflags' = dflags \cup {flag}
    /\ UNCHANGED <<msgRes, flag, urb, unlinks>> /\ MsgUnchanged

\* mutant of MsgRecheck: the flags are not tested again
MsgRecheckSkipped ==
    /\ msg = "recheck" /\ msg' = "wait"
    /\ UNCHANGED <<dflags, msgRes, flag, urb, unlinks>> /\ MsgUnchanged

\* did an abort occur during the submission?
MsgRecheck ==
    /\ msg = "recheck"
    /\ msg' = IF Has("ABORTING") THEN "cancel" ELSE "wait"
    /\ UNCHANGED <<dflags, msgRes, flag, urb, unlinks>> /\ MsgUnchanged

MsgCancel ==
    /\ msg = "cancel"
    /\ msg' = IF Has(flag) THEN "unlink" ELSE "wait"
    /\ dflags' = dflags \ {flag}
    /\ UNCHANGED <<msgRes, flag, urb, unlinks>> /\ MsgUnchanged

MsgUnlink ==
    /\ msg = "unlink" /\ msg' = "wait"
    /\ Unlink
    /\ UNCHANGED <<dflags, msgRes, flag>> /\ MsgUnchanged

\* the wait ends because the URB has completed
MsgWoken ==
    /\ msg = "wait" /\ urb \in {"good", "error"}
    /\ msg' = "ret" /\ msgRes' = urb /\ urb' = "idle"
    /\ dflags' = dflags \ {flag}
    /\ UNCHANGED <<flag, unlinks>> /\ MsgUnchanged

\* or because it has timed out: only the reset requests have a timeout
MsgTimeout ==
    /\ msg = "wait" /\ urb \in {"active", "unlinked"}
    /\ ~(dev_mutex = "thread" /\ thr = "msg")
    /\ msg' = "kill"
    /\ dflags' = dflags \ {flag}
    /\ UNCHANGED <<msgRes, flag, urb, unlinks>> /\ MsgUnchanged

\* usb_kill_urb returns when the URB is finished
MsgKill ==
    /\ msg = "kill"
    /\ msg' = "ret" /\ msgRes' = "error" /\ urb' = "idle"
    /\ UNCHANGED <<dflags, flag, unlinks>> /\ MsgUnchanged

\* The device answers, or the host controller gives an unlinked URB back.
UrbCompletes ==
    /\ \/ urb = "active" /\ urb' \in {"good", "error"}
       \/ urb = "unlinked" /\ urb' = "error"
    /\ UNCHANGED <<dflags, msg, msgRes, flag, unlinks>> /\ MsgUnchanged

-----------------------------------------------------------------------------
(* usb_stor_control_thread and, inside it, usb_stor_invoke_transport.      *)

ThrUnchanged == UNCHANGED <<msgRes, flag, urb, unlinks, eh, asked, rst, disc, shutdown>>
ThrGoes(p) == thr' = p
ThrLocal == UNCHANGED <<srb, ready, notify, udev, mid>>

ThrWoken ==
    /\ thr = "sleep" /\ ready > 0
    /\ ready' = ready - 1 /\ ThrGoes("lock")
    /\ UNCHANGED <<dflags, srb, notify, dev_mutex, udev, result, sense, portOk, left, msg, mid>>
    /\ ThrUnchanged

\* mutant of Finish: the answer to an abort depends on the result, which the
\* comment there warns of
FinishTestsResult(res) ==
    /\ mid' = IF res # "abort" /\ mid = "issued" THEN "idle" ELSE mid
    /\ IF res = "abort"
         THEN notify' = notify + 1 /\ dflags' = dflags \ {"ABORTING", "TIMED_OUT"}
         ELSE UNCHANGED <<notify, dflags>>
    /\ srb' = FALSE
    /\ dev_mutex' = "none"
    /\ ThrGoes("sleep")

\* the end of the loop body, under the host lock: scsi_done unless the command
\* was aborted (a command in the error handler ignores it), the answer to an
\* abort, srb = NULL
Finish(res) ==
    /\ mid' = IF res # "abort" /\ mid = "issued" THEN "idle" ELSE mid
    /\ IF Has("TIMED_OUT")
         THEN notify' = notify + 1 /\ dflags' = dflags \ {"ABORTING", "TIMED_OUT"}
         ELSE UNCHANGED <<notify, dflags>>
    /\ srb' = FALSE
    /\ dev_mutex' = "none"
    /\ ThrGoes("sleep")

ThrBegin ==
    /\ thr = "lock" /\ dev_mutex = "none" /\ HostLockFree
    /\ \/ ~srb /\ ThrGoes("exited") /\ UNCHANGED <<mid, notify, dflags, srb, dev_mutex, left, result, sense>>
       \/ srb /\ Has("TIMED_OUT") /\ Finish("abort") /\ UNCHANGED <<left, result, sense>>
       \/ /\ srb /\ ~Has("TIMED_OUT")
          /\ dev_mutex' = "thread"
          /\ \/ ThrGoes("run") /\ left' = MaxTransfers /\ UNCHANGED result
             \/ ThrGoes("finish") /\ result' \in {"good", "error"} /\ UNCHANGED left  \* rejected, or faked INQUIRY
          /\ sense' = "none"
          /\ UNCHANGED <<mid, notify, dflags, srb>>
    /\ UNCHANGED <<ready, udev, portOk, msg>> /\ ThrUnchanged

\* the transport makes one more transfer ...
ThrTransfer ==
    /\ thr = "run" /\ left > 0
    /\ MsgStart(left - 1) /\ ThrGoes("msg")
    /\ UNCHANGED <<dflags, dev_mutex, result, sense, portOk>> /\ ThrLocal /\ ThrUnchanged

\* ... and goes on after it, or returns its verdict
ThrTransferred ==
    /\ thr = "msg" /\ dev_mutex = "thread" /\ msg = "ret"
    /\ msg' = "none"
    /\ \/ msgRes = "good" /\ left > 0 /\ ThrGoes("run") /\ UNCHANGED result
       \/ msgRes = "good" /\ ThrGoes("check") /\ result' \in {"good", "failed", "error"}
       \/ msgRes = "error" /\ ThrGoes("check") /\ result' \in {"failed", "error"}
    /\ UNCHANGED <<dflags, dev_mutex, sense, portOk, left>> /\ ThrLocal /\ ThrUnchanged

\* usb_stor_invoke_transport after the transport returned: aborted; the command
\* in error, failed (fetch the sense data) or good (as a rule that is the end, but
\* the CB transport fetches the sense data all the same); or the auto-sense in
\* turn good, failed (a large request is repeated once as a small one) or in error
\* (fatal, except on a multi-target device)
Senses(size) == ThrGoes("run") /\ sense' = size /\ left' = MaxTransfers
Ends(p) == ThrGoes(p) /\ UNCHANGED <<sense, left>>

ThrCheck ==
    /\ thr = "check"
    /\ \/ Has("TIMED_OUT") /\ result' = "abort" /\ Ends("errors")
       \/ /\ ~Has("TIMED_OUT") /\ sense = "none"
          /\ \/ result = "error" /\ Ends("errors")
             \/ result = "good" /\ Ends("finish")
             \/ result \in {"failed", "good"} /\ \E size \in {"large", "small"} : Senses(size)
          /\ UNCHANGED result
       \/ /\ ~Has("TIMED_OUT") /\ sense # "none"
          /\ \/ result = "good" /\ Ends("finish") /\ UNCHANGED result
             \/ result = "failed" /\ sense = "large" /\ Senses("small") /\ UNCHANGED result
             \/ /\ result = "error" \/ (result = "failed" /\ sense = "small")
                /\ result' = "error" /\ \E p \in {"errors", "finish"} : Ends(p)
    /\ UNCHANGED <<dflags, dev_mutex, portOk, msg>> /\ ThrLocal /\ ThrUnchanged

\* Handle_Errors, under the host lock
ThrErrors ==
    /\ thr = "errors" /\ HostLockFree
    /\ dflags' = (dflags \cup {"RESETTING"}) \ {"ABORTING"}
    /\ ThrGoes("unlock")
    /\ UNCHANGED <<dev_mutex, result, sense, portOk, left, msg>> /\ ThrLocal /\ ThrUnchanged

ThrUnlock ==
    /\ thr = "unlock" /\ ThrGoes("port")
    /\ dev_mutex' = "none"
    /\ UNCHANGED <<dflags, result, sense, portOk, left, msg>> /\ ThrLocal /\ ThrUnchanged

\* usb_stor_port_reset
ThrPortReset ==
    /\ thr = "port"
    /\ \/ portOk' = FALSE /\ ThrGoes("relock") /\ UNCHANGED udev
       \/ ~PortResetRefused /\ udev' = "thread" /\ ThrGoes("prereset") /\ UNCHANGED portOk
    /\ UNCHANGED <<dflags, srb, ready, notify, dev_mutex, result, sense, left, msg, mid>>
    /\ ThrUnchanged

ThrPreReset ==
    /\ thr = "prereset" /\ dev_mutex = "none"
    /\ dev_mutex' = "port" /\ ThrGoes("postreset")
    /\ UNCHANGED <<dflags, result, sense, portOk, left, msg>> /\ ThrLocal /\ ThrUnchanged

\* post_reset takes the host lock to report the reset
ThrPostReset ==
    /\ thr = "postreset" /\ HostLockFree
    /\ dev_mutex' = "none" /\ udev' = "none"
    /\ portOk' \in BOOLEAN /\ ThrGoes("relock")
    /\ UNCHANGED <<dflags, srb, ready, notify, result, sense, left, msg, mid>> /\ ThrUnchanged

ThrRelock ==
    /\ thr = "relock" /\ dev_mutex = "none"
    /\ dev_mutex' = "thread"
    /\ ThrGoes(IF portOk THEN "endreset" ELSE "classreset")
    /\ UNCHANGED <<dflags, result, sense, portOk, left, msg>> /\ ThrLocal /\ ThrUnchanged

\* the port reset failed: report a device reset under the host lock, then
\* usb_stor_reset_common
ThrClassReset ==
    /\ thr = "classreset" /\ HostLockFree
    /\ IF Has("DISCONNECTING")
         THEN ThrGoes("endreset") /\ UNCHANGED <<msg, left>>
         ELSE ThrGoes("resetmsg") /\ MsgStart(ResetTransfers - 1)
    /\ UNCHANGED <<dflags, dev_mutex, result, sense, portOk>> /\ ThrLocal /\ ThrUnchanged

ThrClassResetStep ==
    /\ thr = "resetmsg"
    /\ \/ ResetContinues("thread") /\ MsgStart(left - 1) /\ UNCHANGED thr
       \/ ResetEnds("thread") /\ msg' = "none" /\ ThrGoes("endreset") /\ UNCHANGED left
    /\ UNCHANGED <<dflags, dev_mutex, result, sense, portOk>> /\ ThrLocal /\ ThrUnchanged

\* RESETTING is cleared without the host lock
ThrEndReset ==
    /\ thr = "endreset" /\ ThrGoes("finish")
    /\ dflags' = dflags \ {"RESETTING"}
    /\ UNCHANGED <<dev_mutex, result, sense, portOk, left, msg>> /\ ThrLocal /\ ThrUnchanged

ThrFinish ==
    /\ thr = "finish" /\ HostLockFree
    /\ Finish(result)
    /\ UNCHANGED <<ready, udev, result, sense, portOk, left, msg>> /\ ThrUnchanged

-----------------------------------------------------------------------------
(* usb_stor_disconnect, called by the usb core with the device lock held.  *)

DiscUnchanged == UNCHANGED <<srb, notify, dev_mutex, thrVars, left, msg, msgRes, flag,
                             unlinks, mid, eh, asked, rst, shutdown>>

\* quiesce_and_remove_host: if the device is already gone DISCONNECTING is set
\* now, without the host lock
DiscStart ==
    /\ disc = "no" /\ udev = "none"
    /\ udev' = "disc" /\ disc' = "removing"
    /\ \/ dflags' = dflags \cup {"DISCONNECTING"}
       \/ UNCHANGED dflags
    /\ UNCHANGED <<ready, urb>> /\ DiscUnchanged

\* scsi_remove_host returns when no command is outstanding and none will come
DiscRemoved ==
    /\ disc = "removing" /\ mid = "idle" /\ disc' = "removed"
    /\ UNCHANGED <<dflags, ready, udev, urb>> /\ DiscUnchanged

DiscFlag ==
    /\ disc = "removed" /\ HostLockFree /\ disc' = "flagged"
    /\ dflags' = dflags \cup {"DISCONNECTING"}
    /\ UNCHANGED <<ready, udev, urb>> /\ DiscUnchanged

\* usb_stor_release_resources: wake the thread with no command, wait for it
DiscStopThread ==
    /\ disc = "flagged" /\ disc' = "stopping"
    /\ ready' = ready + 1
    /\ UNCHANGED <<dflags, udev, urb>> /\ DiscUnchanged

DiscFree ==
    /\ disc = "stopping" /\ thr = "exited" /\ disc' = "freed"
    /\ urb' = "freed" /\ udev' = "none"
    /\ UNCHANGED <<dflags, ready>> /\ DiscUnchanged

-----------------------------------------------------------------------------
ErrorHandler == Abort \/ StopTransport \/ StopUnlink \/ AbortReturns
                \/ BusReset \/ BusPreReset \/ BusPostReset
Reset == DeviceReset \/ DeviceResetStep \/ DeviceResetEnd
Message == MsgTest \/ MsgSubmitted \/ MsgSetActive \/ MsgRecheck \/ MsgCancel \/ MsgUnlink
           \/ MsgWoken \/ MsgTimeout \/ MsgKill
Thread == ThrWoken \/ ThrBegin \/ ThrTransfer \/ ThrTransferred \/ ThrCheck \/ ThrErrors
          \/ ThrUnlock \/ ThrPortReset \/ ThrPreReset \/ ThrPostReset \/ ThrRelock
          \/ ThrClassReset \/ ThrClassResetStep \/ ThrEndReset \/ ThrFinish
Disconnect == DiscRemoved \/ DiscFlag \/ DiscStopThread \/ DiscFree

Next ==
    \/ QueueCommand \/ CommandTimeout
    \/ ErrorHandler \/ AskReset \/ Reset \/ Message \/ UrbCompletes \/ Thread
    \/ DiscStart \/ Disconnect

Spec == Init /\ [][Next]_vars

\* Every process runs; the SCSI timer of an outstanding command expires; the
\* host controller gives an unlinked URB back. A URB that was not unlinked may
\* stay with a silent device for ever, and no disconnect need ever happen.
FairSpec ==
    /\ Spec
    /\ WF_vars(CommandTimeout) /\ WF_vars(ErrorHandler) /\ WF_vars(Reset)
    /\ WF_vars(Message) /\ WF_vars(Thread) /\ WF_vars(Disconnect)
    /\ WF_vars(urb = "unlinked" /\ UrbCompletes)

-----------------------------------------------------------------------------
(* Properties. Those about the bits of us->dflags are the promises of the  *)
(* comment "This is subtle, so pay attention" in USB/transport.c.          *)

\* (1) Once ABORTING is set and command_abort is past stop_transport, a URB the
\* thread waits for has been unlinked, by one side or the other.
AbortedIsUnlinked ==
    msg = "wait" /\ Has("ABORTING") /\ HostLockFree => urb # "active"

\* (2) usb_unlink_urb is called at most once for each submission, and never
\* while usb_submit_urb is running.
UnlinkedOnce == unlinks <= 1
NoUnlinkDuringSubmit == urb = "submitting" => eh # "unlink" /\ msg # "unlink"

\* The reset after a failed command is never disturbed by an abort: neither
\* does ABORTING refuse its URBs nor is one of them cancelled.
AutoResetUndisturbed ==
    /\ Has("RESETTING") => ~Has("ABORTING") /\ HostLockFree
    /\ thr = "resetmsg" => urb # "unlinked"

\* An abort reaches its URB, once, and nothing but its URB: the promises of that
\* comment taken together (transport.c:128-188, 866-908).
AbortSafe == AbortedIsUnlinked /\ UnlinkedOnce /\ NoUnlinkDuringSubmit /\ AutoResetUndisturbed

\* The state-transition error queuecommand_lck checks for never happens: when
\* the midlayer may send a command no earlier one is left in us->srb.
NeverBusy == mid = "idle" /\ HostLockFree => ~srb

\* Every command is answered exactly once: while the midlayer waits for one the
\* driver still has it, and an abort the driver has accepted keeps the command
\* and the TIMED_OUT bit until it is notified.
CommandNotLost ==
    /\ mid = "issued" => srb
    /\ eh \in {"stop", "unlink"} => srb /\ Has("TIMED_OUT")
    /\ eh = "waiting" => (notify = 0 <=> srb /\ Has("TIMED_OUT"))
    /\ notify > 0 => eh = "waiting"

\* The midlayer and the driver agree on which command is outstanding and who
\* still owes an answer (scsiglue.c:311-378, usb_1.c:305-409).
CommandsAccounted == NeverBusy /\ CommandNotLost

\* Nothing of an abort or a reset survives the command it belonged to.
NothingLeftBehind ==
    ~srb => dflags \cap {"TIMED_OUT", "ABORTING", "RESETTING"} = {}

\* After usb_stor_release_resources freed the URB nobody uses it: the thread has
\* exited, the error handler is out of the driver, and a user's device_reset that
\* waited for dev_mutex across the disconnect, or is called after it, gets the mutex
\* and submits nothing.
FreedUnused ==
    urb = "freed" => msg = "none" /\ thr = "exited" /\ eh = "none" /\ rst # "eh" /\ ~srb

\* Neither a command nor a disconnect leaves anything for the next to trip over
\* (usb_1.c:378-409, 781-859, scsiglue.c:382-395, transport.c:1255-1258).
CleanedUp == NothingLeftBehind /\ FreedUnused

\* A call of command_abort returns, even if the device is silent.
AbortEnds == eh \in {"abort", "stop", "unlink", "waiting"} ~> mid = "idle" \/ eh = "reset"

\* Every command the midlayer sent is finished.
CommandEnds == mid = "issued" ~> mid = "idle"

\* A disconnect ends, with the thread stopped and the URB freed.
DisconnectEnds == disc = "removing" ~> disc = "freed"

\* Once user programs no longer ask for a device reset, whose lock could
\* otherwise be taken for ever, every abort, command and disconnect ends.
EverythingEnds == <>[](rst # "user") => AbortEnds /\ CommandEnds /\ DisconnectEnds
=============================================================================
