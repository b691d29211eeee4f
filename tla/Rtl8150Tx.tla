----------------------------- MODULE Rtl8150Tx -----------------------------
(***************************************************************************)
(* Transmission and link state in USB_Based_Ethernet/rtl_8150.c. There is  *)
(* one URB, tx_urb, and one frame at a time, tx_skb: start_xmit stops the  *)
(* queue, its completion write_bulk_callback frees the frame and wakes the *)
(* queue. rtl8150_set_multicast, which the stack calls under another lock  *)
(* than start_xmit, stops and wakes the queue as well. The interrupt URB   *)
(* tells the state of the link; the watchdog runs only with a link.        *)
(*                                                                         *)
(* The receive side, Rtl8150Rx, shares the network device with this one:   *)
(* here it only detaches it when the device is gone.                       *)
(***************************************************************************)
EXTENDS Naturals

CONSTANTS Skbs, NoSkb

ASSUME NoSkbAssumption == NoSkb \notin Skbs

VARIABLES
    owner,         \* who has a frame: the stack, the driver, or nobody any more ("lost")
    tx_skb,        \* dev->tx_skb
    txUrb,         \* "idle", "active", or "unlinked" while still in flight
    inflight,      \* the frame that tx_urb was submitted with
    wcb,           \* control point of write_bulk_callback
    stopped,       \* netif_queue_stopped
    xmit,          \* control point of rtl8150_start_xmit
    mcast,         \* is rtl8150_set_multicast between stop and wake?
    intrUrb,       \* idle, active, or completed and not handled yet
    report,        \* MSR_LINK in intr_buff
    link, carrier, \* the cable, and what the stack knows of it
    running, op,   \* netif_running; what open or close is at
    present,       \* netif_device_present
    pm,            \* power management: "on", "suspending", "off"
    gone,          \* the device has been pulled out
    disc,          \* control point of rtl8150_disconnect
    calm           \* history: no set_multicast has woken the queue for a frame on its way

skbVars == <<owner, tx_skb>>
txVars == <<txUrb, inflight>>
linkVars == <<intrUrb, report, link, carrier>>
admVars == <<running, op, pm, gone, disc>>
vars == <<skbVars, txVars, wcb, stopped, xmit, mcast, linkVars, present, admVars, calm>>

TypeOK ==
    /\ owner \in [Skbs -> {"stack", "driver", "lost"}] /\ tx_skb \in Skbs \cup {NoSkb}
    /\ txUrb \in {"idle", "active", "unlinked"} /\ inflight \in IF txUrb = "idle" THEN {NoSkb} ELSE Skbs
    /\ wcb \in {"no", "free", "check", "wake"} /\ stopped \in BOOLEAN
    /\ xmit \in {"no", "submit", "failed"} /\ mcast \in BOOLEAN
    /\ intrUrb \in {"idle", "active", "ok", "error", "unlinked"}
    /\ report \in BOOLEAN /\ link \in BOOLEAN /\ carrier \in BOOLEAN
    /\ running \in BOOLEAN /\ op \in {"none", "opening", "closing"} /\ present \in BOOLEAN
    /\ pm \in {"on", "suspending", "off"} /\ gone \in BOOLEAN
    /\ disc \in {"no", "unregister", "unlink", "freed"} /\ calm \in BOOLEAN

Init ==
    /\ owner = [s \in Skbs |-> "stack"] /\ tx_skb = NoSkb
    /\ txUrb = "idle" /\ inflight = NoSkb /\ wcb = "no" /\ stopped = FALSE
    /\ xmit = "no" /\ mcast = FALSE
    /\ intrUrb = "idle" /\ report = FALSE /\ link \in BOOLEAN /\ carrier = TRUE
    /\ running = FALSE /\ op = "none" /\ present = TRUE /\ pm = "on"
    /\ gone = FALSE /\ disc = "no" /\ calm = TRUE

-----------------------------------------------------------------------------
(* The USB core, the device and the networking core.                       *)

Outcomes == {"ok", "nodev", "fail"}

\* usb_submit_urb of a URB that is idle or not; it may lack memory at any time
May(r, idle) ==
    /\ r = "ok" => idle /\ pm # "off" /\ ~gone
    /\ r = "nodev" <=> idle /\ gone

\* usb_kill_urb of both URBs is running, and submissions of them fail
Killing == op = "closing" \/ disc = "unlink"
TxKilled == txUrb = "idle" /\ wcb = "no"
IntrKilled == intrUrb = "idle"

\* netif_device_detach, which stops the queue of a device that is present
Detach == present' = FALSE /\ stopped' = (stopped \/ (present /\ running))
DetachIf(b) == IF b THEN Detach ELSE UNCHANGED <<present, stopped>>

\* a frame is sent, fails, or comes back unlinked
TxCompletes ==
    /\ txUrb # "idle" /\ wcb = "no"
    /\ txUrb' = "idle" /\ inflight' = NoSkb /\ wcb' = "free"
    /\ UNCHANGED <<skbVars, stopped, xmit, mcast, linkVars, present, admVars, calm>>

IntrCompletes ==
    /\ intrUrb = "active"
    /\ \/ ~gone /\ intrUrb' = "ok" /\ report' = link
       \/ intrUrb' = "error" /\ UNCHANGED report
       \/ (Killing \/ pm = "suspending" \/ gone) /\ intrUrb' = "unlinked" /\ UNCHANGED report
    /\ UNCHANGED <<skbVars, txVars, wcb, stopped, xmit, mcast, link, carrier, present,
                   admVars, calm>>

CableChanges ==
    /\ link' = ~link
    /\ UNCHANGED <<skbVars, txVars, wcb, stopped, xmit, mcast, intrUrb, report, carrier,
                   present, admVars, calm>>

Unplug ==
    /\ ~gone /\ gone' = TRUE
    /\ UNCHANGED <<skbVars, txVars, wcb, stopped, xmit, mcast, linkVars, present, running,
                   op, pm, disc, calm>>

\* the receive side detaches the device
RxDetaches ==
    /\ gone /\ present /\ running /\ Detach
    /\ UNCHANGED <<skbVars, txVars, wcb, xmit, mcast, linkVars, admVars, calm>>

-----------------------------------------------------------------------------
(* rtl8150_start_xmit, under the queue's lock, and write_bulk_callback.    *)

TxLocal == UNCHANGED <<mcast, linkVars, admVars, calm>>

\* the interface is up and the machine awake
Free == running /\ op = "none" /\ pm # "off"

\* mutant of XmitFill: the queue is not stopped
XmitFillAwake(s) ==
    /\ Free /\ ~stopped /\ xmit = "no" /\ owner[s] = "stack"
    /\ tx_skb' = s /\ owner' = [owner EXCEPT ![s] = "driver"]
    /\ xmit' = "submit"
    /\ UNCHANGED <<txVars, wcb, stopped, present>> /\ TxLocal

\* netif_stop_queue, tx_skb, and the URB filled
XmitFill(s) ==
    /\ Free /\ ~stopped /\ xmit = "no" /\ owner[s] = "stack"
    /\ stopped' = TRUE
    /\ tx_skb' = s /\ owner' = [owner EXCEPT ![s] = "driver"]
    /\ xmit' = "submit"
    /\ UNCHANGED <<txVars, wcb, present>> /\ TxLocal

\* a frame that could not be submitted is never freed
XmitSubmit(r) ==
    /\ xmit = "submit" /\ May(r, txUrb = "idle")
    /\ IF r = "ok" THEN txUrb' = "active" /\ inflight' = tx_skb /\ UNCHANGED owner
                   ELSE owner' = [owner EXCEPT ![tx_skb] = "lost"] /\ UNCHANGED txVars
    /\ xmit' = IF r = "fail" THEN "failed" ELSE "no"
    /\ DetachIf(r = "nodev")
    /\ UNCHANGED <<tx_skb, wcb>> /\ TxLocal

XmitFailed ==
    /\ xmit = "failed" /\ xmit' = "no" /\ stopped' = FALSE
    /\ UNCHANGED <<skbVars, txVars, wcb, present>> /\ TxLocal

\* dev_kfree_skb_irq
WriteFree ==
    /\ wcb = "free" /\ wcb' = "check"
    /\ owner' = [owner EXCEPT ![tx_skb] = "stack"]
    /\ UNCHANGED <<tx_skb, txVars, stopped, xmit, present>> /\ TxLocal

WriteCheck ==
    /\ wcb = "check" /\ wcb' = IF present THEN "wake" ELSE "no"
    /\ UNCHANGED <<skbVars, txVars, stopped, xmit, present>> /\ TxLocal

WriteWake ==
    /\ wcb = "wake" /\ wcb' = "no" /\ stopped' = FALSE
    /\ UNCHANGED <<skbVars, txVars, xmit, present>> /\ TxLocal

\* the watchdog, which needs a carrier and the queue's lock: usb_unlink_urb
TxTimeout ==
    /\ stopped /\ running /\ op = "none" /\ present /\ carrier /\ xmit = "no"
    /\ txUrb = "active" /\ txUrb' = "unlinked"
    /\ UNCHANGED <<skbVars, inflight, wcb, stopped, xmit, present>> /\ TxLocal

-----------------------------------------------------------------------------
(* rtl8150_set_multicast, under the address list's lock.                   *)

McastStop(r) ==
    /\ running /\ op = "none" /\ present /\ ~mcast /\ May(r, TRUE)
    /\ mcast' = TRUE /\ stopped' = TRUE /\ present' = (r # "nodev")
    /\ UNCHANGED <<skbVars, txVars, wcb, xmit, linkVars, admVars, calm>>

McastWake ==
    /\ mcast /\ mcast' = FALSE /\ stopped' = FALSE
    /\ calm' = (calm /\ txUrb = "idle" /\ wcb = "no" /\ xmit = "no")
    /\ UNCHANGED <<skbVars, txVars, wcb, xmit, linkVars, present, admVars>>

-----------------------------------------------------------------------------
(* intr_callback.                                                          *)

LinkLocal == UNCHANGED <<skbVars, txVars, wcb, xmit, mcast, report, link, admVars, calm>>

\* mutant of IntrHandles: the link's state is taken over only when it is lost
IntrLosesOnly(r) ==
    /\ intrUrb \in {"ok", "error"} /\ May(r, TRUE) /\ (Killing \/ pm # "on" => r # "ok")
    /\ carrier' = (carrier /\ (intrUrb = "ok" => report))
    /\ intrUrb' = IF r = "ok" THEN "active" ELSE "idle"
    /\ DetachIf(r = "nodev") /\ LinkLocal

IntrHandles(r) ==
    /\ intrUrb \in {"ok", "error"} /\ May(r, TRUE) /\ (Killing \/ pm # "on" => r # "ok")
    /\ carrier' = IF intrUrb = "ok" THEN report ELSE carrier
    /\ intrUrb' = IF r = "ok" THEN "active" ELSE "idle"
    /\ DetachIf(r = "nodev") /\ LinkLocal

IntrUnlinked ==
    /\ intrUrb = "unlinked" /\ intrUrb' = "idle"
    /\ UNCHANGED <<carrier, stopped, present>> /\ LinkLocal

-----------------------------------------------------------------------------
(* Open, close, suspend, resume and disconnect.                            *)

Idle == op = "none" /\ pm = "on"
AdmLocal == UNCHANGED <<skbVars, txVars, wcb, xmit, mcast, report, link, calm>>

\* rtl8150_open when rx_urb has been submitted; intr_urb, enable_net_traffic
Open(r) ==
    /\ Idle /\ ~running /\ present /\ disc \in {"no", "unregister"} /\ May(r, TRUE)
    /\ intrUrb' = IF r = "ok" THEN "active" ELSE intrUrb
    /\ op' = IF r = "ok" THEN "opening" ELSE "none"
    /\ DetachIf(r = "nodev")
    /\ UNCHANGED <<carrier, running, pm, gone, disc>> /\ AdmLocal

\* set_carrier, whose register value may be stale, or never read when
\* get_registers has failed; netif_start_queue
OpenStart ==
    /\ op = "opening" /\ op' = "none" /\ running' = TRUE
    /\ carrier' \in BOOLEAN /\ stopped' = FALSE
    /\ UNCHANGED <<intrUrb, present, pm, gone, disc>> /\ AdmLocal

\* rtl8150_close, when start_xmit is no longer running
Close ==
    /\ Idle /\ running /\ xmit = "no" /\ op' = "closing" /\ stopped' = TRUE
    /\ UNCHANGED <<intrUrb, carrier, running, present, pm, gone, disc>> /\ AdmLocal

\* unlink_all_urbs
Closed ==
    /\ op = "closing" /\ TxKilled /\ IntrKilled
    /\ op' = "none" /\ running' = FALSE
    /\ UNCHANGED <<stopped, intrUrb, carrier, present, pm, gone, disc>> /\ AdmLocal

Suspend ==
    /\ Idle /\ disc = "no" /\ Detach
    /\ pm' = "suspending"
    /\ UNCHANGED <<intrUrb, carrier, running, op, gone, disc>> /\ AdmLocal

\* intr_urb is killed; tx_urb is left to the USB core, which empties every
\* endpoint of a device that it suspends; no processor sleeps in the middle of
\* start_xmit or set_multicast
Suspended ==
    /\ pm = "suspending" /\ TxKilled /\ IntrKilled /\ xmit = "no" /\ ~mcast
    /\ pm' = "off"
    /\ UNCHANGED <<stopped, intrUrb, carrier, present, running, op, gone, disc>> /\ AdmLocal

\* netif_device_attach, and intr_callback with what is in the buffer
Resume(r) ==
    /\ pm = "off" /\ disc = "no" /\ pm' = "on"
    /\ r = "nodev" <=> gone
    /\ IF running THEN /\ carrier' = report
                       /\ intrUrb' = IF r = "ok" THEN "active" ELSE "idle"
                       /\ present' = (r # "nodev") /\ stopped' = (r = "nodev")
                  ELSE present' = TRUE /\ UNCHANGED <<stopped, carrier, intrUrb>>
    /\ UNCHANGED <<running, op, gone, disc>> /\ AdmLocal

DiscLocal == UNCHANGED <<stopped, intrUrb, carrier, present, running, op, gone>> /\ AdmLocal

DiscStart ==
    /\ disc = "no" /\ pm # "suspending" /\ pm' = "on" /\ disc' = "unregister" /\ DiscLocal

\* unregister_netdev has closed the interface and waited for its users
DiscUnregistered ==
    /\ disc = "unregister" /\ op = "none" /\ ~running /\ ~mcast
    /\ disc' = "unlink" /\ UNCHANGED pm /\ DiscLocal

DiscFree ==
    /\ disc = "unlink" /\ TxKilled /\ IntrKilled
    /\ disc' = "freed" /\ UNCHANGED pm /\ DiscLocal

-----------------------------------------------------------------------------
Xmit == XmitFailed \/ (\E s \in Skbs : XmitFill(s)) \/ (\E r \in Outcomes : XmitSubmit(r))
Written == WriteFree \/ WriteCheck \/ WriteWake
Mcast == McastWake \/ \E r \in Outcomes : McastStop(r)
Intr == IntrUnlinked \/ \E r \in Outcomes : IntrHandles(r)
Environment == TxCompletes \/ IntrCompletes \/ CableChanges \/ Unplug \/ RxDetaches
Administration ==
    \/ \E r \in Outcomes : Open(r) \/ Resume(r)
    \/ OpenStart \/ Close \/ Closed \/ Suspend \/ Suspended
Disconnect == DiscStart \/ DiscUnregistered \/ DiscFree

Next ==
    \/ Environment \/ Xmit \/ Written \/ TxTimeout \/ Mcast \/ Intr
    \/ Administration \/ Disconnect

Spec == Init /\ [][Next]_vars

\* Code that has started goes on, the watchdog expires, and a URB that was
\* unlinked comes back. The device need not send anything, but it reports the
\* state of the link again and again.
FairSpec ==
    /\ Spec
    /\ WF_vars(Written) /\ WF_vars(XmitFailed \/ \E r \in Outcomes : XmitSubmit(r))
    /\ WF_vars(McastWake) /\ WF_vars(Intr) /\ WF_vars(TxTimeout)
    /\ WF_vars(txUrb = "unlinked" /\ TxCompletes)
    /\ SF_vars(IntrCompletes /\ intrUrb' = "ok")

-----------------------------------------------------------------------------
(* Properties.                                                             *)

\* The queue is awake only when tx_urb is free for another frame: that is what
\* start_xmit relies on, which looks at nothing before it fills the URB
\* (rtl_8150.c:902-933), as long as set_multicast has not woken it too early.
Awake == running /\ op = "none" /\ ~stopped
AwakeMeansFree == calm /\ Awake => txUrb = "idle" /\ wcb = "no" /\ xmit # "submit"

\* The frame being sent is the one that write_bulk_callback will free, and it
\* is freed once, when it is no longer being sent (rtl_8150.c:598-607, 912-917).
FreesWhatWasSent ==
    calm => /\ txUrb # "idle" => inflight = tx_skb /\ owner[tx_skb] = "driver" /\ wcb # "free"
            /\ wcb = "free" => owner[tx_skb] = "driver"

\* Every frame the driver has is on its way: none is forgotten, but for those
\* that could not be submitted (rtl_8150.c:902-933, 598-614).
NothingForgotten ==
    calm => \A s \in Skbs : owner[s] = "driver" =>
                s = tx_skb /\ (txUrb # "idle" \/ wcb = "free" \/ xmit = "submit")

\* Every frame is where the queue says it is: being sent, about to be freed, or
\* back with the stack (rtl_8150.c:598-614, 837-843, 902-932).
FramesAccounted == AwakeMeansFree /\ FreesWhatWasSent /\ NothingForgotten

\* A queue that was stopped is woken, by the completion, by set_multicast or
\* by resume, even if the device sends nothing: the watchdog unlinks the URB
\* (rtl_8150.c:598-614, 837-843, 879, 705).
Up == running /\ op = "none" /\ present
StoppedIsWoken == Up /\ carrier /\ stopped ~> ~stopped \/ ~Up \/ ~carrier

\* The stack learns the state of the link, unless intr_urb could not be
\* submitted again or the device is gone (rtl_8150.c:627-682).
LinkIsTold ==
    \A b \in BOOLEAN :
        Up /\ link = b /\ intrUrb # "idle"
            ~> carrier = b \/ link # b \/ ~Up \/ gone \/ intrUrb = "idle"

\* The stack is neither left with a stopped queue nor with a stale carrier
\* (rtl_8150.c:598-682, 837-880).
QueueFollows == StoppedIsWoken /\ LinkIsTold
=============================================================================
