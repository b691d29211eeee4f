----------------------------- MODULE Rtl8139Rx -----------------------------
(***************************************************************************)
(* The receive side of net/realtek/rtl8139.c and everything that may       *)
(* disturb it: the chip's receive ring, the shared interrupt handler, NAPI *)
(* (rtl8139_poll, rtl8139_rx), the work item that resets the chip, open,   *)
(* close, suspend, resume and remove.                                      *)
(*                                                                         *)
(* A position in the ring counts packets. The chip believes the driver to  *)
(* read at RxBufPtr, from where its unread packets lie; the driver keeps   *)
(* its own idea in cur_rx and, while it polls, in a local copy. rx_lock is held by the  *)
(* poll and by the reset; tp->lock by the handler and the end of a poll,   *)
(* each of which is one action.                                            *)
(***************************************************************************)
EXTENDS Integers, Sequences

CONSTANTS
    RingSlots,   \* packets that fit in RX_BUF_LEN, and the free slot between
    Weight       \* the NAPI budget of one poll

ASSUME RingSlotsAssumption == RingSlots \in Nat /\ RingSlots > 1
ASSUME WeightAssumption == Weight \in Nat \ {0}

VARIABLES
    \* the chip; intr stands for the bits RxAckBits of IntrStatus, IntrMask for
    \* rtl8139_intr_mask, rtl8139_norx_intr_mask or 0
    rx_ring, RxBufPtr, rxEnb, intr, IntrMask,
    \* the driver's private data
    cur_rx, fifo_copy_timeout,
    \* NAPI; rtl8139_poll with its local copy of cur_rx and its count
    napi, poll, pos, received,
    \* the work item: queued, and where rtl8139_tx_timeout_task is
    pending, thr,
    \* interface, power management, remove has begun
    phase, pm, removing,
    \* history: a reset unmasked while NAPI was scheduled; it came without rx_lock
    \* in the middle of a poll; a poll acknowledged a packet and left it in the
    \* ring; work was queued after remove had cancelled it
    met, torn, swallowed, late

chipVars == <<rx_ring, RxBufPtr, rxEnb, intr, IntrMask>>
privVars == <<cur_rx, fifo_copy_timeout>>
pollVars == <<napi, poll, pos, received>>
workVars == <<pending, thr>>
coreVars == <<phase, pm, removing>>
history  == <<met, torn, swallowed, late>>
vars == <<chipVars, privVars, pollVars, workVars, coreVars, history>>

Slots == 0 .. RingSlots - 1
After(p) == (p + 1) % RingSlots

\* "copying": the header still reads 0xfff0; "bad": neither size nor status
\* are those of a packet
Kinds == {"ok", "bad", "copying"}

RxBufEmpty == rx_ring = <<>>
RxBufAddr == (RxBufPtr + Len(rx_ring)) % RingSlots     \* where the chip writes

netif_running == phase \in {"opening", "starting", "up"}
irqRequested == phase \notin {"down", "gone"}
asleep == pm = "asleep"                   \* registers read as ones
rtnlFree == phase \in {"down", "up"} /\ thr = "idle"
thrHasRxLock == thr \in {"start", "unmask"}

TypeOK ==
    /\ rx_ring \in Seq(Kinds) /\ Len(rx_ring) < RingSlots /\ RxBufPtr \in Slots
    /\ rxEnb \in BOOLEAN /\ intr \in BOOLEAN /\ IntrMask \in {"none", "norx", "all"}
    /\ cur_rx \in Slots /\ fifo_copy_timeout \in {"none", "set", "expired"}
    /\ napi \in {"disabled", "idle", "sched"}
    /\ poll \in {"idle", "loop", "ack", "acklast", "store", "end"}
    /\ pos \in Slots /\ received \in -1 .. Weight
    /\ pending \in BOOLEAN /\ thr \in {"idle", "lock", "start", "unmask"}
    /\ phase \in {"down", "opening", "starting", "up", "closing", "stopping", "gone"}
    /\ pm \in {"on", "stopped", "asleep", "awake", "started"}
    /\ removing \in BOOLEAN
    /\ met \in BOOLEAN /\ torn \in BOOLEAN /\ swallowed \in BOOLEAN /\ late \in BOOLEAN

Init ==
    /\ rx_ring = <<>> /\ RxBufPtr = 0
    /\ rxEnb = FALSE /\ intr = FALSE /\ IntrMask = "none"
    /\ cur_rx = 0 /\ fifo_copy_timeout = "none"
    /\ napi = "disabled" /\ poll = "idle" /\ pos = 0 /\ received = 0
    /\ pending = FALSE /\ thr = "idle"
    /\ phase = "down" /\ pm = "on" /\ removing = FALSE
    /\ met = FALSE /\ torn = FALSE /\ swallowed = FALSE /\ late = FALSE

-----------------------------------------------------------------------------
(* The chip.                                                               *)

Receiving == rxEnb /\ ~asleep

\* a packet is in the ring as a whole, or its copy from the FIFO goes on; with
\* no room for it the chip reports RxOverflow or RxFIFOOver and drops it
ChipReceives(kind) ==
    /\ Receiving
    /\ IF Len(rx_ring) = RingSlots - 1
         THEN intr' = TRUE /\ UNCHANGED rx_ring
         ELSE /\ rx_ring' = Append(rx_ring, kind)
              /\ intr' = (intr \/ kind # "copying")
    /\ swallowed' = (swallowed /\ ~intr')
    /\ UNCHANGED <<RxBufPtr, rxEnb, IntrMask, privVars, pollVars, workVars, coreVars,
                   met, torn, late>>

ChipCopied ==
    /\ Receiving
    /\ \E i \in 1 .. Len(rx_ring) :
         rx_ring[i] = "copying" /\ rx_ring' = [rx_ring EXCEPT ![i] = "ok"]
    /\ intr' = TRUE /\ swallowed' = FALSE
    /\ UNCHANGED <<RxBufPtr, rxEnb, IntrMask, privVars, pollVars, workVars, coreVars,
                   met, torn, late>>

\* two ticks pass since the driver has first seen the packet in copy
FifoTick ==
    /\ fifo_copy_timeout = "set" /\ fifo_copy_timeout' = "expired"
    /\ UNCHANGED <<chipVars, cur_rx, pollVars, workVars, coreVars, history>>

-----------------------------------------------------------------------------
(* rtl8139_interrupt, under tp->lock. The line is shared: it may run when  *)
(* the chip has nothing to report or its interrupts are masked.            *)

\* mutant of Interrupt: it acknowledges the receive interrupts itself
InterruptAcks ==
    /\ irqRequested /\ intr /\ ~asleep
    /\ IF netif_running
         THEN napi = "idle" /\ napi' = "sched" /\ IntrMask' = "norx" /\ intr' = FALSE
         ELSE IntrMask' = "none" /\ UNCHANGED <<napi, intr>>
    /\ UNCHANGED <<rx_ring, RxBufPtr, rxEnb, privVars, poll, pos, received,
                   workVars, coreVars, history>>

\* a handler that finds nothing, all ones, or NAPI scheduled changes nothing
Interrupt ==
    /\ irqRequested /\ intr /\ ~asleep
    /\ IF netif_running
         THEN napi = "idle" /\ napi' = "sched" /\ IntrMask' = "norx"
         ELSE IntrMask' = "none" /\ UNCHANGED napi
    /\ UNCHANGED <<rx_ring, RxBufPtr, rxEnb, intr, privVars, poll, pos, received,
                   workVars, coreVars, history>>

-----------------------------------------------------------------------------
(* rtl8139_poll, called by the core's softirq while NAPI is scheduled.     *)

\* takes rx_lock; skips rtl8139_rx if no bit of RxAckBits is set
PollEnter ==
    /\ napi = "sched" /\ poll = "idle" /\ ~thrHasRxLock
    /\ poll' = IF intr \/ asleep THEN "loop" ELSE "end"
    /\ pos' = cur_rx /\ received' = 0
    /\ UNCHANGED <<chipVars, privVars, napi, workVars, coreVars, history>>

\* rtl8139_rx_err: CmdRxEnb off and on, which empties the chip's ring
RxErr ==
    /\ rx_ring' = <<>> /\ RxBufPtr' = 0 /\ cur_rx' = 0
    /\ received' = -1 /\ poll' = "end"
    /\ swallowed' = FALSE /\ torn' = FALSE
    /\ UNCHANGED <<intr, pos>>

\* mutant of RxTake: the chip is not told how far the driver has read
RxTakeSilently ==
    /\ pos' = After(pos) /\ received' = received + 1 /\ poll' = "ack"
    /\ UNCHANGED <<rx_ring, RxBufPtr, intr, cur_rx, swallowed, torn>>

\* what the chip holds for unread once the driver says it has read up to p
UnreadFrom(p) ==
    IF p = After(RxBufPtr) THEN {Tail(rx_ring)}
                           ELSE [1 .. (RxBufAddr - p) % RingSlots -> Kinds]

\* the packet is copied for the stack, or dropped for lack of memory
RxTake ==
    /\ pos' = After(pos) /\ received' = received + 1 /\ poll' = "ack"
    /\ RxBufPtr' = After(pos) /\ rx_ring' \in UnreadFrom(After(pos))
    /\ UNCHANGED <<intr, cur_rx, swallowed, torn>>

\* what the driver finds where it looks: out of step, anything
Header == IF pos = RxBufPtr THEN {Head(rx_ring)} ELSE Kinds

RxGoesOn == netif_running /\ received < Weight /\ ~RxBufEmpty /\ ~asleep

\* one turn of rtl8139_rx's loop up to rtl8139_isr_ack
RxLook ==
    /\ poll = "loop" /\ RxGoesOn
    /\ \E kind \in Header :
         \/ /\ kind = "copying" /\ fifo_copy_timeout # "expired"
            /\ poll' = "acklast" /\ fifo_copy_timeout' = "set"
            /\ UNCHANGED <<rx_ring, RxBufPtr, intr, cur_rx, pos, received, swallowed, torn>>
         \/ /\ kind = "ok"
            /\ RxTake /\ fifo_copy_timeout' = "none"
         \/ /\ kind = "bad" \/ (kind = "copying" /\ fifo_copy_timeout = "expired")
            /\ RxErr /\ fifo_copy_timeout' = "none"
    /\ UNCHANGED <<rxEnb, IntrMask, napi, workVars, coreVars, met, late>>

RxLeave ==
    /\ poll = "loop" /\ ~RxGoesOn
    /\ poll' = IF received = 0 THEN "acklast" ELSE "store"
    /\ UNCHANGED <<chipVars, privVars, napi, pos, received, workVars, coreVars, history>>

\* rtl8139_isr_ack: after each packet, and at the end when there was none. At
\* the end it may acknowledge a packet that came since the last look
IsrAck ==
    /\ poll \in {"ack", "acklast"}
    /\ intr' = (intr /\ asleep)
    /\ swallowed' = (swallowed \/ (poll = "acklast" /\ intr /\ ~RxBufEmpty))
    /\ poll' = IF poll = "ack" THEN "loop" ELSE "store"
    /\ UNCHANGED <<rx_ring, RxBufPtr, rxEnb, IntrMask, privVars, napi, pos, received,
                   workVars, coreVars, met, torn, late>>

\* the end of rtl8139_rx; with the budget used up packets may be left whose
\* interrupts are acknowledged
RxStore ==
    /\ poll = "store" /\ poll' = "end"
    /\ cur_rx' = pos
    /\ received' = IF fifo_copy_timeout # "none" THEN Weight ELSE received
    /\ swallowed' = (swallowed \/ (received' = Weight /\ ~RxBufEmpty /\ ~intr))
    /\ UNCHANGED <<chipVars, fifo_copy_timeout, napi, pos, workVars, coreVars, met, torn, late>>

\* mutant of PollEnd: all but a poll without work leaves them masked
PollEndMasked ==
    /\ poll = "end" /\ poll' = "idle" /\ pos' = 0 /\ received' = 0
    /\ IF received < Weight
         THEN napi' = "idle" /\ met' = FALSE
              /\ IntrMask' = IF asleep \/ received # 0 THEN IntrMask ELSE "all"
         ELSE /\ napi' = IF phase = "closing" THEN "idle" ELSE "sched"
              /\ met' = (met /\ napi' = "sched") /\ UNCHANGED IntrMask
    /\ UNCHANGED <<rx_ring, RxBufPtr, rxEnb, intr, privVars,
                   workVars, coreVars, torn, swallowed, late>>

\* complete NAPI and unmask under tp->lock, unless the budget is used up: then
\* the core polls again, or completes NAPI itself for a waiting napi_disable
PollEnd ==
    /\ poll = "end" /\ poll' = "idle" /\ pos' = 0 /\ received' = 0
    /\ IF received < Weight
         THEN napi' = "idle" /\ met' = FALSE /\ IntrMask' = IF asleep THEN IntrMask ELSE "all"
         ELSE /\ napi' = IF phase = "closing" THEN "idle" ELSE "sched"
              /\ met' = (met /\ napi' = "sched") /\ UNCHANGED IntrMask
    /\ UNCHANGED <<rx_ring, RxBufPtr, rxEnb, intr, privVars,
                   workVars, coreVars, torn, swallowed, late>>

-----------------------------------------------------------------------------
(* rtl8139_hw_start, called by open, resume and the reset.                 *)

\* the chip forgets its ring and its interrupts; a chip asleep hears nothing
HwStart ==
    /\ cur_rx' = 0
    /\ IF asleep THEN UNCHANGED <<rx_ring, RxBufPtr, rxEnb, intr, IntrMask, swallowed>>
                 ELSE /\ rx_ring' = <<>> /\ RxBufPtr' = 0 /\ intr' = FALSE
                      /\ rxEnb' = TRUE /\ IntrMask' = "none" /\ swallowed' = FALSE
    /\ torn' = (poll # "idle" \/ (asleep /\ ~RxBufEmpty))

HwUnmask ==
    /\ IntrMask' = IF asleep THEN IntrMask ELSE "all"
    /\ met' = (napi = "sched")

-----------------------------------------------------------------------------
(* Open, close and remove, under the rtnl lock.                            *)

\* request_irq, a fresh ring, napi_enable; no memory for the ring: no change
Open ==
    /\ rtnlFree /\ phase = "down" /\ pm = "on"
    /\ phase' = "opening"
    /\ rx_ring' = [i \in 1 .. Len(rx_ring) |-> "bad"] /\ napi' = "idle"
    /\ UNCHANGED <<RxBufPtr, rxEnb, intr, IntrMask, privVars, poll, pos, received,
                   workVars, pm, removing, history>>

\* rtl8139_init_ring and rtl8139_hw_start
OpenStart ==
    /\ phase = "opening" /\ phase' = "starting"
    /\ HwStart
    /\ UNCHANGED <<fifo_copy_timeout, pollVars, workVars, pm, removing, met, late>>

\* its end, and rtl8139_start_thread, which queues the work item on some chips
OpenUnmask ==
    /\ phase = "starting" /\ phase' = "up"
    /\ HwUnmask
    /\ \E have_thread \in BOOLEAN : /\ pending' = (pending \/ have_thread)
                                     /\ late' = (late \/ (removing /\ have_thread))
    /\ UNCHANGED <<rx_ring, RxBufPtr, rxEnb, intr, privVars, pollVars, thr, pm,
                   removing, torn, swallowed>>

\* dev_close clears __LINK_STATE_START
CloseBegin ==
    /\ rtnlFree /\ phase = "up" /\ pm = "on"
    /\ phase' = "closing"
    /\ UNCHANGED <<chipVars, privVars, pollVars, workVars, pm, removing, history>>

\* mutant of CloseNapi: it does not wait for a poll
CloseNapiAtOnce ==
    /\ phase = "closing"
    /\ phase' = "stopping" /\ napi' = "disabled"
    /\ UNCHANGED <<chipVars, privVars, poll, pos, received, workVars, pm, removing, history>>

\* napi_disable waits until NAPI is idle
CloseNapi ==
    /\ phase = "closing" /\ napi = "idle"
    /\ phase' = "stopping" /\ napi' = "disabled"
    /\ UNCHANGED <<chipVars, privVars, poll, pos, received, workVars, pm, removing, history>>

\* stop the chip and mask it, free_irq, free the ring
CloseStop ==
    /\ phase = "stopping" /\ phase' = "down"
    /\ rxEnb' = FALSE /\ IntrMask' = "none"
    /\ UNCHANGED <<rx_ring, RxBufPtr, intr, privVars, pollVars, workVars, pm,
                   removing, history>>

\* rtl8139_remove_one: cancel_delayed_work_sync, before unregister_netdev, which
\* closes the interface
Remove ==
    /\ ~removing /\ phase \in {"down", "up"} /\ thr = "idle" /\ pm = "on"
    /\ removing' = TRUE /\ pending' = FALSE
    /\ UNCHANGED <<chipVars, privVars, pollVars, thr, phase, pm, history>>

RemoveFree ==
    /\ removing /\ rtnlFree /\ phase = "down"
    /\ phase' = "gone"
    /\ UNCHANGED <<chipVars, privVars, pollVars, workVars, pm, removing, history>>

-----------------------------------------------------------------------------
(* The watchdog and the work item, which takes the rtnl lock.              *)

TxTimeout ==
    /\ phase = "up" /\ pm = "on"
    /\ pending' = TRUE /\ late' = (late \/ removing)
    /\ UNCHANGED <<chipVars, privVars, pollVars, thr, coreVars, met, torn, swallowed>>

\* rtl8139_thread: nothing to do, or a reset; queued again on some chips
ThrRun ==
    /\ pending /\ rtnlFree
    /\ pending' \in {FALSE, netif_running}
    /\ thr' \in {"idle", IF netif_running THEN "lock" ELSE "idle"}
    /\ UNCHANGED <<chipVars, privVars, pollVars, coreVars, history>>

\* rx_lock, then IntrMask = 0
ThrMask ==
    /\ thr = "lock" /\ poll = "idle" /\ thr' = "start"
    /\ IntrMask' = IF asleep THEN IntrMask ELSE "none"
    /\ UNCHANGED <<rx_ring, RxBufPtr, rxEnb, intr, privVars, pollVars, pending,
                   coreVars, history>>

ThrStart ==
    /\ thr = "start" /\ thr' = "unmask"
    /\ HwStart
    /\ UNCHANGED <<fifo_copy_timeout, pollVars, pending, coreVars, met, late>>

ThrUnmask ==
    /\ thr = "unmask" /\ thr' = "idle"
    /\ HwUnmask
    /\ UNCHANGED <<rx_ring, RxBufPtr, rxEnb, intr, privVars, pollVars, pending,
                   coreVars, torn, swallowed, late>>

-----------------------------------------------------------------------------
(* Suspend and resume, with user space frozen. The work item is not.       *)

\* rtl8139_suspend: detach, mask and stop the chip; an interface that is down
\* is left alone
Suspend ==
    /\ phase = "up" /\ pm = "on" /\ pm' = "stopped"
    /\ IntrMask' = "none" /\ rxEnb' = FALSE
    /\ UNCHANGED <<rx_ring, RxBufPtr, intr, privVars, pollVars, workVars, phase,
                   removing, history>>

Sleep ==
    /\ pm = "stopped" /\ pm' = "asleep"
    /\ UNCHANGED <<chipVars, privVars, pollVars, workVars, phase, removing, history>>

\* rtl8139_resume: PCI state and power
Wake ==
    /\ pm = "asleep" /\ pm' = "awake"
    /\ UNCHANGED <<chipVars, privVars, pollVars, workVars, phase, removing, history>>

ResumeStart ==
    /\ pm = "awake" /\ pm' = "started"
    /\ HwStart
    /\ UNCHANGED <<fifo_copy_timeout, pollVars, workVars, phase, removing, met, late>>

ResumeUnmask ==
    /\ pm = "started" /\ pm' = "on"
    /\ HwUnmask
    /\ UNCHANGED <<rx_ring, RxBufPtr, rxEnb, intr, privVars, pollVars, workVars,
                   phase, removing, torn, swallowed, late>>

-----------------------------------------------------------------------------
Rx == PollEnter \/ RxLook \/ RxLeave \/ IsrAck \/ RxStore \/ PollEnd
Reset == ThrMask \/ ThrStart \/ ThrUnmask

Next ==
    \/ \E kind \in Kinds : ChipReceives(kind)
    \/ ChipCopied \/ FifoTick \/ Interrupt
    \/ PollEnter \/ RxLook \/ RxLeave \/ IsrAck \/ RxStore \/ PollEnd
    \/ Open \/ OpenStart \/ OpenUnmask \/ CloseBegin \/ CloseNapi \/ CloseStop
    \/ Remove \/ RemoveFree
    \/ TxTimeout \/ ThrRun \/ ThrMask \/ ThrStart \/ ThrUnmask
    \/ Suspend \/ Sleep \/ Wake \/ ResumeStart \/ ResumeUnmask

Spec == Init /\ [][Next]_vars

\* The softirq polls, the work item runs, and an interrupt line that the chip
\* asserts is served.
Fairness ==
    /\ WF_vars(Rx) /\ WF_vars(Reset)
    /\ WF_vars(IntrMask = "all" /\ Interrupt)

FairSpec == Spec /\ Fairness

-----------------------------------------------------------------------------
(* Properties.                                                             *)

\* Driver and chip agree where the next packet begins ("if we get lost in the
\* ring" rtl8139_rx resets the receiver), unless a reset without rx_lock, that
\* of open or resume, comes in the middle of a poll.
InStep ==
    netif_running /\ pm = "on" /\ phase = "up" /\ ~torn
      => IF poll \in {"loop", "ack", "acklast", "store"} THEN pos = RxBufPtr
                                                        ELSE cur_rx = RxBufPtr

\* Somebody always looks after reception. While NAPI is scheduled it is the poll,
\* and the line is masked, unless the chip was reset meanwhile. With NAPI at rest
\* it is the interrupt: the receiver is enabled and unmasked, whatever open, reset,
\* suspend and resume met on their way, and a packet in the ring has its interrupt
\* to come, unless the last poll used up its budget or acknowledged what it had
\* not seen (rtl8139.c:2158-2170, 2211-2231, 2281-2286).
NothingStranded ==
    /\ napi = "sched" /\ ~met /\ netif_running => IntrMask # "all"
    /\ phase = "up" /\ pm = "on" /\ thr = "idle" /\ napi = "idle" =>
         /\ rxEnb /\ IntrMask = "all"
         /\ ~torn /\ ~RxBufEmpty /\ Head(rx_ring) # "copying" => intr \/ swallowed

\* After remove nothing of the driver runs any more, unless work was queued
\* between the cancellation and unregister_netdev.
FreedIsUnused ==
    phase = "gone" => /\ poll = "idle" /\ napi = "disabled" /\ thr = "idle"
                      /\ IntrMask = "none" /\ ~rxEnb
                      /\ pending => late

\* A complete packet at the head of the ring is fetched or dropped: while there is
\* always one, the chip's reading position goes on and on (rtl8139.c:2048-2175).
PacketAtHead == /\ ~RxBufEmpty /\ Head(rx_ring) # "copying"
                /\ phase = "up" /\ pm = "on" /\ ~swallowed /\ ~torn
PacketsFetched == <>[]PacketAtHead => []<><<RxBufPtr' # RxBufPtr>>_vars
=============================================================================
