----------------------------- MODULE Rtl8139Tx -----------------------------
(***************************************************************************)
(* The transmit side of net/realtek/rtl8139.c: the ring of NUM_TX_DESC     *)
(* bounce buffers filled by rtl8139_start_xmit, drained by the chip and    *)
(* reaped by rtl8139_tx_interrupt, the stop/wake protocol with the         *)
(* networking core's queue, and the recovery path that starts in the       *)
(* core's watchdog (rtl8139_tx_timeout) and resets the chip from a work    *)
(* item (rtl8139_thread, rtl8139_tx_timeout_task).                         *)
(*                                                                         *)
(* Five actors run concurrently: the transmit path (serialised with the    *)
(* watchdog by the core's netif_tx_lock), the chip, the interrupt handler  *)
(* (which holds tp->lock from entry to exit), the work item (which holds   *)
(* the rtnl lock) and open/close (rtnl as well).                           *)
(***************************************************************************)
EXTENDS Integers, FiniteSets

CONSTANTS
    NumTxDesc,    \* NUM_TX_DESC, the number of transmit descriptors
    MaxFrames     \* bound: frames the stack hands over in one behaviour

ASSUME NumTxDescAssumption == NumTxDesc \in Nat \ {0}
ASSUME MaxFramesAssumption == MaxFrames \in Nat

VARIABLES
    \* the driver's private data
    cur_tx, dirty_tx, watchdog_fired, have_thread,
    \* the chip: descriptor status and buffers, next descriptor it will send,
    \* interrupt status and mask, transmitter enabled, halted by an abort, hung
    TxStatus, tx_buf, hw_tx, IntrStatus, IntrMask, txEnb, halted, hung,
    \* the networking core: interface state, queue flag, frames handed over,
    \* netif_carrier_ok
    phase, queue, nframes, carrier,
    \* control points: rtl8139_start_xmit, rtl8139_interrupt, rtl8139_thread
    xmit, entry, irq, irqStatus, thr, pending,
    \* history: the last frame put on the wire, and whether every reset since
    \* the interface was opened has found the queue stopped
    wire, clean

driverVars == <<cur_tx, dirty_tx, watchdog_fired>>
chipVars   == <<TxStatus, tx_buf, hw_tx, IntrStatus, IntrMask, txEnb, halted, hung>>
coreVars   == <<phase, queue, nframes, carrier>>
xmitVars   == <<xmit, entry>>
irqVars    == <<irq, irqStatus>>
thrVars    == <<thr, pending, have_thread>>
history    == <<wire, clean>>
vars == <<driverVars, chipVars, coreVars, xmitVars, irqVars, thrVars, history>>

Slots == 0 .. NumTxDesc - 1
NoFrame == 0

\* "host": neither TxStatOK nor TxUnderrun nor TxAborted, and not started;
\* "ok" stands for TxStatOK and TxUnderrun, which are reaped alike
TxStatusValues == {"host", "chip", "ok", "abort"}

\* tx_interrupt's test of TxStatOK | TxUnderrun | TxAborted
Txed(i) == TxStatus[i % NumTxDesc] \in {"ok", "abort"}

netif_running == phase = "up"
irqFree == irq = "idle"            \* tp->lock is not held by the handler

TypeOK ==
    /\ cur_tx \in Nat /\ dirty_tx \in Nat
    /\ watchdog_fired \in BOOLEAN
    /\ TxStatus \in [Slots -> TxStatusValues]
    /\ tx_buf \in [Slots -> Nat]
    /\ hw_tx \in Slots
    /\ IntrStatus \subseteq {"TxOK", "TxErr"}
    /\ IntrMask \in BOOLEAN /\ txEnb \in BOOLEAN
    /\ halted \in BOOLEAN /\ hung \in BOOLEAN
    /\ phase \in {"down", "up", "closing"}
    /\ queue \in {"awake", "stopped"}
    /\ nframes \in Nat /\ carrier \in BOOLEAN
    /\ xmit \in {"idle", "copied"} /\ entry \in Slots
    /\ irq \in {"idle", "reap", "ackerr"}
    /\ irqStatus \subseteq {"TxOK", "TxErr"}
    /\ thr \in {"idle", "stoptx", "mask", "clear", "reset", "enable", "unmask", "wake"}
    /\ pending \in BOOLEAN /\ have_thread \in BOOLEAN
    /\ wire \in Nat /\ clean \in BOOLEAN

\* the kind of chip decides have_thread; nobody looks at it before the first open
Init ==
    /\ cur_tx = 0 /\ dirty_tx = 0 /\ watchdog_fired = FALSE
    /\ TxStatus = [i \in Slots |-> "host"] /\ tx_buf = [i \in Slots |-> NoFrame]
    /\ hw_tx = 0 /\ IntrStatus = {} /\ IntrMask = FALSE
    /\ txEnb = FALSE /\ halted = FALSE /\ hung = FALSE
    /\ phase = "down" /\ queue = "stopped" /\ nframes = 0 /\ carrier = TRUE
    /\ xmit = "idle" /\ entry = 0 /\ irq = "idle" /\ irqStatus = {}
    /\ thr = "idle" /\ pending = FALSE /\ have_thread \in BOOLEAN
    /\ wire = NoFrame /\ clean = TRUE

-----------------------------------------------------------------------------
(* Open and close; both run under the rtnl lock, as does the work item.    *)

\* mutant of ChipReset: the descriptors survive the reset
ChipResetKeepsTxStatus ==
    /\ hw_tx' = 0 /\ IntrStatus' = {} /\ halted' = FALSE /\ hung' = FALSE
    /\ UNCHANGED TxStatus

\* rtl8139_chip_reset: the chip forgets its descriptors and its interrupts
ChipReset ==
    /\ TxStatus' = [i \in Slots |-> "host"]
    /\ hw_tx' = 0 /\ IntrStatus' = {} /\ halted' = FALSE /\ hung' = FALSE

\* rtl8139_open: request the irq, rtl8139_init_ring, rtl8139_hw_start (whose
\* rtl_check_media finds a link or none), start the queue, rtl8139_start_thread
Open ==
    /\ phase = "down" /\ thr = "idle"
    /\ phase' = "up"
    /\ cur_tx' = 0 /\ dirty_tx' = 0
    /\ ChipReset /\ txEnb' = TRUE /\ IntrMask' = TRUE
    /\ queue' = "awake" /\ carrier' \in BOOLEAN
    /\ IF have_thread THEN watchdog_fired' = FALSE /\ pending' = TRUE
                      ELSE UNCHANGED <<watchdog_fired, pending>>
    /\ clean' = TRUE
    /\ UNCHANGED <<tx_buf, nframes, xmitVars, irqVars, thr, have_thread, wire>>

\* dev_close clears __LINK_STATE_START and waits for the transmit path
CloseBegin ==
    /\ phase = "up" /\ thr = "idle"
    /\ phase' = "closing"
    /\ UNCHANGED <<driverVars, chipVars, queue, nframes, carrier, xmitVars, irqVars, thrVars, history>>

\* rtl8139_close; free_irq waits for a running handler. The work item is not
\* cancelled: it stays pending
CloseStop ==
    /\ phase = "closing" /\ xmit = "idle" /\ irqFree
    /\ phase' = "down"
    /\ queue' = "stopped"
    /\ txEnb' = FALSE /\ IntrMask' = FALSE
    /\ cur_tx' = 0 /\ dirty_tx' = 0
    /\ UNCHANGED <<watchdog_fired, TxStatus, tx_buf, hw_tx, IntrStatus, halted, hung,
                   nframes, carrier, xmitVars, irqVars, thrVars, history>>

-----------------------------------------------------------------------------
(* rtl8139_start_xmit, called under the core's netif_tx_lock.              *)

\* the entry is computed and the frame copied before tp->lock is taken; a
\* frame of TX_BUF_SIZE bytes or more is dropped and changes nothing
XmitCopy ==
    /\ netif_running /\ queue = "awake" /\ xmit = "idle"
    /\ nframes < MaxFrames
    /\ nframes' = nframes + 1
    /\ entry' = cur_tx % NumTxDesc
    /\ tx_buf' = [tx_buf EXCEPT ![entry'] = nframes']
    /\ xmit' = "copied"
    /\ UNCHANGED <<driverVars, TxStatus, hw_tx, IntrStatus, IntrMask, txEnb, halted, hung,
                   phase, queue, carrier, irqVars, thrVars, history>>

\* mutant of XmitCommit: the queue is stopped one frame too late
XmitCommitLate ==
    /\ xmit = "copied" /\ irqFree
    /\ TxStatus' = [TxStatus EXCEPT ![entry] = "chip"]
    /\ cur_tx' = cur_tx + 1
    /\ queue' = IF cur_tx - NumTxDesc = dirty_tx THEN "stopped" ELSE queue
    /\ xmit' = "idle"
    /\ UNCHANGED <<dirty_tx, watchdog_fired, tx_buf, hw_tx, IntrStatus, IntrMask, txEnb,
                   halted, hung, phase, nframes, carrier, entry, irqVars, thrVars, history>>

\* the section under tp->lock
XmitCommit ==
    /\ xmit = "copied" /\ irqFree
    /\ TxStatus' = [TxStatus EXCEPT ![entry] = "chip"]
    /\ cur_tx' = cur_tx + 1
    /\ queue' = IF cur_tx' - NumTxDesc = dirty_tx THEN "stopped" ELSE queue
    /\ xmit' = "idle"
    /\ UNCHANGED <<dirty_tx, watchdog_fired, tx_buf, hw_tx, IntrStatus, IntrMask, txEnb,
                   halted, hung, phase, nframes, carrier, entry, irqVars, thrVars, history>>

-----------------------------------------------------------------------------
(* The chip: sends its descriptors in ring order; an aborted transmission  *)
(* halts it until the driver writes TxClearAbt.                            *)

ChipSends(result, event) ==
    /\ txEnb /\ ~halted /\ ~hung
    /\ TxStatus[hw_tx] = "chip"
    /\ TxStatus' = [TxStatus EXCEPT ![hw_tx] = result]
    /\ hw_tx' = (hw_tx + 1) % NumTxDesc
    /\ IntrStatus' = IntrStatus \cup {event}
    /\ UNCHANGED <<driverVars, tx_buf, IntrMask, txEnb, hung, coreVars, xmitVars,
                   irqVars, thrVars, clean>>

ChipSendOk == ChipSends("ok", "TxOK") /\ wire' = tx_buf[hw_tx] /\ UNCHANGED halted
ChipAbort  == ChipSends("abort", "TxErr") /\ halted' = TRUE /\ UNCHANGED wire

\* the transmitter stops for a reason only a reset cures
ChipHang ==
    /\ txEnb /\ ~hung /\ TxStatus[hw_tx] = "chip"
    /\ hung' = TRUE
    /\ UNCHANGED <<driverVars, TxStatus, tx_buf, hw_tx, IntrStatus, IntrMask, txEnb, halted,
                   coreVars, xmitVars, irqVars, thrVars, history>>

-----------------------------------------------------------------------------
(* rtl8139_interrupt. The line is shared, so the handler may be entered    *)
(* while the chip's own interrupts are masked.                             *)

IrqEnter ==
    /\ phase # "down" /\ irqFree /\ IntrStatus # {}
    /\ IF netif_running
         THEN /\ irq' = "reap" /\ irqStatus' = IntrStatus
              /\ IntrStatus' = IntrStatus \ {"TxOK"}   \* TxErr is kept for later
              /\ UNCHANGED IntrMask
         ELSE IntrMask' = FALSE /\ UNCHANGED <<irqVars, IntrStatus>>
    /\ UNCHANGED <<driverVars, TxStatus, tx_buf, hw_tx, txEnb, halted, hung, coreVars,
                   xmitVars, thrVars, history>>

\* tx_interrupt's loop stops at d: at cur_tx or at the first descriptor that
\* "still hasn't been Txed"
ReapsTo(d) ==
    /\ \A e \in dirty_tx .. d - 1 : Txed(e)
    /\ d = cur_tx \/ ~Txed(d)

\* the sanity check after the loop
OutOfSync(d) == cur_tx - d > NumTxDesc

IrqReap ==
    /\ irq = "reap"
    /\ \E d \in dirty_tx .. cur_tx :
         /\ ReapsTo(d)
         /\ dirty_tx' = IF OutOfSync(d) THEN d + NumTxDesc ELSE d
         /\ IF \E e \in dirty_tx .. d - 1 : TxStatus[e % NumTxDesc] = "abort"
              THEN halted' = FALSE /\ IntrStatus' = IntrStatus \ {"TxErr"}
              ELSE UNCHANGED <<halted, IntrStatus>>
    /\ queue' = IF dirty_tx' # dirty_tx THEN "awake" ELSE queue
    /\ irq' = "ackerr"
    /\ UNCHANGED <<cur_tx, watchdog_fired, TxStatus, tx_buf, hw_tx, IntrMask, txEnb, hung,
                   phase, nframes, carrier, xmitVars, irqStatus, thrVars, history>>

\* TxErr is acknowledged after the ring was reaped; the lock is released
IrqAckErr ==
    /\ irq = "ackerr"
    /\ IntrStatus' = IF "TxErr" \in irqStatus THEN IntrStatus \ {"TxErr"} ELSE IntrStatus
    /\ irq' = "idle" /\ irqStatus' = {}
    /\ UNCHANGED <<driverVars, TxStatus, tx_buf, hw_tx, IntrMask, txEnb, halted, hung,
                   coreVars, xmitVars, thrVars, history>>

\* the handler is entered for a link change (RxUnderrun on a chip with
\* HAS_LNK_CHNG): rtl8139_weird_interrupt calls rtl_check_media, and
\* mii_check_media turns the carrier on or off
IrqLinkChange ==
    /\ netif_running /\ irqFree
    /\ carrier' = ~carrier
    /\ UNCHANGED <<driverVars, chipVars, phase, queue, nframes, xmitVars, irqVars, thrVars, history>>

-----------------------------------------------------------------------------
(* The watchdog and the work item.                                         *)

\* mutant of TxTimeout: the flag the work item looks at is not set
TxTimeoutNoFlag ==
    /\ netif_running /\ carrier /\ queue = "stopped" /\ xmit = "idle"
    /\ pending' = IF have_thread THEN pending ELSE TRUE
    /\ UNCHANGED <<driverVars, chipVars, coreVars, xmitVars, irqVars, thr, have_thread, history>>

\* dev_watchdog, which looks only at a device with a carrier, finds the queue
\* stopped for watchdog_timeo and calls rtl8139_tx_timeout under netif_tx_lock
TxTimeout ==
    /\ netif_running /\ carrier /\ queue = "stopped" /\ xmit = "idle"
    /\ watchdog_fired' = TRUE
    /\ pending' = IF have_thread THEN pending ELSE TRUE
    /\ UNCHANGED <<cur_tx, dirty_tx, chipVars, coreVars, xmitVars, irqVars, thr, have_thread,
                   history>>

ThrUnchanged == UNCHANGED <<have_thread, coreVars, xmitVars, irqVars>>

\* rtl8139_thread up to its branch on watchdog_fired; rtl8139_thread_iter
\* (media selection) touches none of this state
ThrStart ==
    /\ pending /\ thr = "idle" /\ phase # "closing"
    /\ IF netif_running /\ watchdog_fired
         THEN thr' = "stoptx" /\ watchdog_fired' = FALSE /\ pending' = FALSE
         ELSE /\ pending' = (netif_running /\ have_thread)
              /\ UNCHANGED <<thr, watchdog_fired>>
    /\ UNCHANGED <<cur_tx, dirty_tx, chipVars, history>> /\ ThrUnchanged

\* rtl8139_tx_timeout_task: disable Tx ASAP
ThrStopTx ==
    /\ thr = "stoptx" /\ thr' = "mask"
    /\ txEnb' = FALSE
    /\ UNCHANGED <<driverVars, TxStatus, tx_buf, hw_tx, IntrStatus, IntrMask, halted, hung,
                   pending, history>> /\ ThrUnchanged

ThrMask ==
    /\ thr = "mask" /\ thr' = "clear"
    /\ IntrMask' = FALSE
    /\ UNCHANGED <<driverVars, TxStatus, tx_buf, hw_tx, IntrStatus, txEnb, halted, hung,
                   pending, history>> /\ ThrUnchanged

\* rtl8139_tx_clear, under tp->lock
ThrClear ==
    /\ thr = "clear" /\ irqFree /\ thr' = "reset"
    /\ cur_tx' = 0 /\ dirty_tx' = 0
    /\ clean' = (clean /\ queue = "stopped")
    /\ UNCHANGED <<watchdog_fired, chipVars, pending, wire>> /\ ThrUnchanged

\* rtl8139_hw_start, in the three steps the other actors can tell apart
ThrReset ==
    /\ thr = "reset" /\ thr' = "enable"
    /\ ChipReset
    /\ UNCHANGED <<driverVars, tx_buf, IntrMask, txEnb, pending, history>> /\ ThrUnchanged

\* the transmitter is enabled, then rtl_check_media finds a link or none
ThrEnable ==
    /\ thr = "enable" /\ thr' = "unmask"
    /\ txEnb' = TRUE /\ carrier' \in BOOLEAN
    /\ UNCHANGED <<driverVars, TxStatus, tx_buf, hw_tx, IntrStatus, IntrMask, halted, hung,
                   pending, have_thread, phase, queue, nframes, xmitVars, irqVars, history>>

ThrUnmask ==
    /\ thr = "unmask" /\ thr' = "wake"
    /\ IntrMask' = TRUE
    /\ UNCHANGED <<driverVars, TxStatus, tx_buf, hw_tx, IntrStatus, txEnb, halted, hung,
                   pending, history>> /\ ThrUnchanged

\* netif_wake_queue, then rtl8139_thread re-arms the work and drops rtnl
ThrWake ==
    /\ thr = "wake" /\ thr' = "idle"
    /\ queue' = "awake"
    /\ pending' = (pending \/ have_thread)
    /\ UNCHANGED <<driverVars, have_thread, chipVars, phase, nframes, carrier, xmitVars, irqVars,
                   history>>

-----------------------------------------------------------------------------
Irq == IrqEnter \/ IrqReap \/ IrqAckErr
Task == ThrStopTx \/ ThrMask \/ ThrClear \/ ThrReset \/ ThrEnable \/ ThrUnmask \/ ThrWake
Chip == ChipSendOk \/ ChipAbort

Next ==
    \/ Open \/ CloseBegin \/ CloseStop
    \/ XmitCopy \/ XmitCommit
    \/ ChipSendOk \/ ChipAbort \/ ChipHang
    \/ IrqEnter \/ IrqReap \/ IrqAckErr \/ IrqLinkChange
    \/ TxTimeout \/ ThrStart
    \/ ThrStopTx \/ ThrMask \/ ThrClear \/ ThrReset \/ ThrEnable \/ ThrUnmask \/ ThrWake

Spec == Init /\ [][Next]_vars

\* A started transmit call and an entered handler run to completion; the timer
\* of the core's watchdog and the workqueue run what is due, the watchdog while
\* there is a carrier. The chip is not assumed to send anything, nor a shared
\* line to interrupt for it.
Fairness ==
    /\ WF_vars(XmitCommit)
    /\ WF_vars(IrqReap) /\ WF_vars(IrqAckErr)
    /\ WF_vars(TxTimeout)
    /\ WF_vars(ThrStart) /\ WF_vars(Task)

FairSpec == Spec /\ Fairness

-----------------------------------------------------------------------------
(* Properties.                                                             *)

\* The driver's own check, "Out-of-sync dirty pointer", does not fire. It holds of
\* the behaviours in which each reset found the queue stopped (Rtl8139TxProofs).
NeverOutOfSync ==
    irq = "reap" => \A d \in dirty_tx .. cur_tx : ReapsTo(d) => ~OutOfSync(d)

\* As long as each reset found the queue stopped, the ring never holds more
\* than NUM_TX_DESC frames, and has room for one whenever the queue is awake.
RingBound ==
    clean => /\ cur_tx - dirty_tx \in 0 .. NumTxDesc
             /\ netif_running /\ queue = "awake" => cur_tx - dirty_tx < NumTxDesc

\* As long as each reset found the queue stopped, the buffer start_xmit has
\* filled outside tp->lock is the one after the frames in flight, and the chip
\* is not sending from it.
CopiedIntoFreeBuffer ==
    clean /\ xmit = "copied" => /\ entry = cur_tx % NumTxDesc
                                /\ TxStatus[entry] # "chip"

\* A queue that is stopped while the work item is not resetting the chip is
\* stopped because the ring is full: no wake-up is ever lost between
\* start_xmit's stop and the interrupt's wake.
StoppedOnlyWhenFull ==
    clean /\ netif_running /\ queue = "stopped" /\ thr \in {"idle", "stoptx", "mask", "clear"}
      => cur_tx - dirty_tx = NumTxDesc

\* All of it together: as long as each reset found the queue stopped, the ring,
\* the queue and the buffer being filled agree, whatever start_xmit, the
\* interrupt and the reset do to each other (rtl8139.c:1711-1815, 1833-1894).
RingSound == RingBound /\ CopiedIntoFreeBuffer /\ StoppedOnlyWhenFull

\* As long as each reset since the interface was opened found the queue stopped,
\* every frame the chip sends was handed over after the frame it sent before: the
\* wire has the frames in the stack's order, and none twice, not even in a row
\* (rtl8139.c:1711-1815; the descriptors and the chip's own position agree over
\* the wrap of the ring and the reset).
InOrderOnce == [][ChipSendOk /\ clean => wire' > wire]_vars

\* A stopped queue is woken, whatever the chip does, unless the interface is
\* closed or the link is lost: by an interrupt, or by the watchdog and the reset
\* it asks for (rtl8139.c:1661-1682, 1718-1770, 1414-1421). Without a carrier no watchdog
\* looks at the device, and a halted transmitter is left to the next interrupt.
StoppedIsWoken ==
    queue = "stopped" /\ netif_running ~> queue = "awake" \/ ~netif_running \/ ~carrier
=============================================================================
