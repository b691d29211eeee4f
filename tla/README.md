# Models and proofs of the drivers in this repository

TLA+ models of these Linux drivers, TLC runs that check them on small instances, and
TLAPS proofs of safety properties for every value of the constants. Paths below are
relative to the repository's root.

| module | component | proofs |
|---|---|---|
| `Rtl8139Tx` | transmit ring and watchdog recovery of `net/realtek/rtl8139.c` | `Rtl8139TxProofs` |
| `Rtl8139Rx` | receive ring, NAPI, reset, suspend, resume, remove of the same driver | `Rtl8139RxProofs` |
| `UsbStorage` | command, abort, reset and disconnect of `USB/` | `UsbStorageProofs` |
| `UsbTransport` | bulk-only, CB and CBI transports and the decisions on their results | `UsbTransportProofs` |
| `ScsiCommand` | the abstract command that `UsbTransport` implements | `UsbTransportProofs` |
| `Kbd` | LEDs, keys, open/close and disconnect of `keyboard/kbd.c` | `UsbDriversProofs` |
| `Rtl8150Rx` | reception, tasklet and power management of `USB_Based_Ethernet/rtl_8150.c` | `Rtl8150RxProofs` |
| `Rtl8150Tx` | transmission, flow control and link state of the same driver | `UsbDriversProofs` |
| `Es1938` | streams, mixer and interrupt of `Sound/es1938.c` | `Es1938Proofs` |
| `Btusb` | frames and synchronous connections of `Bluetooth/usbbt_drv.c` | `UsbDriversProofs` |
| `CharDrivers` | file operations of the exercises in `Assignment`, `char`, `ioctl`, `apic`, `procfs`, `sysfs` | `CharDriversProofs` |
| `DriverTables`, `Lifecycle` | how all 41 drivers are loaded and unloaded | |

`MCUsbTransport` gives `UsbTransport` its commands and devices for TLC. Run a check with
`tlc -config X.cfg M` and a proof with `tlapm M.tla`. `PROJECT.json` maps every definition
to the lines it models and lists runs, mutants (plausible bugs each property is shown to
catch), hazards and theorems.

## 1. Inventory

The repository is a collection of loadable modules that do not call each other; each talks to
the kernel's subsystems and to one device. There are no tests of them beyond programs that open
and read a device by hand; the comments in the code are its documentation.

**RTL8139 Ethernet** (`net/realtek/rtl8139.c`; `8139too.c` is the original it was
rewritten from, not built). State: `cur_tx`, `dirty_tx`, four bounce buffers and
descriptors shared with the chip, `cur_rx` and the receive ring, `watchdog_fired`,
`have_thread`, a delayed work item. Operations: open, close, `start_xmit`, the
interrupt handler (shared line), NAPI `poll`, `tx_timeout`, the work item
`rtl8139_thread`, suspend, resume, remove, ethtool and MII access. Actors: transmit path under the
core's transmit lock, interrupt handler under `tp->lock`, NAPI under `rx_lock`, work
item under rtnl, the chip. Hard: `start_xmit` works on `cur_tx` before it takes the
lock; a reset meets frames in flight, pending interrupts and a call of `start_xmit`;
stop and wake of the queue; acknowledging interrupts before or after looking. Correct
means: the ring never overruns, frames go out in order and once, a stopped queue is
woken, no received packet is left in the ring.

**USB mass storage** (`USB/transport.c`, `usb_1.c`, `scsiglue.c`, `protocol.c`,
`initializers.c`, `sierra_ms.c`, `option_ms.c`, `usual-tables.c`). State: the atomic
bits `us->dflags`, the command `us->srb`, two completions, `dev_mutex`, the URB or
scatter-gather request. Operations: `queuecommand`, `command_abort`, `device_reset`,
`bus_reset`, the control thread with `usb_stor_invoke_transport` and the transports,
port and class resets, probe, scan work, disconnect, suspend and resume. Hard: an
abort at any moment of a submission; the automatic reset that an abort must not
disturb; a disconnect during either; a device that never answers. Correct means:
exactly one cancellation for each URB, every command answered once, no wait without
end, nothing used after it was freed. The transports and the sense decision have
properties of their own (residue, phase errors), the buffer walk in `protocol.c` is a
pure algorithm.

**USB keyboard** (`keyboard/kbd.c`; `usbkbd.c` is the original). State: two URBs, the
last two reports, the LED byte in three copies, `led_urb_submitted`. Operations:
`usb_kbd_event`, the completions `usb_kbd_led` and `usb_kbd_irq`, open, close, probe,
disconnect. Hard: the two sides of the LED byte; failing submissions; reports lost to
errors, close and reopen; disconnect against open. Correct means: the last LEDs and
the last keys get through, and nothing in use is written or freed.

**RTL8150 USB Ethernet** (`USB_Based_Ethernet/rtl_8150.c`). State: receive, transmit and
interrupt URBs, one buffer for each direction, a pool of receive buffers, a tasklet, two
flags, the stack's queue, carrier and presence. Operations: three completion handlers,
`rx_fixup`, `start_xmit`, `tx_timeout`, `set_multicast`, open, close, suspend, resume,
disconnect. Hard: `set_multicast` wakes the queue with a transmission in flight; the
tasklet that re-schedules itself and that only disconnect stops; resume calling
completions directly; the pool running empty; submissions that fail. Correct means: a URB
is filled and a buffer used only by who has it; reception and the queue do not stall.

**USB mouse** (`mouse/mouse.c`): one interrupt URB that is resubmitted, like the
keyboard's.

**ES1938 sound** (`Sound/es1938.c`). State: `active`, three substreams, the `dma1_*` fields,
two locks, the chip's indexed registers. Operations: open, hw_params, prepare, trigger,
pointer and close of three streams, the mixer controls, the shared interrupt. Hard: two of
the three streams share a channel; `active` is updated without a lock and read by the
interrupt; register access is an address followed by data. Correct means: a channel
transfers for the stream it was prepared for, no period goes unreported, no register
access goes astray.

**Bluetooth** (`Bluetooth/usbbt_drv.c`): an unfinished rewrite of a driver. Frames out, and
a work item that follows the number of synchronous connections; close may meet both.

**Character drivers** (`Assignment/`, `char/`, `procfs/`): one buffer behind read, write,
ioctl and poll, in variants with exclusive open, a reader-writer lock, a seqlock and
completions; others reach the RTC or the IOAPIC through an address and a data port. Correct
means: a read has one whole message, under those locks that promise it.

**Loading and unloading**: each driver's init or probe is a ladder of steps with a clean-up
for each failure. Correct means: everything taken is given back, and nothing is called
before it is ready or after it is gone.

**Block drivers** (`blk/`): a RAM disk's transfer loop. **The rest** (`mmap`, `input`,
`ttyled`, `workqueue`, `Notifier_chain`): registration, a timer that arms itself, work items.

The hazards of all of these, each at its line, are in `PROJECT.json`; a hazard that no
property covers says why.

## 2. What is modelled

### Rtl8139Tx

Variables keep the driver's names (`cur_tx`, `dirty_tx`, `TxStatus`, `IntrStatus`);
`xmit`, `irq` and `thr` are control points. `XmitCopy` is `start_xmit` up to
`spin_lock_irqsave` (the entry and the bounce buffer), `XmitCommit` the rest under the
lock. The handler holds `tp->lock` from entry to exit, in three steps because the chip
runs meanwhile: `IrqEnter` reads `IntrStatus` and acknowledges all but `TxErr`,
`IrqReap` is `rtl8139_tx_interrupt`, `IrqAckErr` acknowledges `TxErr`. The work item is
split where another actor can see the difference: transmitter stopped, interrupts
masked, `tx_clear` under the lock, chip reset, enable, unmask, wake. The chip is the
environment: it sends the descriptor it is at, may abort it (and halt) and may hang.
`carrier` is `netif_carrier_ok`: `rtl_check_media` sets it either way in `rtl8139_hw_start`
and when the interrupt reports a link change (`IrqLinkChange`), and the core's watchdog
looks only at a device that has it.

Left out: the receive path, suspend, resume and remove (see `Rtl8139Rx`), frame contents (a
frame is a number, which lets `InOrderOnce` be stated), counters, short or oversized frames.

`InOrderOnce` says that each frame the chip sends is later than all it has sent, so that a frame
sent twice in a row is seen as well. It and the parts of `RingSound` carry the proviso `clean`:
every reset since open found the queue stopped. It is the driver's own case (the watchdog fires
only when the queue is stopped) unless the interrupt wakes the queue between the watchdog and
the work item. Then the reset empties the ring under a `start_xmit` that has computed its entry,
and the driver's sanity check fires; theorem `CleanRunsStayInSync` proves that nothing else can
cause it.

### UsbStorage

`dflags` is the set of bits. `thr` is the control point of `usb_stor_control_thread`
with `usb_stor_invoke_transport` inside it; `msg` the control point of
`usb_stor_msg_common`, executed by whoever holds `dev_mutex`; `eh` that of the error
handler's call into the driver (`command_abort`, `device_reset`, `bus_reset`); `disc`
that of `usb_stor_disconnect`; `mid` what the SCSI midlayer is waiting for. Each test,
`set_bit`, `test_and_clear_bit` and cancellation is an action of its own, because the
protocol consists of their order. The SCSI host lock is held across actions only in
`command_abort`; other critical sections under it are one action guarded by
`HostLockFree`. The scatter-gather form differs only in its flag (`flag`).

A transport is abstracted to a sequence of at most `MaxTransfers` calls of
`msg_common` and a verdict. `ThrCheck` keeps the decisions of
`usb_stor_invoke_transport` on it: timed out, error, failed with auto-sense, the
repetition of a large sense request as a small one, sense failing in turn. The class
reset is its three control messages with the delay between them; the port reset is
pre-reset, post-reset and a result, with the usb core's device lock. A device reset from user
space is asked for at any time (`AskReset`), also during and after a disconnect; it waits for
`dev_mutex`, and when it gets the mutex only the test of `DISCONNECTING` in
`usb_stor_reset_common` keeps it from the URB. A mutant without that test violates `CleanedUp`.

Left out: the phases inside a transport, the data, probe, scan work, suspend/resume.

### Rtl8139Rx

A position in the ring counts packets. The driver keeps three ideas of it: the chip's
`RxBufPtr`, `cur_rx`, and the local copy `pos` of a poll under way. A packet is complete, bad
(the driver resets the receiver) or still being copied (`rtl8139_rx` waits a bounded time
for it: `fifo_copy_timeout`). The interrupt bits stand for `RxAckBits`, the mask is "all",
"norx" or "none". `PollEnter` to `PollEnd` are `rtl8139_poll` and `rtl8139_rx`, step by step
because the chip and a reset run meanwhile; `Thr...` is the work item, which takes
`rx_lock`; `Open...`, `Close...`, `Suspend`, `Resume...` and `Remove...` do not. Four history
variables name the accidents the code leaves open: `met` (the chip was started while NAPI
was scheduled), `torn` (without `rx_lock`, in the middle of a poll), `swallowed` (a poll
acknowledged a packet it left in the ring) and `late` (work queued after remove cancelled
it). Each property is excused by those that concern it.

Left out: errors other than a bad packet, link changes (see `Rtl8139Tx`), counters, packet
contents.

### UsbTransport and ScsiCommand

One command at a time runs through the stages of the bulk-only or the control transport. The
device answers each transfer in any way: complete, short, stalled, babble, failed, or never
(until the abort). Data is a number of units; sense data is a key. `halted` is what the device
knows of its endpoints: `NoTransferOnHalted` relates it to what the driver does next. A port
reset clears every halt; a class reset clears those of the two bulk pipes, each if its message
succeeds, and never that of the interrupt pipe. `unreset` names the endpoints that an error left
halted and no reset has reached. After the run come the decisions of
`usb_stor_invoke_transport`: auto-sense, the large and the small request, a command that cannot
have failed, the residue, READ(10), underflow, and `last_sector_hacks`. How an abort cancels a
URB is `UsbStorage`'s subject.

`ScsiCommand` is the abstract form: a run, at most two runs of auto-sense, each with a bounded
number of calls, one answer, and a reset exactly after an error or an abort. `UsbTransport`
is shown to implement it, liveness included (`RunsCommand`, by INSTANCE with a refinement
mapping). `UsbStorage`'s transport, "at most `MaxTransfers` calls and a verdict", is this
abstraction.

### Kbd

The LED byte is a set of bits, a report a set of codes: the order of keys in a report
does not matter to the driver, which searches it. A scancode stands for its key (the
table maps each key of a keyboard to one keycode; scancodes without one are only
logged). `usb_kbd_event` and `usb_kbd_led` run under `leds_lock`, so each is one action. A URB is
idle, flying, or completed with its completion still to run; the completion's status
is "ok", "error" or "gone" (unlinked or shut down, the early return). `usb_kill_urb`
is a period in which submissions are refused and which ends when the URB is idle.

Left out: the memory allocation of probe, names and descriptors, all validated before
anything runs.

### Rtl8150Rx

Buffers have no identity: `rx_skb` is none, the driver's ("mine") or already given to the
stack ("given"), `tbuf` says whether the URB is set up with it and `target` whether the
device writes into it. `read_bulk_callback` has two callers, the URB and `rtl8150_resume`,
which may run at once; its steps are the checks, the delivery with the next buffer from the
pool, the submission, and `RX_URB_FAIL`, which is changed after the submission that it
tells of. `rx_fixup` has the same steps. A submission may fail at any time; it fails
while the URB is in flight, is being killed or the machine sleeps. `tasklet_kill` claims the
tasklet's scheduled bit, which makes `tasklet_schedule` a no-op until it returns.

`BufferSafe` carries the proviso `clean`: every kill of the URB found handler and
tasklet quiet, `tasklet_kill` swallowed no schedule, and no URB came back before its
submission was noted. The code ensures none of these; without them it uses buffers it
gave away, and by the theorems below nothing else makes it do so. `StopsClean` does not need a
clean history. What it leaves out are two meetings, each with its own variable. `stray`:
the last kill by close, a failed open or suspend returned while the tasklet was scheduled or
had not yet come to its submission, so that it may submit the URB of a closed interface or a
suspended device (`ClosedIsSilent`). `late`: the handler
had looked at `RTL8150_UNPLUG` before disconnect and was not finished when `tasklet_kill` was
(`FreedIsUnused`). An open whose interrupt URB cannot be submitted kills the receive URB and
detaches a device that is gone.

### Rtl8150Tx

A frame belongs to the stack (which may use it again), the driver, or nobody ("lost": the
submission failed and `start_xmit` does not free it). `XmitFill`, `XmitSubmit` and
`XmitFailed` are `start_xmit`; `WriteFree`, `WriteCheck` and `WriteWake` its completion. The
URB may be submitted again as soon as it has completed, before its handler runs. Two
locks: `start_xmit` and the watchdog share the queue's, `set_multicast` has another. The
USB core empties the endpoints of a device it suspends, which ends a transmission that
`rtl8150_suspend` leaves alone. `carrier` at open may be anything: the register is read
earlier than it is used, and not at all if `get_registers` fails. Proviso `calm`:
`set_multicast` has not woken the queue for a frame still on its way. The receive side
appears only as `RxDetaches`.

Left out of both: registers, MII, ethtool, statistics, the control URB of `set_multicast`.

### DriverTables and Lifecycle

`DriverTables` has one definition per driver: the steps of its init or probe, the clean-up
each failure jumps to, the steps of its exit, remove or disconnect, and the calls that the
kernel may make while some resource lets it in. A resource is what one pair of kernel calls
takes and gives back. `Lifecycle` runs the tables: any step that can fail fails or not, exit
runs, and calls come in between. What the code gets wrong is listed in five `Known...` sets,
one entry per mistake, and the properties say that there is no other. See "Known
disagreements".

### Es1938

A callback is a program, the sequence of its accesses to the chip and to `chip->active`; the
actions run one access of one thread at a time. The PCM core calls a stream's callbacks in
its own order and under the stream's lock. An access through an indexed port is selection
and data, under `mixer_lock` or `reg_lock`. A register holds fields, and what a stream writes
is named after the stream. `|=` on `active` is a load and a store. The file does not compile
as written (`ip->irq`, and two functions named `snd_es1938_put_double`, the first of which is
the get); the model takes what was meant. `.pm` is commented out, so suspend and resume are
never called. Left out: FIFO reset, the pointer callbacks, `capture_copy`, rate arithmetic.

### CharDrivers

A driver is the record of its operations, each a sequence of steps; two processes run them one
step at a time. A value is the number of the call that wrote it, so that mixed reads show. A
read loads `size_of_msg` for its copy (`n`) and again after it, for `readoffset` and for what it
returns (`len`). `message` is the last message of `chardev_sync` whose copy is finished,
`crossed` the readers that a write has met after their wait, and `spoiled` names the accidents
that have happened: "fault" (a write that failed half-way), "changed" (a size set under a
reader), "lost" (two additions to `readoffset` that overlapped), "signal" (a wait that a signal
ended), "mixed" (two overlapping writes of `chardev_sync`). One thread per open file; lengths
stay within the buffer, because what copying past its end does is not defined. `SETSIZE` and the
mapped page of `mmap_skel` are left out, and `sysfs_skel`, whose handlers keep no state. Clock
registers do not tick by themselves; two registers stand for the six of "*".

### Btusb

`btusb_work` is cut where another actor can see the difference: the power reference, killing
the URBs, the alternate setting, the submissions. `btusb_open`, `btusb_stop_traffic`,
`btusb_submit_isoc_urb` and the completions are called but not written in this file: they are
modelled from their calls. Nothing sets `BTUSB_SUSPENDING`, so that the deferral of frames and
its waker are dead code and not in the model.

## 3. What is checked

| run | question |
|---|---|
| `tx_ring` | four descriptors, eight frames, with and without the periodic work item: ring, order, stop and wake under every interleaving with chip, interrupt, watchdog, reset, open and close |
| `rtl8139_rx` | does driver and chip's idea of the ring agree, and does somebody always look after it, through poll, interrupt, reset, suspend, resume and remove? |
| `usb_storage` | cancellation, accounting and clean-up of commands, and that everything ends, with a silent device and device resets from user space |
| `usb_transport` | what a transport reports against what the device said and moved; the refinement of `ScsiCommand` |
| `kbd` | keys and LEDs through every order of events and completions, errors, close, reopen and disconnect |
| `rtl8150_rx` | reception under every interleaving of handler, tasklet and administration |
| `rtl8150_tx` | one frame at a time, freed once, never forgotten; a stopped queue woken, the link's state told |
| `es1938` | three streams, two callbacks at once, and the interrupt |
| `es1938_mixer` | capture, two processes at the mixer, and the interrupt on the same port pairs |
| `chardev` | what reads return, in 24 drivers with two processes |
| `btusb` | the voice URBs against connections, frames and close |
| `lifecycle` | load and unload of all 41 drivers, with every combination of failures |

Every run passes, and each of its properties has a mutant of the code that breaks it.

**Properties worth naming.** `RingSound`: ring within bounds, the bounce buffer filled outside
the lock is the right one, and a queue that is stopped is stopped because the ring is full.
`AbortSafe`: the promises of the comment "This is subtle, so pay attention" in
`USB/transport.c`, and what `RESETTING` is for. `CommandsAccounted`: an accepted abort is
notified exactly once, also when the command completes with another result at the same moment.
`NothingStranded`: while NAPI is scheduled the poll looks after the ring and the line is masked;
otherwise an interrupt is to come. `GoodIsReported` and `NoSilentShortage`: success is what the
device said of this command, and all of what the sender must have. `KeysMatch`: the input core's
keys are those of the last report compared, through every loss. `BufferSafe`: who has the URB
and the buffer, through every way of resubmitting. `CleanedUp`: nobody uses what a disconnect
has freed, not even a device reset that waited for the mutex all along. `NoTransferOnHalted`:
whatever stalls is cleared within its command or takes it to a reset. `WaitsForMessage`: a read
goes on only after a whole message, and returns the whole of the last. `ReceptionGoesOn`: no
failure of memory ends reception, and it needs no proviso. `FramesAccounted`: the frame in
flight and `dev->tx_skb` are one. `NoPeriodMissed`: acknowledging and looking are in the right
order. `NothingLeft`, `HeldWhenReleased`, `CalledWhenReady`: what a reader of an init function
checks by hand, for every combination of failures.

Several properties are conjunctions of named parts, each stated and commented in its module.
`TypeOK` is defined in every module; add it to a configuration to have TLC check it.

**Known disagreements** between the code and what its comments, its checks or its
names promise. Some properties hold only as long as a certain accident has not happened; the
accident is a history variable that is set at the step where the code lets it happen, and the
property's comment names it. The list has every such variable and every entry of the
`Known...` sets of `Lifecycle`; take one out of its property and TLC shows the behaviour.

1. `rtl8139.c:1782`: the entry is computed before the lock, and the reset ends with an
   unconditional `netif_wake_queue`; a reset that meets `start_xmit` leaves a ring
   with more frames than descriptors (proviso `clean` of `Rtl8139Tx`).
2. `transport.c:135`: new URBs are submitted after `DISCONNECTING` is set, against the
   comment at lines 89-94.
3. `scsiglue.c:390`: `device_reset` does not set `RESETTING`, so an abort of a queued
   command cancels the URB of a reset from user space, against the comment at lines
   363-365. `transport.c:1300`: `usb_stor_CB_reset` fills `us->iobuf` before the test of
   `DISCONNECTING`, so that a reset which waited for the mutex writes to a buffer that
   `dissociate_dev` (`usb_1.c:804-808`) has freed. The buffer is not modelled: `FreedUnused`
   speaks of the URB.
4. `kbd.c:167`: a parenthesis puts Compose on the bit of Num Lock.
5. `rtl_8150.c:552`: with an empty pool `rx_skb` stays at a buffer of the stack's; a close and
   open before the tasklet has run submits the URB with it. The same variable stands for a
   handler or tasklet that a kill of the URB, or `tasklet_kill`, does not wait for, and for a
   URB that comes back before its submission is noted (`clean` of `Rtl8150Rx`).
   `rtl_8150.c:690`, `768-804`, `1044`: close and suspend kill the URB and not the tasklet,
   which may submit it afterwards: a closed interface or a suspended device receives (`stray`).
   `rtl_8150.c:514-515`, `1249-1259`: disconnect does not wait for a handler past its test of
   `RTL8150_UNPLUG` (`late`).
6. `rtl_8150.c:879`: `set_multicast` wakes the queue whatever `tx_urb` does (`calm`).
7. `rtl8139.c:1475`: open, resume and reset unmask while NAPI may be scheduled (`met`, `torn`);
   `rtl8139.c:1152`: the work item is cancelled and NAPI deleted before the device is
   unregistered (`late`, and two entries of `Lifecycle`). `rtl8139.c:2158`, `2161`: a poll that
   has used up its budget, or that found nothing, may acknowledge the interrupt of a packet it
   leaves in the ring; the packet waits for the next poll or interrupt (`swallowed`).
8. `es1938.c:488`, `517`, `541`: unlocked updates of `active`; a bit is lost when two triggers
   overlap (`raced`). `es1938.c:1360-1364`: a put locks each half by itself, so that two puts at the
   same control may leave the left of one and the right of the other (`mixed` of `Es1938`).
9. Loading: in the eight drivers of `Assignment` a cdev whose `cdev_add` fails is leaked and an
   unchecked `kbuffer` may be NULL; these, the sysfs drivers and six more return 0 after a
   failed init; `mylock` is initialised after the device exists, `poll_data` and the mutex of
   `rtc_proc` never. The APIC drivers do not check or unmap their mapping; `mychar_reg` releases
   a number it did not get; the RAM disks leak a device or a queue; `work_priv` does not check
   its queue.
10. Unloading: `work_queue` does not flush, `ttyled_blink` does not wait for its timer,
    `input_dev` keeps its interrupt and `mmap_skel` an open file; `btusb` does not release the
    second interface; `es1938` has its interrupt before its mixer.
11. `transport.c:1278-1282`: the class reset clears the two bulk pipes only; after an error in
    the status phase of a CBI device the interrupt endpoint stays halted, and the next status
    phase begins on it (`unreset`). The same happens to any endpoint after an error of auto-sense
    on a device with several targets, where no reset follows.
12. `chardrv_lock.c:132-133`, `144`, `chardrv_seqlock.c:133-134`, `145`: the writer sets
    `size_of_msg` before it takes the lock, and the reader loads it again after its copy: a read
    may return more, or less, than it has copied ("changed"). Two readers add to `readoffset` with
    the read lock, or none ("lost").
13. `chardev_sync.c:125-149`: the result of the wait is ignored ("signal"); a completion that
    an earlier message left lets a reader in while a write is under way, and nothing keeps a write
    off a reader (`crossed`) or off another write ("mixed"). A copy from the user that fails
    leaves half a message in every driver with a buffer ("fault").
14. The drivers whose open admits several processes have nothing, or one lock per access, around
    calls that share a buffer or a clock's registers: a read may mix two messages, or a time be
    read across a change of its six registers (`dirty`).
15. `usbbt_drv.c:211`: a close takes a queued work item away, and an error of `btusb_work`
    ends it: what it was to do is done by no other, so that the voice URBs follow the connections
    only when neither has happened (`cut`, `erred`).

Three more premises are no faults of the code. Without a carrier the core's watchdog does not look
at a stopped queue: a transmitter that has halted is left to the next interrupt
(`StoppedIsWoken`). LEDs whose transfer fails are not repeated (`failed` of `Kbd`), and the state of
the link is not told without the interrupt URB (`QueueFollows`).

**Bounds.** `NumTxDesc = 4` is the driver's `NUM_TX_DESC`; eight frames fill the ring twice and
wrap it. `have_thread` is either, as the chip decides. Three slots of the receive ring hold two
packets: one before, one after the budget, and the wrap; a budget of two is used up by them or
not. `MaxTransfers = 2` gives a transport a call that another follows, and a last one; three
would repeat the second. `left` also counts the class reset's three messages, which is the `+ 2`
in `TypeOK`. Commands are not bounded: the model is finite without. `MaxCalls = 8` of
`usb_transport` is what the longest run of a transport makes, and no less would do (`RunsCommand` would fail);
the five commands have no data, data in and data out, the heuristic of INQUIRY and the last
sector, and the five devices each protocol with the quirks that the transports test. Two keys and
a modifier with one slot give chords and rollover; each of the two changes goes to any set of
keys, so that keys are pressed, exchanged and released. One LED with three events: one while
idle, one in flight, one during or after the completion. A pool of two receive buffers is empty,
full or neither, like the real one of four; the invariants are proved for every size. Two frames
are enough for one to be overwritten by another. Two callbacks of the sound driver under way
besides the interrupt show each pairwise race. Two cells, two processes and three calls: a
write, one that overlaps it, and a read of the outcome; two calls for the drivers with ports,
where a call is many accesses and the mix-up is between two of them. Processes, and those at the
mixer, are symmetric. Two connections in `Btusb` are needed for a count that changes and does
not become zero. `Lifecycle` has no bound.

Deadlock is checked for `Rtl8139Tx`, `UsbTransport`, `Lifecycle` and `Btusb`. `Kbd`, `UsbStorage`,
`Rtl8139Rx` and the `Rtl8150` modules really stop, when the device is gone; `Es1938` and
`CharDrivers` when no stream is left to move or the calls are used up.

**Fairness.** Only what the code or the kernel guarantees. `Rtl8139Tx`: a started call, an
entered handler, the watchdog's timer while there is a carrier, and the workqueue; not the chip,
not its interrupt, not a link that comes back. `Rtl8139Rx`: the poll and the reset run once
begun, and an interrupt whose line is asserted and unmasked is delivered. `UsbStorage`: every
thread of control runs, the SCSI timer expires, the host controller returns an unlinked URB; an
active URB may stay with a silent device for ever; and device resets from user space come to an
end at some time (the premise of `EverythingEnds`), as they take the lock that a command needs.
`UsbTransport`: its one thread runs and a transfer ends, if only by the abort. `Kbd`:
completions run and the host controller ends a control transfer; strong fairness only where
errors may intervene again and again (a pending report gets through in the end) and for the last
step of a disconnect. A device need not be disconnected and a user need not press anything.
`Rtl8150Rx`: handler and tasklet run, and an allocation or submission that is tried again and
again succeeds at some time; `Rtl8150Tx`: the watchdog expires while there is a carrier, the
host controller returns an unlinked URB, and the interrupt endpoint reports again and again.

## 4. What is proved

With TLAPS, for every value of the constants under the named assumptions in the modules (ring
size positive, or more than one for reception; weights and bounds positive; keys distinct from
modifiers; a command with the length, the minimum and the device with the protocols and flags
that their types allow; streams and controls among those the sound driver has, and processes at
the mixer that are neither a stream nor the interrupt handler).

`Rtl8139TxProofs`. `IInv` is `TypeOK`, `Control` (which control points exclude each other) and,
under `clean`, `Ring`. `RingBound` alone is not inductive: a reset empties the ring while the
queue stays stopped for some steps, and the step that commits a frame must know the queue was
awake. `CopiesIntoFreeBuffer` needs `Owned` on top, which descriptors are the chip's; it rests
on `ModDistinct`, that two indices less than the ring apart fall on different descriptors.
Proved: `TypeCorrect`, `RingBounded`, `StoppedMeansFull`, `CleanRunsStayInSync`,
`CopiesIntoFreeBuffer`, and together `RingIsSound`. `SentInOrder` (the action property
`InOrderOnce`: each frame sent is later than the one before) needs to know where in the ring the
chip is: `Line(h)` says that the chip is at the h-th frame since the reset, that all before it
are done and all from it on wait in the order they were handed over, later than what is on the
wire. Each of the four steps that touch the line has a lemma: a copy goes behind it
(`LineCopied`), a commit extends it (`LineGrows`), the chip takes its head (`LineAdvances`, with
`HeadOfLine`: the chip cannot be a round ahead), and reaping only takes what is done
(`LineReaped`). `Silent` keeps the chip from sending while a reset renumbers the ring.

`Rtl8139RxProofs`. `IInv` is `TypeOK`, `Control` (who may be active in which phase of
open, close, suspend and remove), `Agree` (the three positions), `Unmasked` (who has masked
the line and will unmask it) and `Accounted` (for each control point of the poll, what it owes
a packet that it has not looked at). None of the properties is inductive: `InStep` and
`NothingStranded` speak of an interface that is up, and what is lost while the chip sleeps must
be known to be mended by the resume before they speak again (`Attentive`). The lemmas on
positions say that counting modulo the ring and counting unread packets agree. Proved:
`TypeCorrect`, `StaysInStep`, `NoPacketStranded`, `NothingUsedAfterFree`, for every ring of
more than one slot and every budget; the provisos (`met`, `torn`, `swallowed`, `late`) are the
accidents listed above, and the theorems say that nothing else breaks the properties.

`UsbStorageProofs`. `IInv` has five parts beside `TypeOK`: `OwnerInv` (who holds
`dev_mutex`, and that only a holder is in `msg_common`), `UrbInv` (an active bit is set
only from the submission to the end of the wait; whoever clears it unlinks),
`ResetInv` (RESETTING is set exactly at certain points of the thread and excludes
ABORTING), `CommandInv` (`srb` and `cmnd_ready` say whether the thread has work) and
`AbortInv` (TIMED_OUT and ABORTING belong to an abort that waits). Each step lemma cites
the parts it depends on: `UrbInv` needs who owns the mutex, `ResetInv` needs `UrbInv`,
`AbortInv` stands on `CommandInv` only. The invariants of run `usb_storage` follow: `AbortIsSafe`,
`CommandsAreAccounted`, `IsCleanedUp`. That nothing uses the freed URB (`FreedIsUnused`) is
for a user's reset a matter of order: `DISCONNECTING` is set before the URB is freed and never
cleared, and whoever gets the mutex then submits nothing.

`UsbDriversProofs` is about three drivers that share no state, each with its own
specification (hence `KbdSpec` and `BtusbSpec`).

Keyboard. `LedInv`, `KeyInv` and `OpenInv` are each inductive given `TypeOK`; the one
step with content is `IrqComplete`, where pressed keys computed by differences must come out as the
new report. Proved: `KbdTypeCorrect`, `FlagIsTrue`, `NoChangeLeft`, `BufferIsStable` (an
action property), `KeysFollowReports`, `FreedIsUnused`, `LedsFollowEvents`.

RTL8150 transmission. A frame on its way is in `start_xmit`, in the URB or in the handler;
`FlowInv` says that, when calm, it is in one of them and the queue is stopped, `RestInv`
that there is none when closed or asleep, `FrameInv` that it is `dev->tx_skb`.
`FramesAreAccounted`, the invariant of run `rtl8150_tx`, follows.

Bluetooth. The two properties speak of moments of rest. `BtusbInv` adds what the work item has
done and has yet to do at each of its control points (`Stage`), the order of the close
(`Closing`), the counting of frames (`Frames`), and `Noticed`: a run of the work item that was
overtaken by a change of the connections has another run queued behind it. Proved:
`BtusbTypeCorrect`, `UrbsStayInPlace`, `CallsAreFollowed`, for any number of connections and frames.

`Rtl8150RxProofs`. The work of resubmitting `rx_urb` passes from hand to hand: the device,
the handler, the tasklet's queue, the tasklet. `HandInv` says that after clean stops one hand
has it at most, and none when the interface is closed or asleep; `BufferInv` says what
each hand knows of `rx_skb` and `RX_URB_FAIL` (the flag is set only while somebody will
still look at it). `DmaIntoOwn` alone is not inductive: the submission that makes it true
happens several hands later than the delivery that endangers it. `DiscInv` and `StrayInv` are
separate and need no clean history: the one says what is still to come after `tasklet_kill`, with
no proviso but `late`; the other that what close or suspend has stopped, handler and tasklet
with it, stays stopped, with none but `stray`. Both invariants of run `rtl8150_rx` follow
(`BufferIsSafe`, `ItStopsClean`).

`UsbTransportProofs`. For any commands and devices. `IInv` is `TypeOK`, `Flow` (which stages
belong to which transport), `Halts` (an endpoint is halted only where it is about to be cleared,
on the way to a reset, or since an error that no reset reached), `Verdict` (what each stage of a
command that may still become a good one knows of the device), `Retries` (the flags and counters
of READ(10) and of the last sector) and `Bounded` (the calls made up to each stage). Proved:
`TypeCorrect`, and the four invariants of run `usb_transport` (`HaltsAreCleared`,
`GoodWasReported`, `NothingMissing`, `RetriesAreBounded`). `ImplementsCommand` is the refinement
of `ScsiCommand`: initial states map to initial states and each step to a step of the abstract
command or none (`StepRefines`, action by action). It stops short of `RunsCommand` only by that
property's fairness. `MaxCalls >= 8` is an assumption of the module: a smaller number is wrong,
since `Bounded` allows eight and a bulk transport that stalls everywhere makes them. The proofs
also found that some guards of one `CASE` overlapped: TLC takes the first arm, the logic any of
them. They are disjoint now, in the order in which the code tests.

`Es1938Proofs`. For any streams, controls, processes at the mixer and callbacks under way at
once. A callback under way is the rest of its program, so the inductive invariant `IInv`
says what that rest still holds. `Programs` keeps each rest among the accesses its callback
makes, in an order from which the proofs need three facts: `chip->active` is loaded right before
it is stored, the DMA controller is masked before it is unmasked and takes the values
of the driver after those are set, and the handler takes a request back before it looks for
the stream. `Chip` says that the holder of a port pair's lock has selected its register and,
before the store of a read-modify-write, has read what the register's other fields hold:
from that, each locked access is one step on the registers (`WriteWrites`, `StoreWrites`), which is
`RegistersAreMeant`, and all other parts reason about fields. `Bits` is about the loaded copies of
`chip->active`, which are right for every stream whose trigger overlapped no other. `Prepared`
says of a stream from its prepare to its stop that the channel has its setup *or* the rest
of the prepare will still write it; `Transfers`, that a channel is running only for a started
stream or one whose stop has still to halt it. `TransfersItsOwn` alone is not inductive: what makes
it true is done in a prepare long before a start, and what could break it is the other stream of the
channel, which `Core` says is closed. `Owed` has, for a period not yet reported, the stages by which
the report comes (`Coming`): the interrupt, the handler's test, the call. `Stereo` says that
unless puts overlapped there is one put of the master volume at most and which half it has done.
Proved: `TypeCorrect` and the five invariants of runs `es1938` and `es1938_mixer`
(`RegistersAreMeant`, `ActiveIsRight`, `TransfersAreOwn`, `NoPeriodIsMissed`,
`StereoIsTogether`); the history variables `raced` and `mixed` are the accidents that the code
allows, and the theorems say that nothing else breaks the properties.

`CharDriversProofs`. For any processes, cells and calls, for each of the 24 drivers. A process
at work is what is left of a program of its driver. The programs are data, so the first part
shows of every row of the table what the proofs need (`Programs`): steps have ranks, a program
takes them in the order of rank and ends with its return, and at the ports an address is
followed by the access it is for. `Shape` keeps this while programs run, so that the next step
tells which steps are done. The others stand on it. `Exclusive` says who may be at the ports,
`Chosen` that the address port holds the register of the process at an access (a mutex or the
lone open keeps it so). `LockedInv` says who has the rwlock or the seqlock, and that a reader
agrees with the buffer as it stands while it holds the lock or while the count is still the one
it began with; a seqlock reader may have read two halves of two messages, and only the count
tells. `CopyInv` says which cells a read has copied, and that the length it returns is their
number unless a write has set the size since. `SyncInv`: before the first message is finished
there are no completions and no offset, and no reader is past its wait. `MessageInv`: while no
write of `chardev_sync` is under way the size and the buffer are those of the last message, and
a reader that has met no write since its wait has as much of that message as it has copied.
`OffsetInv`: `readoffset` is what was returned plus the shares (`Pending`) of the reads that
have added and not returned; the sum over processes is the size of a set of pairs, for which
`FiniteSetTheorems` has the facts that a sum would need induction for. `WholeInv` is about a
clean history: no write cut short and, unless one process at a time may open the driver, no
overlap of calls that share what they use. In it a call with a write is alone (`Apart`), every
access at the ports has its own register selected (`Aimed`), and while nobody writes the buffer
is what the last write left (`Standing`); a write in its course has set the cells or registers
that the steps left to it do not account for (`WriteOK`), and a read has as many of those of the
last write (`ReadOK`). `ReadsWhole` alone is not inductive: it speaks of the return, where what
was copied three steps before can no longer be seen. Proved: `TypeCorrect`, and the four
invariants of run `chardev`, by `LocksKeepReadsWhole`, `ReadsWait`, `OffsetIsSum` and
`ReadsAreWhole`.

Only model-checked: the liveness properties (`StoppedIsWoken`, `EverythingEnds`, `Reaches`,
`ReceptionGoesOn`, `QueueFollows`, `PacketsFetched`, and of `RunsCommand` the fairness), because
fairness and ENABLED are out of the prover's reach; and all of `Lifecycle`. There the program is
data, a table of steps that one generic action interprets, and there is no constant: a proof
would be by cases over the table, which TLC does completely.

## 5. Plan

In this order; nothing is an assumption of what exists.

1. `Rtl8139`: `Rtl8139Tx` and `Rtl8139Rx` composed over the shared interrupt handler and the
   reset; `Rtl8150`: `Rtl8150Rx` and `Rtl8150Tx` over the network device that they share.
2. `XferBuf`: the buffer walk of `usb_stor_access_xfer_buf` as a recursive function
   against a reference that copies the concatenated buffer; the RAM disk's loop likewise.
3. The pointer callbacks and `capture_copy` of `Es1938`; suspend and resume of `UsbStorage`.

## 6. Not modelled, and why

Third-party originals (`8139too.c`, `usbkbd.c`, `rtl8150.c`, `usbmouse.c`) and the half driver
`USB/usb.c` are not part of a working build. The table of `unusual_devs.h`, the strings of
`debug.c`, ethtool, MII, EEPROM access and the twister tuning of `rtl8139.c`, settings read in
USB probes, and formatting are data or sequences of register accesses without a second
actor. The RAM disks' transfers and the padding and buffer walk of `protocol.c` are sequential
copying. User programs drive the exercises by hand. Memory ordering is taken to be
sequentially consistent, as the atomic bit operations and locks of these drivers make it
where it matters; `INIT_DELAYED_WORK` on a pending work item corrupts memory in ways the build
does not define and is listed as a hazard only, and so is the wait queue that
`chardev_poll.c` keeps on its stack.
