---------------------------- MODULE DriverTables ----------------------------
(***************************************************************************)
(* How every driver of the repository comes up and goes away: one          *)
(* definition per driver, the steps of its init or probe function with the *)
(* clean-up each failure jumps to, the steps of its exit, remove or        *)
(* disconnect function, and the calls the kernel may make into it while    *)
(* the resource that lets them in is held.  Lifecycle runs these tables.   *)
(* A resource is what one pair of kernel calls takes and gives back; the   *)
(* initialisation of a lock, a queue head, a work item or of a private     *)
(* pointer is a resource nothing has to give back.                         *)
(***************************************************************************)
EXTENDS Sequences, SequencesExt, FiniteSets

(***************************************************************************)
(* A step takes a resource; "fails" are the ways its failure can go:       *)
(* "error" runs "undo" and has init return an error, "zero" runs "undo"    *)
(* and has init return 0, "ignored" carries on.                            *)
(***************************************************************************)
Takes(r, fails, undo) ==
    [op |-> "take", res |-> r, fails |-> fails, undo |-> undo]
Get(r, undo)     == Takes(r, {"error"}, undo)
GetOr0(r, undo)  == Takes(r, {"zero"}, undo)
Maybe(r, undo)   == Takes(r, {"error", "ignored"}, undo)
Try(r)           == Takes(r, {"ignored"}, << >>)
Must(r)          == Takes(r, {}, << >>)
Check(why, undo) == [op |-> "check", res |-> why, fails |-> {"error"}, undo |-> undo]
Need(rs, undo)   == [op |-> "need", res |-> rs, fails |-> {"error"}, undo |-> undo]

Step(op, r) == [op |-> op, res |-> r, fails |-> {}, undo |-> << >>]
Put(r)     == Step("put", r)       \* a release that needs the resource
PutAny(r)  == Step("putAny", r)    \* one that tolerates NULL, or is under an if
PutElse(r) == Step("putElse", r)   \* one called with the wrong argument
Use(r)     == Step("use", r)       \* a use of the resource by init or exit
Setup(r)   == Step("setup", r)     \* an initialisation
Undo(r)    == Step("undo", r)      \* mutex_destroy, intfdata = NULL
Arm(r)     == Step("arm", r)       \* queue a work item, add a timer
Drop(r)    == Step("drop", r)      \* del_timer
Flush(r)   == Step("flush", r)     \* cancel or kill, and wait

Puts(rs)    == [i \in 1..Len(rs) |-> Put(rs[i])]
PutsAny(rs) == [i \in 1..Len(rs) |-> PutAny(rs[i])]

(***************************************************************************)
(* A call enters while "by" is held, or once for every time "by" is armed. *)
(* It needs "needs", arms "arms" and gives back "gives" when it ends, and  *)
(* "until" says what waits for it: the release of a resource, the module   *)
(* reference of an open file ("module"), or nothing.                       *)
(***************************************************************************)
Call(by, needs, until) ==
    [by |-> by, needs |-> needs, until |-> until, arms |-> {}, gives |-> {}]
Arming(by, needs, until, arms) == [Call(by, needs, until) EXCEPT !.arms = arms]

(* Transfers the USB core refuses, and has waited for, once it disconnects *)
(* the driver.                                                             *)
Urbs == {"urb", "irqUrb", "ledUrb"}

Module(load, unload, calls) ==
    [load |-> load, unload |-> unload, calls |-> calls, usb |-> FALSE]
Usb(load, unload, calls) == [Module(load, unload, calls) EXCEPT !.usb = TRUE]

-----------------------------------------------------------------------------
(***************************************************************************)
(* Assignment/: a character device with a class, a node and kmalloc'ed     *)
(* buffers.  ret is 0 when cdev_alloc, class_create or device_create       *)
(* fails, so init undoes everything and reports success; cdev_add's        *)
(* failure is reported, and leaves the cdev.                               *)
(***************************************************************************)
CdevDel == Puts(<<"cdevAdd", "cdev">>)
CdevDriver(locks, more, late, unlock, needs) ==
    Module(locks
           \o <<Get("region", << >>),
                GetOr0("cdev", <<Put("region")>>),
                Get("cdevAdd", <<Put("region")>>),
                GetOr0("class", CdevDel \o <<Put("region")>>),
                GetOr0("device", <<Put("class")>> \o CdevDel \o <<Put("region")>>)>>
           \o [i \in 1..Len(more) |-> Try(more[i])] \o late,
           unlock \o PutsAny(more) \o <<Put("device"), Put("class")>>
           \o CdevDel \o <<Put("region")>>,
           [fops |-> Call("device", needs, "module")])

Buffered(late, needs) ==
    CdevDriver(<< >>, <<"kbuffer">>, late, << >>, {"kbuffer"} \union needs)

char_dev == Buffered(<< >>, {})
chardev_minor ==
    CdevDriver(<< >>, <<"kbuffer", "kbuffer1">>, << >>, << >>, {"kbuffer", "kbuffer1"})
chardev_sync ==
    CdevDriver(<<Setup("my_comp")>>, <<"kbuffer">>, << >>, << >>, {"kbuffer", "my_comp"})
chardrv_lock == Buffered(<<Setup("mylock")>>, {"mylock"})
chardrv_seqlock == Buffered(<< >>, {})
chardev_poll == Buffered(<<Setup("stackQueue")>>, {"poll_data"})
chardrv_ioctl == Buffered(<< >>, {})
charioctl == Buffered(<< >>, {})

(***************************************************************************)
(* char/: character devices with one opener at a time.                     *)
(***************************************************************************)
mychar_udev ==
    CdevDriver(<<Setup("m_lock")>>, << >>, << >>, <<Undo("m_lock")>>, {"m_lock"})

(* mycharS, mycharD and mycharPer return 0 on every failure after the      *)
(* region, and cdev_del forgives a cdev that was not added.                *)
NodeDriver ==
    Module(<<Setup("m_lock"), Get("region", << >>),
             GetOr0("cdev", <<Put("region")>>), GetOr0("cdevAdd", <<Put("region")>>)>>,
           <<Undo("m_lock"), PutAny("cdevAdd"), Put("cdev"), Put("region")>>,
           [fops |-> Call("cdevAdd", {"m_lock"}, "module")])

mycharS == NodeDriver
mycharD == NodeDriver
mycharPer == NodeDriver

(* register_chrdev is undone with unregister_chrdev_region of a dev_t      *)
(* nobody set, so the major number stays taken.                            *)
mychar_reg ==
    Module(<<Setup("m_lock"), Get("chrdev", << >>), Get("class", <<PutElse("chrdev")>>),
             Get("device", <<Put("class"), PutElse("chrdev")>>)>>,
           <<Undo("m_lock"), Put("device"), Put("class"), PutElse("chrdev")>>,
           [fops |-> Call("device", {"m_lock"}, "module")])

Misc(before, needs) ==
    Module(<<Setup("m_lock")>> \o before \o <<Get("misc", << >>)>>,
           <<Undo("m_lock"), Put("misc")>>,
           [fops |-> Call("misc", {"m_lock"} \union needs, "module")])

mychar_misc == Misc(<< >>, {})
rtc_chardrv == Misc(<< >>, {})
clock == Misc(<< >>, {})
rtc_ioctl == Misc(<< >>, {})
apic_ioctl == Misc(<<Try("io")>>, {"io"})

(***************************************************************************)
(* procfs/ and sysfs/.  Removing an entry waits for the calls inside it.   *)
(***************************************************************************)
proc_skel ==
    Module(<<Get("base", << >>), Get("entry", <<Put("base")>>)>>, Puts(<<"entry", "base">>),
           [fops |-> Call("entry", {}, "entry")])
rtc_proc ==
    Module(<<Get("base", << >>), Get("time", <<Put("base")>>),
             Get("date", Puts(<<"time", "base">>))>>,
           Puts(<<"date", "time", "base">>),
           [time |-> Call("time", {"lock"}, "time"), date |-> Call("date", {"lock"}, "date")])

SysDriver(before, needs) ==
    Module(before \o <<Get("kobject", << >>), GetOr0("group", <<Put("kobject")>>)>>,
           <<PutAny("group"), Put("kobject")>>,
           [attrs |-> Call("group", needs, "group")])

sysfs_skel == SysDriver(<< >>, {})
rtc_sync == SysDriver(<<Setup("lock")>>, {"lock"})
rtc_sysfs == SysDriver(<< >>, {})
rtcsysfs_comman == SysDriver(<< >>, {})
apic_sysfs == SysDriver(<<Try("io")>>, {"io"})

(* The debugfs file has no owner and its creation is not checked.          *)
mmap_skel ==
    Module(<<Try("file")>>, <<PutAny("file")>>, [mmap |-> Call("file", {}, "nothing")])

-----------------------------------------------------------------------------
(***************************************************************************)
(* blk/: RAM disks.  The kmalloc of the device is used unchecked.          *)
(***************************************************************************)
BlockOps ==
    [request |-> Call("added", {"dev", "data", "queue", "disk"}, "module")]
FreeDisk == Puts(<<"data", "dev">>)

blk_drv ==
    Module(<<Try("dev"), Use("dev"), Get("data", << >>), GetOr0("queue", FreeDisk),
             GetOr0("blkdev", FreeDisk), GetOr0("disk", <<Put("blkdev")>> \o FreeDisk),
             Must("added")>>,
           <<Use("dev")>> \o Puts(<<"added", "disk", "blkdev", "queue", "data", "dev">>),
           BlockOps)
ramblk_drv ==
    Module(<<Try("dev"), Use("dev"), Get("data", << >>), GetOr0("blkdev", FreeDisk),
             GetOr0("queue", FreeDisk),
             GetOr0("disk", Puts(<<"queue", "blkdev">>) \o FreeDisk), Must("added")>>,
           <<Use("dev")>> \o Puts(<<"added", "disk", "blkdev", "queue", "data", "dev">>),
           BlockOps)
ramblock_drv ==
    Module(<<Try("dev"), Use("dev"), Get("data", << >>), Get("queue", <<Put("data")>>),
             Get("blkdev", <<Put("data")>>),
             Get("disk", Puts(<<"queue", "blkdev", "data">>)), Must("added")>>,
           Puts(<<"added", "disk", "queue", "blkdev", "data">>), BlockOps)

(***************************************************************************)
(* workqueue/, Notifier_chain/, input/ and ttyled/.                        *)
(***************************************************************************)
work_priv ==
    Module(<<Try("my_workq"), Setup("work"), Use("my_workq"), Arm("work")>>,
           <<Flush("work"), Put("my_workq")>>,
           [w_fun |-> Call("work", {"my_workq"}, "work")])
work_queue ==
    Module(<<Get("irq", << >>)>>, <<Flush("irq"), Put("irq")>>,
           [my_interrupt |-> Arming("irq", {}, "irq", {"workq"}),
            workq_fn     |-> Call("workq", {}, "nothing")])
notifierhook ==
    Module(<<Must("hook")>>, <<Put("hook")>>, [usb_notify |-> Call("hook", {}, "hook")])

(* free_irq gets the handler where request_irq got NULL as the cookie.     *)
input_dev ==
    Module(<<Get("irq", << >>), Get("button_dev", <<PutElse("irq")>>),
             Get("input", <<Put("button_dev"), PutElse("irq")>>)>>,
           <<Put("input"), Put("button_dev"), PutElse("irq")>>,
           [button_interrupt |-> Call("irq", {"button_dev"}, "irq")])

(* The timer adds itself again, and del_timer does not wait for it.        *)
ttyled_blink ==
    Module(<<Arm("mytimer")>>, <<Drop("mytimer")>>,
           [mytimer_func |-> Arming("mytimer", {}, "nothing", {"mytimer"})])

-----------------------------------------------------------------------------
(***************************************************************************)
(* net/realtek/rtl8139.c.  remove_one cancels the work and deletes the     *)
(* NAPI context before it unregisters the device that uses both.           *)
(***************************************************************************)
rtl8139_cleanup_dev == <<PutAny("mmio"), PutAny("regions"), Put("netdev")>>
BoardUndo == rtl8139_cleanup_dev \o <<Put("enabled")>>
rtl8139_init_board ==
    <<Get("netdev", << >>), Get("enabled", rtl8139_cleanup_dev), Get("regions", BoardUndo),
      Check("bar", BoardUndo), Get("mmio", BoardUndo), Check("chip", BoardUndo)>>
rtl8139_init_one ==
    rtl8139_init_board
    \o <<Must("napi"), Setup("thread"), Get("registered", <<Put("napi")>> \o BoardUndo),
         Setup("drvdata")>>
rtl8139_remove_one ==
    <<Flush("thread"), Put("napi"), Put("registered")>> \o BoardUndo
rtl8139 ==
    Module(rtl8139_init_one, rtl8139_remove_one,
           [netdev_ops |-> Arming("registered", {"netdev", "mmio", "napi"}, "registered",
                                  {"thread"}),
            rtl8139_thread |-> Arming("thread", {"netdev", "mmio"}, "thread", {"thread"})])

(***************************************************************************)
(* USB_Based_Ethernet/rtl_8150.c.                                          *)
(***************************************************************************)
rtl8150_probe ==
    LET out  == Puts(<<"intr_buff", "netdev">>)
        out1 == <<Put("urbs")>> \o out
    IN <<Get("netdev", << >>), Get("intr_buff", <<Put("netdev")>>), Setup("tl"),
         Get("urbs", out), Check("reset", out1), Must("pool"), Setup("intfdata"),
         Get("registered", <<Undo("intfdata"), Put("pool")>> \o out1)>>
rtl8150_disconnectKillsLate ==    \* mutant: frees the URBs before it kills the tasklet
    <<Undo("intfdata"), Put("registered"), Flush("urb"), Put("urbs"), Flush("tl"),
      Put("pool"), Put("intr_buff"), Put("netdev")>>
rtl8150_disconnect ==
    <<Undo("intfdata"), Flush("tl"), Put("registered"), Flush("urb"), Put("urbs"),
      Put("pool"), Put("intr_buff"), Put("netdev")>>
rtl8150 ==
    Usb(rtl8150_probe, rtl8150_disconnect,
        [netdev_ops |-> Arming("registered", {"netdev", "urbs", "pool"}, "registered",
                               {"urb"}),
         read_bulk_callback |-> Arming("urb", {"netdev", "urbs"}, "urb", {"tl"}),
         rx_fixup |-> Arming("tl", {"netdev", "urbs", "pool"}, "tl", {"urb"})])

(***************************************************************************)
(* keyboard/kbd.c and mouse/mouse.c.                                       *)
(***************************************************************************)
usb_kbd_free_memForgets == PutsAny(<<"irq", "led", "new", "cr">>)    \* mutant: no leds
usb_kbd_free_mem == PutsAny(<<"irq", "led", "new", "cr", "leds">>)
usb_kbd_alloc_mem(fail2) ==
    [i \in 1..5 |-> Get(<<"irq", "led", "new", "cr", "leds">>[i], fail2)]
usb_kbd_probe ==
    LET fail1 == PutsAny(<<"input", "kbd">>)
        fail2 == usb_kbd_free_mem \o fail1
    IN <<Try("kbd"), Try("input"), Need({"kbd", "input"}, fail1)>>
       \o usb_kbd_alloc_mem(fail2) \o <<Get("registered", fail2), Setup("intfdata")>>
usb_kbd_disconnect ==
    <<Undo("intfdata"), Flush("irqUrb"), Put("registered"), Put("input"), Flush("ledUrb")>>
    \o usb_kbd_free_mem \o <<Put("kbd")>>
kbd ==
    Usb(usb_kbd_probe, usb_kbd_disconnect,
        [usb_kbd_event |-> Arming("registered", {"kbd", "led", "leds", "irq"}, "registered",
                                  {"irqUrb", "ledUrb"}),
         usb_kbd_irq |-> Arming("irqUrb", {"kbd", "input", "new", "irq"}, "irqUrb",
                                {"irqUrb"}),
         usb_kbd_led |-> Arming("ledUrb", {"kbd", "leds", "led"}, "ledUrb", {"ledUrb"})])

usb_mouse_probeFreesAll ==        \* mutant: one label for every failure
    LET fail == PutsAny(<<"irq", "input", "mouse">>) \o <<Put("data")>>
    IN <<Try("mouse"), Try("input"), Need({"mouse", "input"}, fail),
         Get("data", fail), Get("irq", fail), Get("registered", fail), Setup("intfdata")>>
usb_mouse_probe ==
    LET fail1 == PutsAny(<<"input", "mouse">>)
        fail2 == <<Put("data")>> \o fail1
    IN <<Try("mouse"), Try("input"), Need({"mouse", "input"}, fail1),
         Get("data", fail1), Get("irq", fail2),
         Get("registered", <<Put("irq")>> \o fail2), Setup("intfdata")>>
usb_mouse_disconnect ==
    <<Undo("intfdata"), Flush("irqUrb"), Put("registered"), Put("input"), Put("irq"),
      Put("data"), Put("mouse")>>
mouse ==
    Usb(usb_mouse_probe, usb_mouse_disconnect,
        [usb_mouse_open |-> Arming("registered", {"mouse", "irq", "data"}, "registered",
                                   {"irqUrb"}),
         usb_mouse_irq |-> Arming("irqUrb", {"mouse", "input", "data", "irq"}, "irqUrb",
                                  {"irqUrb"})])

(***************************************************************************)
(* Bluetooth/usbbt_drv.c.  A device without an isochronous interface has   *)
(* nothing to claim; the claim is not undone when hci_register_dev fails.  *)
(***************************************************************************)
btusb_probe ==
    <<Get("data", << >>), Check("endpoints", <<Put("data")>>),
      Setup("works"), Get("hdev", <<Put("data")>>), Maybe("isoc", Puts(<<"hdev", "data">>)),
      Get("registered", Puts(<<"hdev", "data">>)), Setup("intfdata")>>
btusb_disconnect ==
    <<Undo("intfdata"), Put("registered"), PutAny("isoc"), Put("hdev"), Put("data")>>
btusb ==
    Usb(btusb_probe, btusb_disconnect,
        [hci_ops |-> Call("registered", {"hdev", "data", "works"}, "registered")])

(***************************************************************************)
(* Sound/es1938.c.  snd_card_free releases whatever was added to the card, *)
(* the chip among it once snd_device_new has made it a device.             *)
(***************************************************************************)
snd_es1938_free == PutsAny(<<"gameport", "irq", "regions", "enabled", "chip">>)
snd_es1938_create ==
    <<Get("enabled", <<Put("card")>>),
      Check("dma mask", Puts(<<"enabled", "card">>)),
      Get("chip", Puts(<<"enabled", "card">>)), Setup("locks"),
      Get("regions", Puts(<<"chip", "enabled", "card">>)),
      Get("irq", snd_es1938_free \o <<Put("card")>>),
      Get("device", snd_es1938_free \o <<Put("card")>>)>>
snd_card_free ==
    PutsAny(<<"registered", "mpu401", "opl3", "mixer", "pcm", "device">>)
    \o snd_es1938_free \o <<Put("card")>>
snd_es1938_probe ==
    <<Get("card", << >>), Check("resources", <<Put("card")>>)>>
    \o snd_es1938_create
    \o <<Get("pcm", snd_card_free), Get("mixer", snd_card_free),
         Maybe("opl3", snd_card_free), Try("mpu401"), Try("gameport"),
         Get("registered", snd_card_free), Setup("drvdata")>>
es1938 ==
    Module(snd_es1938_probe, snd_card_free,
           [snd_es1938_interrupt |-> Call("irq", {"chip", "regions", "locks"}, "irq"),
            hw_volume_interrupt |-> Call("irq", {"chip", "regions", "locks", "mixer"}, "irq"),
            streams |-> Call("registered", {"chip", "regions", "irq", "pcm"}, "registered")])

(***************************************************************************)
(* USB/usb_1.c.  Every failure releases everything there is.  The scan     *)
(* gives back the reference that keeps the device awake when it is done;   *)
(* disconnect gives it back when it cancelled the scan.                    *)
(***************************************************************************)
usb_stor_release_resources == PutsAny(<<"ctl_thread", "current_urb">>)
dissociate_dev == PutsAny(<<"cr", "iobuf">>) \o <<Undo("intfdata")>>
release_everything == usb_stor_release_resources \o dissociate_dev \o <<Put("host")>>
usb_stor_acquire_resources ==
    <<Get("current_urb", release_everything), Check("initFunction", release_everything),
      Get("ctl_thread", release_everything)>>
associate_dev ==
    <<Setup("intfdata"), Get("cr", release_everything), Get("iobuf", release_everything)>>
usb_stor_probe1 ==
    <<Get("host", << >>), Setup("works")>> \o associate_dev
    \o <<Check("ignored", release_everything)>>
usb_stor_probe2 ==
    <<Check("transport", release_everything), Check("pipes", release_everything)>>
    \o usb_stor_acquire_resources
    \o <<Get("added", release_everything), Must("autopm"), Arm("scan_dwork")>>
quiesce_and_remove_host == <<Flush("scan_dwork"), PutAny("autopm"), Put("added")>>
usb_storage ==
    Usb(usb_stor_probe1 \o usb_stor_probe2,
        quiesce_and_remove_host \o release_everything,
        [queuecommand |->
             Call("added", {"host", "ctl_thread", "current_urb", "cr", "iobuf"}, "added"),
         control_thread |->
             Call("ctl_thread", {"host", "current_urb", "cr", "iobuf"}, "ctl_thread"),
         usb_stor_scan_dwork |->
             [Call("scan_dwork", {"host", "added", "iobuf", "autopm"}, "scan_dwork")
                 EXCEPT !.gives = {"autopm"}]])

-----------------------------------------------------------------------------
Drivers == [
    char_dev |-> char_dev, chardev_minor |-> chardev_minor, chardev_sync |-> chardev_sync,
    chardrv_lock |-> chardrv_lock, chardrv_seqlock |-> chardrv_seqlock,
    chardev_poll |-> chardev_poll, chardrv_ioctl |-> chardrv_ioctl, charioctl |-> charioctl,
    mycharS |-> mycharS, mycharD |-> mycharD, mycharPer |-> mycharPer,
    mychar_udev |-> mychar_udev, mychar_reg |-> mychar_reg, mychar_misc |-> mychar_misc,
    rtc_chardrv |-> rtc_chardrv, clock |-> clock, rtc_ioctl |-> rtc_ioctl,
    apic_ioctl |-> apic_ioctl, proc_skel |-> proc_skel, rtc_proc |-> rtc_proc,
    sysfs_skel |-> sysfs_skel, rtc_sync |-> rtc_sync, rtc_sysfs |-> rtc_sysfs,
    rtcsysfs_comman |-> rtcsysfs_comman, apic_sysfs |-> apic_sysfs, mmap_skel |-> mmap_skel,
    blk_drv |-> blk_drv, ramblk_drv |-> ramblk_drv, ramblock_drv |-> ramblock_drv,
    work_priv |-> work_priv, work_queue |-> work_queue, notifierhook |-> notifierhook,
    input_dev |-> input_dev, ttyled_blink |-> ttyled_blink, rtl8139 |-> rtl8139,
    rtl8150 |-> rtl8150, kbd |-> kbd, mouse |-> mouse, btusb |-> btusb, es1938 |-> es1938,
    usb_storage |-> usb_storage]
=============================================================================
