------------------------------ MODULE Lifecycle ------------------------------
(***************************************************************************)
(* Any driver of DriverTables, loaded and unloaded again and again: every  *)
(* step that can fail may fail, and the kernel calls into the driver       *)
(* whenever what it has registered so far lets it.                         *)
(***************************************************************************)
EXTENDS DriverTables

CONSTANT Chosen     \* names of the drivers to run

ASSUME ChosenAssumption == Chosen \subseteq DOMAIN Drivers

VARIABLES
    driver,     \* the driver this behaviour is about
    phase,      \* "off", "loading", "failing", "on", "unloading"
    hollow,     \* init has undone its work and returned 0 all the same
    todo,       \* the steps left of the running function
    held,       \* resources taken and not given back
    ready,      \* what has been initialised
    armed,      \* work items, timers and transfers due to call back
    running,    \* calls into the driver
    faults      \* resources given back or used while the driver did not hold them

vars == <<driver, phase, hollow, todo, held, ready, armed, running, faults>>

Calls == Drivers[driver].calls
Busy(r) == \E c \in running : Calls[c].until = r

Phases == {"off", "loading", "failing", "on", "unloading"}
Names == UNION {UNION {{c.by, c.until} \union c.needs \union c.arms \union c.gives :
                          c \in {Drivers[d].calls[n] : n \in DOMAIN Drivers[d].calls}} :
                d \in Chosen}

TypeOK ==
    /\ driver \in Chosen
    /\ phase \in Phases /\ hollow \in BOOLEAN
    /\ running \subseteq DOMAIN Calls
    /\ armed \subseteq Names
    /\ phase = "off" => todo = << >>

Init ==
    /\ driver \in Chosen
    /\ phase = "off" /\ hollow = FALSE
    /\ todo = << >>
    /\ held = {} /\ ready = {} /\ armed = {} /\ running = {} /\ faults = {}

-----------------------------------------------------------------------------
Load ==
    /\ phase = "off" /\ running = {} /\ armed = {}
    /\ phase' = "loading" /\ hollow' = FALSE
    /\ todo' = Drivers[driver].load
    /\ held' = {} /\ ready' = {} /\ faults' = {}
    /\ UNCHANGED <<driver, armed, running>>

(* A module cannot go while an open file refers to it, and a USB driver's  *)
(* transfers are over before it is told to disconnect.                     *)
Unload ==
    LET Over(c) == \/ Calls[c].until = "module"
                   \/ Drivers[driver].usb /\ Calls[c].by \in Urbs
    IN /\ phase = "on"
       /\ \A c \in running : ~Over(c)
       /\ phase' = "unloading"
       /\ todo' = Drivers[driver].unload
       /\ armed' = IF Drivers[driver].usb THEN armed \ Urbs ELSE armed
       /\ UNCHANGED <<driver, hollow, held, ready, running, faults>>

(* The running function has returned.                                      *)
Returns ==
    /\ phase # "off" /\ todo = << >>
    /\ phase # "on"
    /\ phase' = IF phase = "loading" \/ (phase = "failing" /\ hollow) THEN "on" ELSE "off"
    /\ UNCHANGED <<driver, hollow, todo, held, ready, armed, running, faults>>

(* The next step of the running function.                                  *)
Now == Head(todo)
Doing(ops) == todo # << >> /\ Now.op \in ops
Goes == todo' = Tail(todo) /\ UNCHANGED <<driver, phase, hollow>>

Taken ==
    /\ Doing({"take"})
    /\ held' = held \union {Now.res}
    /\ Goes
    /\ UNCHANGED <<ready, armed, running, faults>>

Passed ==
    /\ \/ Doing({"check"})
       \/ Doing({"need"}) /\ Now.res \subseteq held
    /\ Goes
    /\ UNCHANGED <<held, ready, armed, running, faults>>

Fails(how) ==
    /\ Doing({"take", "check", "need"})
    /\ how \in Now.fails
    /\ Doing({"need"}) => ~(Now.res \subseteq held)
    /\ todo' = Now.undo
    /\ phase' = "failing" /\ hollow' = (how = "zero")
    /\ UNCHANGED <<driver, held, ready, armed, running, faults>>
FailsWithError == Fails("error")
FailsWithZero  == Fails("zero")
FailsUnnoticed ==
    /\ Doing({"take"}) /\ "ignored" \in Now.fails
    /\ Goes
    /\ UNCHANGED <<held, ready, armed, running, faults>>

(* A release first waits for the calls it has to wait for.                 *)
Releases ==
    /\ Doing({"put", "putAny"})
    /\ ~Busy(Now.res)
    /\ held' = held \ {Now.res}
    /\ faults' = IF Now.op = "put" THEN faults \union ({Now.res} \ held) ELSE faults
    /\ Goes
    /\ UNCHANGED <<ready, armed, running>>

(* The kernel does not find what it is asked to release, or init or exit   *)
(* follows a pointer it never checked.                                     *)
Misses ==
    /\ Doing({"putElse", "use"})
    /\ faults' = IF Now.op = "use" THEN faults \union ({Now.res} \ held)
                 ELSE faults \union {Now.res}
    /\ Goes
    /\ UNCHANGED <<held, ready, armed, running>>

SetsUp ==
    /\ Doing({"setup", "undo"})
    /\ ready' = IF Now.op = "setup" THEN ready \union {Now.res} ELSE ready \ {Now.res}
    /\ Goes
    /\ UNCHANGED <<held, armed, running, faults>>

Arms ==
    /\ Doing({"arm", "drop"})
    /\ armed' = IF Now.op = "arm" THEN armed \union {Now.res} ELSE armed \ {Now.res}
    /\ Goes
    /\ UNCHANGED <<held, ready, running, faults>>

Flushes ==
    /\ Doing({"flush"})
    /\ ~Busy(Now.res)
    /\ armed' = armed \ {Now.res}
    /\ Goes
    /\ UNCHANGED <<held, ready, running, faults>>

-----------------------------------------------------------------------------
(* The kernel calls into the driver, and the call returns.  A module that  *)
(* is going cannot be opened any more.                                     *)
CallBegins(c) ==
    /\ c \notin running
    /\ Calls[c].by \in held \union armed
    /\ Calls[c].until = "module" => phase \notin {"off", "unloading"}
    /\ armed' = armed \ {Calls[c].by}
    /\ running' = running \union {c}
    /\ UNCHANGED <<driver, phase, hollow, todo, held, ready, faults>>

CallEnds(c) ==
    /\ c \in running
    /\ running' = running \ {c}
    /\ armed' = armed \union
           IF phase = "unloading" /\ Drivers[driver].usb THEN Calls[c].arms \ Urbs
           ELSE Calls[c].arms
    /\ held' = held \ Calls[c].gives
    /\ UNCHANGED <<driver, phase, hollow, todo, ready, faults>>

Next ==
    \/ Load \/ Unload \/ Returns
    \/ Taken \/ Passed \/ FailsWithError \/ FailsWithZero \/ FailsUnnoticed
    \/ Releases \/ Misses \/ SetsUp \/ Arms \/ Flushes
    \/ \E c \in DOMAIN Calls : CallBegins(c) \/ CallEnds(c)

Spec == Init /\ [][Next]_vars

-----------------------------------------------------------------------------
(***************************************************************************)
(* What the code is known to get wrong.  Every entry is one mistake of one *)
(* function; the properties say that there is no other.                    *)
(***************************************************************************)
AssignmentDrivers == {"char_dev", "chardev_minor", "chardev_sync", "chardrv_lock",
                      "chardrv_seqlock", "chardev_poll", "chardrv_ioctl", "charioctl"}
SysDrivers == {"sysfs_skel", "rtc_sync", "rtc_sysfs", "rtcsysfs_comman", "apic_sysfs"}
ApicDrivers == {"apic_ioctl", "apic_sysfs"}
RamDisks == {"blk_drv", "ramblk_drv", "ramblock_drv"}

(* Drivers whose init can fail and return 0.                               *)
KnownHollow ==
    AssignmentDrivers \union SysDrivers
    \union {"mycharS", "mycharD", "mycharPer", "mychar_udev", "blk_drv", "ramblk_drv"}

(* <<driver, resource>>: the driver is gone and the resource is not.       *)
KnownLeft ==
    ((AssignmentDrivers \union {"mychar_udev"}) \X {"cdev"})
    \union (ApicDrivers \X {"io"}) \union (RamDisks \X {"dev"})
    \union {<<"ramblock_drv", "queue">>, <<"input_dev", "irq">>,
            <<"mychar_reg", "chrdev">>, <<"btusb", "isoc">>}

(* <<driver, resource>>: init or exit uses or releases what it never got.  *)
KnownFaults ==
    (RamDisks \X {"dev"})
    \union {<<"input_dev", "irq">>, <<"mychar_reg", "chrdev">>, <<"work_priv", "my_workq">>}

(* <<driver, call>>: the call can still run when the driver is gone.       *)
KnownOutlives ==
    {<<"mmap_skel", "mmap">>, <<"ttyled_blink", "mytimer_func">>,
     <<"work_queue", "workq_fn">>, <<"input_dev", "button_interrupt">>,
     <<"rtl8139", "rtl8139_thread">>}

(* <<driver, resource>>: a call can find the resource missing.             *)
KnownUnready ==
    (AssignmentDrivers \X {"kbuffer"}) \union (ApicDrivers \X {"io"})
    \union (RamDisks \X {"dev"}) \union ({"rtl8139"} \X {"napi", "netdev", "mmio"})
    \union {<<"chardev_minor", "kbuffer1">>, <<"chardrv_lock", "mylock">>,
            <<"chardev_poll", "poll_data">>, <<"rtc_proc", "lock">>,
            <<"input_dev", "button_dev">>, <<"work_priv", "my_workq">>,
            <<"es1938", "mixer">>}

(***************************************************************************)
(* A driver that is gone, because its init failed at any of its steps or   *)
(* because it was unloaded, has given back everything it took, in          *)
(* whichever combination of later steps failed unnoticed.                  *)
(***************************************************************************)
NothingLeft ==
    phase = "off" => \A r \in held : <<driver, r>> \in KnownLeft

(***************************************************************************)
(* Init, exit and the clean-up after a failure release and use only what   *)
(* is held at that point, and init does not claim success after it undid   *)
(* its work: what a later exit then releases a second time.                *)
(***************************************************************************)
HeldWhenReleased ==
    IF hollow THEN driver \in KnownHollow
    ELSE \A r \in faults : <<driver, r>> \in KnownFaults

(***************************************************************************)
(* Whenever the kernel is inside the driver - an open file, an interrupt,  *)
(* a completion, a work item - what that call uses has been set up and not *)
(* yet taken away, and the driver is still there.                          *)
(***************************************************************************)
CalledWhenReady ==
    \A c \in running :
        /\ phase = "off" => <<driver, c>> \in KnownOutlives
        /\ ~hollow => \A r \in Calls[c].needs \ (held \union ready) :
                         <<driver, r>> \in KnownUnready
=============================================================================
