----------------------------- MODULE CharDrivers -----------------------------
(***************************************************************************)
(* The file operations and attribute files of the exercise drivers, called *)
(* by several processes at once: those that keep a message in a kernel     *)
(* buffer (Assignment, char, procfs, sysfs) and those that reach the RTC or *)
(* the IOAPIC through an address and a data port (char, ioctl, apic,       *)
(* procfs, sysfs).                                                         *)
(*                                                                         *)
(* A driver is the record of its operations, each a sequence of the steps  *)
(* whose order matters; the actions run one step of one process at a time. *)
(* One driver is loaded per behaviour. A value is the number of the call   *)
(* that wrote it; a buffer has Size cells per minor number.                *)
(***************************************************************************)
EXTENDS Integers, Sequences, FiniteSets, TLC

CONSTANTS
    Drivers,     \* the drivers to load
    Processes,
    Size,        \* cells of a buffer
    MaxCalls,    \* bounds: reads, writes and ioctls of a behaviour of a driver with a
    MaxPortCalls \* message buffer, and of one with registers behind ports

VARIABLES
    driver,
    \* the driver's static data and the registers behind the ports, by key; the
    \* port's address register; m_lock, lock or mylock
    mem, size_of_msg, readoffset, completions, address, mutex, readers, writer, sequence,
    \* per process: file open, steps to do, the call, cells copied, values read,
    \* and what it has loaded
    opened, todo, call, pos, got, loaded,
    calls,
    \* history: calls with a write among them overlapped; a port access went to
    \* another register; what finished writes left; the buffers that stood with
    \* no writer during each call; what reads returned, and what spoils those; the
    \* last message to chardev_sync whose copy is finished, and the reads that a
    \* write has met after their wait
    dirty, strayed, latest, snapshots, returned, spoiled, message, crossed

dataVars == <<mem, size_of_msg, readoffset, completions, address>>
lockVars == <<mutex, readers, writer, sequence>>
callVars == <<opened, call, calls>>
copyVars == <<pos, got, loaded>>
history  == <<dirty, strayed, latest, snapshots, returned, spoiled, message, crossed>>
vars == <<driver, dataVars, lockVars, callVars, todo, copyVars, history>>

\* "VALUE" is proc_skel's integer, "IRQ" the irqno of apic_sysfs
Registers == {"SECOND", "MINUTE", "HOUR", "DAY", "MONTH", "YEAR",
              "ID", "VERSION", "LOW", "HIGH", "VALUE", "IRQ"}
Buffers == {"kbuffer", "kbuffer1"}
Keys == Registers \X {0} \union Buffers \X (1 .. Size)

-----------------------------------------------------------------------------
(* Steps. "*" is the register that the call names.                         *)

S(do) == <<[do |-> do, reg |-> "none"]>>
At(do, reg) == <<[do |-> do, reg |-> reg]>>
RtcTime(Op(_)) == Op("SECOND") \o Op("MINUTE") \o Op("HOUR")
RtcDate(Op(_)) == Op("DAY") \o Op("MONTH") \o Op("YEAR")

\* copies take size_of_msg once, as their argument, and then go cell by cell
SendsMessage == S("count") \o S("out")
TakesMessage == S("size") \o S("count") \o S("in")

get_rtc(r) == At("address", r) \o At("get", r)
set_rtc(r) == At("address", r) \o At("set", r)

get_rtcLocked(r) == S("mutex") \o get_rtc(r) \o S("unmutex")
set_rtcLocked(r) == S("mutex") \o set_rtc(r) \o S("unmutex")

-----------------------------------------------------------------------------
(* Drivers with a message buffer.                                          *)

char_dev == [open |-> <<>>, release |-> <<>>,
             ops |-> [read |-> SendsMessage, write |-> TakesMessage]]

\* a poll for POLLPRI returns at once; without it nothing ever wakes the caller
chardev_poll == [open |-> <<>>, release |-> <<>>,
                 ops |-> [read |-> SendsMessage, write |-> TakesMessage, poll |-> S("poll")]]

\* a read asks for its own length
chardev_minor == [open |-> <<>>, release |-> <<>>,
                  ops |-> [read |-> S("size") \o SendsMessage, write |-> TakesMessage]]

\* mutant: the reader is woken before the message is there
chardev_syncEarly == [open |-> <<>>, release |-> <<>>,
                      ops |-> [read  |-> S("await") \o SendsMessage \o S("load") \o S("add"),
                               write |-> S("complete") \o TakesMessage]]

chardev_sync == [open |-> <<>>, release |-> <<>>,
                 ops |-> [read  |-> S("await") \o SendsMessage \o S("load") \o S("add"),
                          write |-> TakesMessage \o S("complete")]]

\* mutant: reads without the lock
chardrv_lockNot == [open |-> <<>>, release |-> <<>>,
                    ops |-> [read  |-> SendsMessage \o S("load") \o S("add"),
                             write |-> S("size") \o S("wlock") \o S("count") \o S("in")
                                         \o S("wunlock")]]

chardrv_lock == [open |-> <<>>, release |-> <<>>,
                 ops |-> [read  |-> S("rlock") \o SendsMessage \o S("load") \o S("add")
                                      \o S("runlock"),
                          write |-> S("size") \o S("wlock") \o S("count") \o S("in")
                                      \o S("wunlock")]]

chardrv_seqlock == [open |-> <<>>, release |-> <<>>,
                    ops |-> [read  |-> S("seqbegin") \o SendsMessage \o S("load") \o S("add")
                                         \o S("seqretry"),
                             write |-> S("size") \o S("wlock") \o S("count") \o S("in")
                                         \o S("wunlock")]]

\* FILE_READ and FILE_WRITE
chardrv_ioctl == [open |-> <<>>, release |-> <<>>,
                  ops |-> [read |-> SendsMessage, write |-> TakesMessage]]

\* FILLZERO and FILLCHAR fill the whole buffer
charioctl == [open |-> <<>>, release |-> <<>>,
              ops |-> [read |-> SendsMessage, write |-> TakesMessage, fill |-> S("fill")]]

\* one process at a time may have the device open; a write clears first
OpenAlone == S("trylock")
ReadsLen == S("size") \o SendsMessage \o S("forget")
WritesLen == S("size") \o S("clear") \o S("count") \o S("in") \o S("forget")

\* mutant: a second process may open the device
mycharSShared == [open |-> <<>>, release |-> <<>>,
                  ops |-> [read |-> ReadsLen, write |-> WritesLen]]

mycharS == [open |-> OpenAlone, release |-> S("unlock"),
            ops |-> [read |-> ReadsLen, write |-> WritesLen]]
mycharD == [open |-> OpenAlone, release |-> S("unlock"),
            ops |-> [read |-> ReadsLen, write |-> WritesLen]]
mychar_udev == [open |-> OpenAlone, release |-> S("unlock"),
                ops |-> [read |-> ReadsLen, write |-> WritesLen]]
mychar_reg == [open |-> OpenAlone, release |-> S("unlock"),
               ops |-> [read |-> ReadsLen, write |-> WritesLen]]
mychar_misc == [open |-> OpenAlone, release |-> S("unlock"),
                ops |-> [read |-> ReadsLen, write |-> WritesLen]]

\* opens only for CAP_SYS_ADMIN, and gives the mutex back where that fails
mycharPer == [open |-> OpenAlone \o S("capable"), release |-> S("unlock"),
              ops |-> [read |-> ReadsLen, write |-> WritesLen]]

\* one integer
proc_skel == [open |-> <<>>, release |-> <<>>,
              ops |-> [read |-> At("getvalue", "VALUE"), write |-> At("setvalue", "VALUE")]]

-----------------------------------------------------------------------------
(* Drivers of registers behind an address and a data port.                 *)

rtc_chardrv == [open |-> OpenAlone, release |-> S("unlock"),
                ops |-> [read  |-> RtcTime(get_rtc) \o RtcDate(get_rtc),
                         write |-> RtcTime(set_rtc) \o RtcDate(set_rtc)]]

\* the file offset names the register
clock == [open |-> OpenAlone, release |-> S("unlock"),
          ops |-> [read |-> get_rtc("*"), write |-> set_rtc("*")]]

\* SET_SECOND ... SET_YEAR
rtc_ioctl == [open |-> OpenAlone, release |-> S("unlock"),
              ops |-> [read |-> RtcTime(get_rtc) \o RtcDate(get_rtc), write |-> set_rtc("*")]]

\* GETID, GETIRQ; GETIRQSTATUS and GETIRQTYPE read both halves of an entry
apic_ioctl == [open |-> OpenAlone, release |-> S("unlock"),
               ops |-> [getid |-> get_rtc("ID"), getirq |-> get_rtc("VERSION"),
                        getirqstatus |-> get_rtc("LOW") \o get_rtc("HIGH")]]

\* irqno, which irqstatus_store sets, chooses the entry
apic_sysfs == [open |-> <<>>, release |-> <<>>,
               ops |-> [getid |-> get_rtc("ID"), getirq |-> get_rtc("VERSION"),
                        getirqstatus |-> At("getvalue", "IRQ")
                                           \o (get_rtc("LOW") \o get_rtc("HIGH")),
                        write |-> At("setvalue", "IRQ")]]

\* the order in which time_write sets
Backwards(Op(_)) == Op("HOUR") \o Op("MINUTE") \o Op("SECOND")

rtc_proc == [open |-> <<>>, release |-> <<>>,
             ops |-> [read      |-> RtcTime(get_rtcLocked),
                      readdate  |-> RtcDate(get_rtcLocked),
                      write     |-> Backwards(set_rtcLocked),
                      writedate |-> RtcDate(set_rtcLocked)]]

rtc_sync == [open |-> <<>>, release |-> <<>>,
             ops |-> [read      |-> RtcTime(get_rtcLocked),
                      readdate  |-> RtcDate(get_rtcLocked),
                      write     |-> RtcTime(set_rtcLocked),
                      writedate |-> RtcDate(set_rtcLocked)]]

rtc_sysfs == [open |-> <<>>, release |-> <<>>,
              ops |-> [read      |-> RtcTime(get_rtc),
                       readdate  |-> RtcDate(get_rtc),
                       write     |-> RtcTime(set_rtc),
                       writedate |-> RtcDate(set_rtc)]]

rtcsysfs_comman == [open |-> <<>>, release |-> <<>>,
                    ops |-> [read      |-> RtcTime(get_rtc),
                             readdate  |-> RtcDate(get_rtc),
                             write     |-> RtcTime(set_rtc),
                             writedate |-> RtcDate(set_rtc)]]

-----------------------------------------------------------------------------

Table ==
    [char_dev |-> char_dev, chardev_poll |-> chardev_poll, chardev_minor |-> chardev_minor,
     chardev_sync |-> chardev_sync, chardrv_lock |-> chardrv_lock,
     chardrv_seqlock |-> chardrv_seqlock, chardrv_ioctl |-> chardrv_ioctl,
     charioctl |-> charioctl, mycharS |-> mycharS, mycharD |-> mycharD,
     mychar_udev |-> mychar_udev, mychar_reg |-> mychar_reg, mychar_misc |-> mychar_misc,
     mycharPer |-> mycharPer, proc_skel |-> proc_skel,
     rtc_chardrv |-> rtc_chardrv, clock |-> clock, rtc_ioctl |-> rtc_ioctl,
     apic_ioctl |-> apic_ioctl, apic_sysfs |-> apic_sysfs, rtc_proc |-> rtc_proc,
     rtc_sync |-> rtc_sync, rtc_sysfs |-> rtc_sysfs, rtcsysfs_comman |-> rtcsysfs_comman]

Ports == {"rtc_chardrv", "clock", "rtc_ioctl", "apic_ioctl", "apic_sysfs", "rtc_proc",
          "rtc_sync", "rtc_sysfs", "rtcsysfs_comman"}
Bound == IF driver \in Ports THEN MaxPortCalls ELSE MaxCalls
Alone == {"mycharS", "mycharD", "mychar_udev", "mychar_reg", "mychar_misc", "mycharPer",
          "rtc_chardrv", "clock", "rtc_ioctl", "apic_ioctl"}
BareSysfs == {"apic_sysfs", "rtc_sysfs", "rtcsysfs_comman"}    \* neither alone nor locked
Lengths == {"chardev_minor"} \union (Alone \ Ports)  \* reads ask for their own length

ASSUME DriversAssumption == Drivers \subseteq DOMAIN Table
ASSUME SizeAssumption == Size \in Nat \ {0}
ASSUME BoundsAssumption == MaxCalls \in Nat /\ MaxPortCalls \in Nat

Locked == {"chardrv_lock", "chardrv_seqlock"}
Offsets == {"chardev_sync", "chardrv_lock", "chardrv_seqlock"}    \* keep readoffset

Writing(op) == op \in {"write", "writedate", "fill"}
Reading(op) == op \in {"read", "readdate", "getid", "getirq", "getirqstatus"}

-----------------------------------------------------------------------------

NoCall == [op |-> "none", n |-> 0, id |-> 0, buffer |-> "none", reg |-> "none"]
NothingLoaded == [n |-> 0, len |-> 0, offset |-> 0, sequence |-> 0]

Init ==
    /\ driver \in Drivers
    /\ mem = [k \in Keys |-> 0]
    /\ size_of_msg = 0 /\ readoffset = 0 /\ completions = 0 /\ address = "none"
    /\ mutex = {} /\ readers = {} /\ writer = {} /\ sequence = 0
    /\ opened = IF Table[driver].open = <<>> THEN Processes ELSE {}
    /\ calls = 0
    /\ todo = [p \in Processes |-> <<>>]
    /\ call = [p \in Processes |-> NoCall]
    /\ pos = [p \in Processes |-> 0]
    /\ got = [p \in Processes |-> <<>>]
    /\ loaded = [p \in Processes |-> NothingLoaded]
    /\ dirty = FALSE /\ strayed = FALSE
    /\ latest = [mem |-> [k \in Keys |-> 0], size |-> 0]
    /\ snapshots = [p \in Processes |-> {}]
    /\ returned = 0 /\ spoiled = {}
    /\ message = [id |-> 0, n |-> 0] /\ crossed = {}

Doing(p, do) == todo[p] # <<>> /\ Head(todo[p]).do = do
Done(p) == todo' = [todo EXCEPT ![p] = Tail(@)]
Left(p, do) == \E i \in DOMAIN todo[p] : todo[p][i].do = do

\* the register of a step; that of this step; the cell at i of the call's buffer
KeyOf(p, s) == <<IF s.reg = "*" THEN call[p].reg ELSE s.reg, 0>>
Key(p) == KeyOf(p, Head(todo[p]))
CellAt(p, i) == <<call[p].buffer, i>>

With(f, k, v) == [x \in DOMAIN f \union {k} |-> IF x = k THEN v ELSE f[x]]

InCall(p) == todo[p] # <<>> /\ call[p].op # "none"
Program(p) == Table[driver].ops[call[p].op] \o S("return")
KeysOf(p, t, dos) == {KeyOf(p, t[i]) : i \in {j \in DOMAIN t : t[j].do \in dos}}

\* what a write sets, what a read returns
Written(p) ==
    KeysOf(p, Program(p), {"set", "setvalue"}) \union
    (IF driver \in Ports \union {"proc_skel"} THEN {}
     ELSE {CellAt(p, i) : i \in 1 .. IF call[p].op = "fill" THEN Size ELSE call[p].n})
Expected(p) ==
    KeysOf(p, Program(p), {"get", "getvalue"}) \union
    (IF driver \in Ports \union {"proc_skel"} THEN {}
     ELSE {CellAt(p, i) : i \in 1 .. IF driver \in Lengths THEN call[p].n ELSE latest.size})

-----------------------------------------------------------------------------
(* Files and calls.                                                        *)

Open(p) ==
    /\ p \notin opened /\ todo[p] = <<>> /\ calls < Bound
    /\ todo' = [todo EXCEPT ![p] = Table[driver].open \o S("opened")]
    /\ UNCHANGED <<driver, dataVars, lockVars, callVars, copyVars, history>>

\* open returns -EBUSY to all but the first
TryLock(p) ==
    /\ Doing(p, "trylock")
    /\ IF mutex = {} THEN mutex' = {p} /\ Done(p)
                     ELSE mutex' = mutex /\ todo' = [todo EXCEPT ![p] = <<>>]
    /\ UNCHANGED <<driver, dataVars, readers, writer, sequence, callVars, copyVars, history>>

\* or -EPERM
Capable(p) ==
    /\ Doing(p, "capable")
    /\ \/ Done(p) /\ mutex' = mutex
       \/ todo' = [todo EXCEPT ![p] = <<>>] /\ mutex' = mutex \ {p}
    /\ UNCHANGED <<driver, dataVars, readers, writer, sequence, callVars, copyVars, history>>

Opened(p) ==
    /\ Doing(p, "opened") /\ Done(p)
    /\ opened' = opened \union {p}
    /\ UNCHANGED <<driver, dataVars, lockVars, call, calls, copyVars, history>>

\* the release of the other drivers changes nothing
Release(p) ==
    /\ p \in opened /\ todo[p] = <<>> /\ Table[driver].release = S("unlock")
    /\ opened' = opened \ {p}
    /\ mutex' = mutex \ {p}
    /\ UNCHANGED <<driver, dataVars, readers, writer, sequence, call, calls, todo, copyVars,
                   history>>

\* One call at a time from each open file. Calls overlap without a write among
\* them where they share size_of_msg or the ports.
Enter(p, op, n, buffer, reg) ==
    /\ p \in opened /\ todo[p] = <<>> /\ calls < Bound
    /\ calls' = calls + 1
    /\ call' = [call EXCEPT ![p] = [op |-> op, n |-> n, id |-> calls', buffer |-> buffer,
                                    reg |-> reg]]
    /\ todo' = [todo EXCEPT ![p] = Table[driver].ops[op] \o S("return")]
    /\ snapshots' = [snapshots EXCEPT ![p] =
                        IF driver \in Locked /\ writer = {} THEN {mem} ELSE {}]
    /\ dirty' = (dirty \/ \E q \in Processes \ {p} :
                             /\ InCall(q)
                             /\ \/ Writing(op) \/ Writing(call[q].op)
                                \/ driver \in BareSysfs \union {"chardev_minor"})
    /\ UNCHANGED <<driver, dataVars, lockVars, opened, copyVars, strayed, latest, returned,
                   spoiled, message, crossed>>

Leave(p) ==
    /\ Done(p)
    /\ call' = [call EXCEPT ![p] = NoCall]
    /\ pos' = [pos EXCEPT ![p] = 0]
    /\ got' = [got EXCEPT ![p] = <<>>]
    /\ loaded' = [loaded EXCEPT ![p] = NothingLoaded]
    /\ snapshots' = [snapshots EXCEPT ![p] = {}]
    /\ crossed' = crossed \ {p}
    /\ UNCHANGED <<driver, dataVars, lockVars, opened, calls, message>>

\* a read returns size_of_msg, which it has loaded again after its copy
Return(p) ==
    /\ Doing(p, "return") /\ Leave(p)
    /\ latest' =
          IF ~Writing(call[p].op) THEN latest
          ELSE [mem |-> [k \in Keys |-> IF k \in Written(p) THEN call[p].id ELSE latest.mem[k]],
                size |-> IF call[p].op = "write" THEN call[p].n ELSE latest.size]
    /\ returned' = IF call[p].op = "read" /\ driver \in Offsets
                   THEN returned + loaded[p].len ELSE returned
    /\ UNCHANGED <<dirty, strayed, spoiled>>

Unlocks == {"runlock", "wunlock", "seqretry"}

\* copy_to_user or copy_from_user stops at a bad address: -EFAULT, locks given back
Fault(p) ==
    /\ Doing(p, "in") \/ Doing(p, "out")
    /\ pos[p] < loaded[p].n
    /\ \/ \E unlock \in Unlocks :
             Left(p, unlock) /\ todo' = [todo EXCEPT ![p] = S(unlock) \o S("failed")]
       \/ /\ \A unlock \in Unlocks : ~Left(p, unlock)
          /\ todo' = [todo EXCEPT ![p] = S("failed")]
    /\ spoiled' = IF Writing(call[p].op) THEN spoiled \union {"fault"} ELSE spoiled
    /\ UNCHANGED <<driver, dataVars, lockVars, callVars, copyVars, dirty, strayed, latest,
                   snapshots, returned, message, crossed>>

Failed(p) ==
    /\ Doing(p, "failed") /\ Leave(p)
    /\ UNCHANGED <<dirty, strayed, latest, returned, spoiled>>

-----------------------------------------------------------------------------
(* Messages.                                                               *)

\* the argument of the copy that follows
Count(p) ==
    /\ Doing(p, "count") /\ Done(p)
    /\ loaded' = [loaded EXCEPT ![p].n = size_of_msg]
    /\ UNCHANGED <<driver, dataVars, lockVars, callVars, pos, got, history>>

CopyOut(p) ==
    /\ Doing(p, "out")
    /\ IF pos[p] < loaded[p].n
       THEN LET k == CellAt(p, pos[p] + 1)
            IN  /\ got' = [got EXCEPT ![p] = With(@, k, mem[k])]
                /\ pos' = [pos EXCEPT ![p] = @ + 1]
                /\ UNCHANGED todo
       ELSE Done(p) /\ UNCHANGED <<got, pos>>
    /\ UNCHANGED <<driver, dataVars, lockVars, callVars, loaded, history>>

CopyIn(p) ==
    /\ Doing(p, "in")
    /\ IF pos[p] < loaded[p].n
       THEN /\ mem' = [mem EXCEPT ![CellAt(p, pos[p] + 1)] = call[p].id]
            /\ pos' = [pos EXCEPT ![p] = @ + 1]
            /\ UNCHANGED <<todo, message>>
       ELSE /\ Done(p) /\ UNCHANGED <<mem, pos>>
            /\ message' = IF driver = "chardev_sync" THEN [id |-> call[p].id, n |-> call[p].n]
                                                     ELSE message
    /\ UNCHANGED <<driver, size_of_msg, readoffset, completions, address, lockVars, callVars,
                   got, loaded, dirty, strayed, latest, snapshots, returned, spoiled, crossed>>

\* a write that has set the size and not yet copied all of its message
Underway(q) == InCall(q) /\ Writing(call[q].op) /\ ~Left(q, "size") /\ Left(q, "in")

\* a reader that has counted still adds and returns size_of_msg; one of
\* chardev_sync that has waited reads on, and a second write may be under way
SetSize(p) ==
    /\ Doing(p, "size") /\ Done(p)
    /\ size_of_msg' = call[p].n
    /\ spoiled' = spoiled
         \union (IF \E q \in Processes \ {p} : /\ InCall(q) /\ call[q].op = "read"
                                               /\ ~Left(q, "count") /\ Left(q, "add")
                 THEN {"changed"} ELSE {})
         \union (IF driver = "chardev_sync" /\ \E q \in Processes : Underway(q)
                 THEN {"mixed"} ELSE {})
    /\ crossed' = crossed
         \union {q \in Processes : /\ driver = "chardev_sync" /\ InCall(q)
                                   /\ call[q].op = "read" /\ ~Left(q, "await")}
    /\ UNCHANGED <<driver, mem, readoffset, completions, address, lockVars, callVars, copyVars,
                   dirty, strayed, latest, snapshots, returned, message>>

Forget(p) ==
    /\ Doing(p, "forget") /\ Done(p)
    /\ size_of_msg' = 0
    /\ UNCHANGED <<driver, mem, readoffset, completions, address, lockVars, callVars, copyVars,
                   history>>

\* memset: the first size_of_msg cells to zero, or the whole buffer to a value
Clear(p) ==
    /\ Doing(p, "clear") /\ Done(p)
    /\ mem' = [k \in Keys |-> IF k \in {CellAt(p, i) : i \in 1 .. size_of_msg} THEN 0 ELSE mem[k]]
    /\ UNCHANGED <<driver, size_of_msg, readoffset, completions, address, lockVars, callVars,
                   copyVars, history>>
Fill(p) ==
    /\ Doing(p, "fill") /\ Done(p)
    /\ mem' = [k \in Keys |-> IF k[1] = call[p].buffer THEN call[p].id ELSE mem[k]]
    /\ UNCHANGED <<driver, size_of_msg, readoffset, completions, address, lockVars, callVars,
                   copyVars, history>>

\* readoffset += size_of_msg, a load and a store; the size that is added, loaded
\* after the copy, is also what the read will return: nothing stands between the
\* two uses that would make the compiler load it twice
LoadOffset(p) ==
    /\ Doing(p, "load") /\ Done(p)
    /\ loaded' = [loaded EXCEPT ![p].offset = readoffset]
    /\ UNCHANGED <<driver, dataVars, lockVars, callVars, pos, got, history>>

\* mutant: assigns where it should add
StoreOffsetAssigns(p) ==
    /\ Doing(p, "add") /\ Done(p)
    /\ readoffset' = size_of_msg
    /\ loaded' = [loaded EXCEPT ![p].len = size_of_msg]
    /\ spoiled' = IF readoffset # loaded[p].offset THEN spoiled \union {"lost"} ELSE spoiled
    /\ UNCHANGED <<driver, mem, size_of_msg, completions, address, lockVars, callVars, pos, got,
                   dirty, strayed, latest, snapshots, returned, message, crossed>>

StoreOffset(p) ==
    /\ Doing(p, "add") /\ Done(p)
    /\ readoffset' = loaded[p].offset + size_of_msg
    /\ loaded' = [loaded EXCEPT ![p].len = size_of_msg]
    /\ spoiled' = IF readoffset # loaded[p].offset THEN spoiled \union {"lost"} ELSE spoiled
    /\ UNCHANGED <<driver, mem, size_of_msg, completions, address, lockVars, callVars, pos, got,
                   dirty, strayed, latest, snapshots, returned, message, crossed>>

\* nobody looks at the result, so a signal lets the read go on without a message
Await(p) ==
    /\ Doing(p, "await") /\ Done(p)
    /\ \/ readoffset # 0 /\ UNCHANGED <<completions, spoiled>>
       \/ readoffset = 0 /\ completions > 0 /\ completions' = completions - 1 /\ UNCHANGED spoiled
       \/ readoffset = 0 /\ completions = 0 /\ spoiled' = spoiled \union {"signal"}
          /\ UNCHANGED completions
    /\ crossed' = IF \E q \in Processes : Underway(q) THEN crossed \union {p} ELSE crossed
    /\ UNCHANGED <<driver, mem, size_of_msg, readoffset, address, lockVars, callVars, copyVars,
                   dirty, strayed, latest, snapshots, returned, message>>

Complete(p) ==
    /\ Doing(p, "complete") /\ Done(p)
    /\ completions' = completions + 1
    /\ UNCHANGED <<driver, mem, size_of_msg, readoffset, address, lockVars, callVars, copyVars,
                   history>>

Poll(p) ==
    /\ Doing(p, "poll") /\ call[p].reg = "POLLPRI" /\ Done(p)
    /\ UNCHANGED <<driver, dataVars, lockVars, callVars, copyVars, history>>

-----------------------------------------------------------------------------
(* Locks.                                                                  *)

ReadLock(p) ==
    /\ Doing(p, "rlock") /\ writer = {} /\ Done(p)
    /\ readers' = readers \union {p}
    /\ UNCHANGED <<driver, dataVars, mutex, writer, sequence, callVars, copyVars, history>>
ReadUnlock(p) ==
    /\ Doing(p, "runlock") /\ Done(p)
    /\ readers' = readers \ {p}
    /\ UNCHANGED <<driver, dataVars, mutex, writer, sequence, callVars, copyVars, history>>

\* of the rwlock, or of the seqlock, which counts
WriteLock(p) ==
    /\ Doing(p, "wlock") /\ writer = {} /\ readers = {} /\ Done(p)
    /\ writer' = {p}
    /\ sequence' = sequence + 1
    /\ UNCHANGED <<driver, dataVars, mutex, readers, callVars, copyVars, history>>
WriteUnlock(p) ==
    /\ Doing(p, "wunlock") /\ Done(p)
    /\ writer' = {}
    /\ sequence' = sequence + 1
    /\ snapshots' = [q \in Processes |-> IF InCall(q) /\ Reading(call[q].op)
                                         THEN snapshots[q] \union {mem} ELSE snapshots[q]]
    /\ UNCHANGED <<driver, dataVars, mutex, readers, callVars, copyVars, dirty, strayed, latest,
                   returned, spoiled, message, crossed>>

SeqBegin(p) ==
    /\ Doing(p, "seqbegin") /\ writer = {} /\ Done(p)
    /\ loaded' = [loaded EXCEPT ![p].sequence = sequence]
    /\ UNCHANGED <<driver, dataVars, lockVars, callVars, pos, got, history>>

\* from the start if a writer came; the attempt has added to readoffset all the same
SeqRetry(p) ==
    /\ Doing(p, "seqretry")
    /\ IF sequence = loaded[p].sequence
       THEN Done(p) /\ UNCHANGED <<pos, got, returned>>
       ELSE /\ todo' = [todo EXCEPT ![p] = Program(p)]
            /\ pos' = [pos EXCEPT ![p] = 0]
            /\ got' = [got EXCEPT ![p] = <<>>]
            /\ returned' = IF Left(p, "return") THEN returned + loaded[p].len ELSE returned
    /\ UNCHANGED <<driver, dataVars, lockVars, callVars, loaded, dirty, strayed, latest,
                   snapshots, spoiled, message, crossed>>

PortLock(p) ==
    /\ Doing(p, "mutex") /\ mutex = {} /\ Done(p)
    /\ mutex' = {p}
    /\ UNCHANGED <<driver, dataVars, readers, writer, sequence, callVars, copyVars, history>>
PortUnlock(p) ==
    /\ Doing(p, "unmutex") /\ Done(p)
    /\ mutex' = {}
    /\ UNCHANGED <<driver, dataVars, readers, writer, sequence, callVars, copyVars, history>>

\* a kill while waiting: this register is left out and the call goes on
Killed(p) ==
    /\ Doing(p, "mutex") /\ mutex # {}
    /\ todo' = [todo EXCEPT ![p] = SubSeq(@, 5, Len(@))]
    /\ spoiled' = spoiled \union {"fault"}
    /\ UNCHANGED <<driver, dataVars, lockVars, callVars, copyVars, dirty, strayed, latest,
                   snapshots, returned, message, crossed>>

-----------------------------------------------------------------------------
(* Ports and integers.                                                     *)

Address(p) ==
    /\ Doing(p, "address") /\ Done(p)
    /\ address' = Key(p)[1]
    /\ UNCHANGED <<driver, mem, size_of_msg, readoffset, completions, lockVars, callVars, copyVars,
                   history>>

Get(p) ==
    /\ Doing(p, "get") /\ Done(p)
    /\ got' = [got EXCEPT ![p] = With(@, Key(p), mem[<<address, 0>>])]
    /\ strayed' = (strayed \/ address # Key(p)[1])
    /\ UNCHANGED <<driver, dataVars, lockVars, callVars, pos, loaded, dirty, latest, snapshots,
                   returned, spoiled, message, crossed>>

Set(p) ==
    /\ Doing(p, "set") /\ Done(p)
    /\ mem' = [mem EXCEPT ![<<address, 0>>] = call[p].id]
    /\ strayed' = (strayed \/ address # Key(p)[1])
    /\ UNCHANGED <<driver, size_of_msg, readoffset, completions, address, lockVars, callVars,
                   copyVars, dirty, latest, snapshots, returned, spoiled, message, crossed>>

GetValue(p) ==
    /\ Doing(p, "getvalue") /\ Done(p)
    /\ got' = [got EXCEPT ![p] = With(@, Key(p), mem[Key(p)])]
    /\ UNCHANGED <<driver, dataVars, lockVars, callVars, pos, loaded, history>>

SetValue(p) ==
    /\ Doing(p, "setvalue") /\ Done(p)
    /\ mem' = [mem EXCEPT ![Key(p)] = call[p].id]
    /\ UNCHANGED <<driver, size_of_msg, readoffset, completions, address, lockVars, callVars,
                   copyVars, history>>

-----------------------------------------------------------------------------

\* lengths stay within the buffer; two registers stand for the six of a "*"
Call(p) ==
    \E op \in DOMAIN Table[driver].ops :
    \E n \in IF driver \in Ports \union {"proc_skel"} THEN {1} ELSE 1 .. Size :
    \E buffer \in IF driver = "chardev_minor" THEN Buffers ELSE {"kbuffer"} :
    \E reg \in IF op = "poll" THEN {"POLLPRI", "none"}
               ELSE IF \E i \in DOMAIN Table[driver].ops[op] : Table[driver].ops[op][i].reg = "*"
               THEN {"SECOND", "MINUTE"} ELSE {"none"} :
        Enter(p, op, n, buffer, reg)

Next == \E p \in Processes :
    \/ Open(p) \/ TryLock(p) \/ Capable(p) \/ Opened(p) \/ Release(p)
    \/ Call(p) \/ Return(p) \/ Fault(p) \/ Failed(p)
    \/ Count(p) \/ CopyOut(p) \/ CopyIn(p) \/ SetSize(p) \/ Forget(p) \/ Clear(p) \/ Fill(p)
    \/ LoadOffset(p) \/ StoreOffset(p) \/ Await(p) \/ Complete(p) \/ Poll(p)
    \/ ReadLock(p) \/ ReadUnlock(p) \/ WriteLock(p) \/ WriteUnlock(p)
    \/ SeqBegin(p) \/ SeqRetry(p) \/ PortLock(p) \/ PortUnlock(p) \/ Killed(p)
    \/ Address(p) \/ Get(p) \/ Set(p) \/ GetValue(p) \/ SetValue(p)

Spec == Init /\ [][Next]_vars

ProcessSymmetry == Permutations(Processes)

-----------------------------------------------------------------------------
(* Properties.                                                             *)

StepNames == {"trylock", "capable", "opened", "unlock", "return", "failed",
              "size", "count", "in", "out", "clear", "forget", "fill", "load", "add", "poll",
              "await", "complete", "rlock", "runlock", "wlock", "wunlock", "seqbegin", "seqretry",
              "mutex", "unmutex", "address", "get", "set", "getvalue", "setvalue"}
Step == [do : StepNames, reg : Registers \union {"*", "none"}]
Ops == {"read", "readdate", "getid", "getirq", "getirqstatus", "write", "writedate", "fill", "poll"}

Calls == [op : Ops \union {"none"}, n : 0 .. Size, id : 0 .. Bound,
          buffer : Buffers \union {"none"}, reg : Registers \union {"POLLPRI", "none"}]

TypeOK ==
    /\ driver \in Drivers /\ calls \in 0 .. Bound
    /\ mem \in [Keys -> 0 .. Bound] /\ latest \in [mem : [Keys -> 0 .. Bound], size : 0 .. Size]
    /\ size_of_msg \in 0 .. Size /\ address \in Registers \union {"none"}
    /\ readoffset \in Nat /\ returned \in Nat /\ completions \in Nat /\ sequence \in Nat
    /\ mutex \subseteq Processes /\ \A p, q \in mutex : p = q
    /\ readers \subseteq Processes
    /\ writer \subseteq Processes /\ \A p, q \in writer : p = q
    /\ opened \subseteq Processes
    /\ todo \in [Processes -> Seq(Step)]
    /\ call \in [Processes -> Calls]
    /\ pos \in [Processes -> 0 .. Size]
    /\ loaded \in [Processes -> [n : 0 .. Size, len : 0 .. Size, offset : Nat, sequence : Nat]]
    /\ DOMAIN got = Processes
    /\ \A p \in Processes : /\ DOMAIN got[p] \subseteq Keys
                            /\ \A k \in DOMAIN got[p] : got[p][k] \in 0 .. Bound
    /\ dirty \in BOOLEAN /\ strayed \in BOOLEAN
    /\ snapshots \in [Processes -> SUBSET [Keys -> 0 .. Bound]]
    /\ spoiled \subseteq {"fault", "changed", "lost", "signal", "mixed"}
    /\ message \in [id : 0 .. Bound, n : 0 .. Size] /\ crossed \subseteq Processes

\* A read that returns has what the last write left, all of it and nothing
\* else, as long as no write has failed half-way: in the drivers that one process
\* at a time may open, whoever else tries; in the others, in a history where no
\* calls overlapped that share what they use.
\* (mychar_read and mychar_write against mychar_open; chardev_read, myrtc_read)
ReadsWhole ==
    \A p \in Processes :
        Doing(p, "return") /\ Reading(call[p].op) /\ "fault" \notin spoiled
          /\ (~dirty \/ driver \in Alone)
        => got[p] = [k \in Expected(p) |-> latest.mem[k]]

\* What a read under the rwlock or the seqlock copies stood in the buffer, all of
\* it at one moment when nobody was writing, and the length that it returns is
\* that of what it copied, unless a write has set the size between its count and
\* its addition (changed: the code loads size_of_msg again after the copy, and
\* the writer sets it before it takes the lock, so that such a read may return
\* more, or less, than it copied); and where opening or a mutex keeps the others
\* off the ports, no access goes to a register that another process has chosen.
\* (chardrv_lock.c:125-157 and chardrv_seqlock.c:125-158, chardev_read and
\* chardev_write; get_rtc and set_rtc)
LockedIsWhole ==
    /\ \A p \in Processes :
          Doing(p, "return") /\ Reading(call[p].op) /\ driver \in Locked
          => /\ \E s \in snapshots[p] : \A k \in DOMAIN got[p] : got[p][k] = s[k]
             /\ "changed" \notin spoiled
                => DOMAIN got[p] = {CellAt(p, i) : i \in 1 .. loaded[p].len}
    /\ strayed => driver \in BareSysfs

\* readoffset is the sum of what all reads returned, every repeated attempt of
\* a seqlock read counted, whatever size a write sets under a reader, unless two
\* additions overlapped (lost). (readoffset += size_of_msg in chardev_read)
OffsetsAdd ==
    /\ driver \in Offsets /\ "lost" \notin spoiled
    /\ \A p \in Processes : InCall(p) /\ call[p].op = "read" => Left(p, "add")
    => readoffset = returned

\* A read of chardev_sync goes on only when a write has finished its message,
\* unless a signal has ended its wait (signal); and what it returns is the whole
\* of the last message that a write has finished, unless a write was under way
\* at some time between the end of its wait and its return (crossed: nothing
\* keeps a write off a reader, and a completion that an earlier message has left
\* lets one through), or the buffer holds what a write that failed, or two that
\* overlapped, have left (fault, mixed). (chardev_sync.c:125-149, chardev_read
\* and chardev_write, my_comp)
WaitsForMessage ==
    driver = "chardev_sync"
    => \A p \in Processes : Doing(p, "return") /\ Reading(call[p].op)
          => /\ "signal" \notin spoiled => message.id # 0
             /\ p \notin crossed /\ spoiled \intersect {"fault", "mixed"} = {}
                => got[p] = [k \in {CellAt(p, i) : i \in 1 .. message.n} |-> message.id]
=============================================================================
